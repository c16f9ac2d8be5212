----------------------- MODULE OffscreenControlProofs -----------------------
(***************************************************************************)
(* Proofs about OffscreenControl, for any requests and any number of faults:  *)
(* nobody is left waiting on a port that was given up, and the proxy          *)
(* implements Handoff.                                                       *)
(***************************************************************************)
EXTENDS OffscreenControl, TLAPS

Waiting == {"ensuring", "recover", "preparing", "prepared", "reensuring"}

\* A request and its attempts agree.
Calls(r) ==
    /\ phase[r] = "none" => attempt[r] = 1 /\ r \notin pending /\ r \notin cancelled
    /\ attempt[r] = 1 => page[r][2] = "none"
    /\ r \in Transferring => attempt[r] = 1
    /\ phase[r] \in Waiting \cup {"none", "resume"} => page[r][attempt[r]] = "none"
    /\ phase[r] = "sent" => Via(r) = current /\ current # 0
    /\ r \in pending => phase[r] \notin {"none", "done"}
    /\ r \in cancelled => phase[r] # "none"

\* What the document has received was posted, and it has run no more than that.
Remote(r) ==
    /\ \A n \in {1, 2} :
         /\ via[r][n] = 0 <=> page[r][n] = "none"
         /\ page[r][n] \in {"running", "ended"} => runs[r] > 0
         /\ <<r, n>> \in replies => page[r][n] = "ended"
    /\ runs[r] + One(r, 1, {"posted"}) + One(r, 2, {"posted"}) <= Handed(r)

Inv == TypeOK /\ SomebodyWorks /\ \A r \in Req : Calls(r) /\ Remote(r)

LEMMA InvControl == Inv => ControlInv
BY DEF Inv, ControlInv, NobodyLeftBehind, Calls

-------------------------------------------------------------------------------
(* Steps that only move requests on *)

\* Request r waits on, is told that its wait has ended, or loses its port.
Moves(r) ==
    \/ phase'[r] = phase[r] /\ (phase[r] = "sent" => current' = current)
    \/ phase[r] \in Waiting /\ phase'[r] \in Waiting \cup {"resume", "failed"}
    \/ phase[r] \in {"sent", "resume"} /\ phase'[r] = "failed"

LEMMA MovesKeep ==
    ASSUME Inv, NEW r \in Req, Moves(r), UNCHANGED <<attempt, pending, cancelled, via, page, runs>>,
           replies' \subseteq replies
    PROVE  Calls(r)' /\ Remote(r)'
<1>1. Calls(r) /\ Remote(r)
  BY DEF Inv
<1>2. Remote(r)'
  BY <1>1 DEF Remote, Handed, One
<1>3. Calls(r)'
  BY <1>1 DEF Calls, Moves, Waiting, Via
<1>4. QED
  BY <1>2, <1>3

LEMMA AbandonedMoves ==
    ASSUME Inv, NEW r \in Req, phase'[r] = Abandoned(phase, current)[r]
    PROVE  Moves(r)
<1>1. phase[r] = "sent" => Via(r) = current
  BY DEF Inv, Calls
<1>2. QED
  BY <1>1 DEF Moves, Abandoned, Inv, TypeOK

\* The types of the phases.
LEMMA PhaseTypes ==
    ASSUME NEW ph \in [Req -> Phases], NEW p, NEW ok
    PROVE  /\ Abandoned(ph, p) \in [Req -> Phases] /\ Awaited(ph, ok) \in [Req -> Phases]
           /\ Resumed(ph, ok) \in [Req -> Phases]
BY DEF Abandoned, Awaited, Resumed, Phases

LEMMA PhaseForms ==
    ASSUME TypeOK
    PROVE  /\ Abandoned(phase, current) \in [Req -> Phases]
           /\ \A r \in Req : Abandoned(phase, Via(r)) \in [Req -> Phases]
           /\ Awaited(phase, TRUE) \in [Req -> Phases] /\ Awaited(phase, FALSE) \in [Req -> Phases]
           /\ Resumed(phase, TRUE) \in [Req -> Phases] /\ Resumed(phase, FALSE) \in [Req -> Phases]
           /\ Resumed(Abandoned(phase, current), TRUE) \in [Req -> Phases]
           /\ {"ensuring", "preparing", "reensuring", "resume", "sent", "failed", "done"} \subseteq Phases
<1>1. phase \in [Req -> Phases]
  BY DEF TypeOK
<1>2. Abandoned(phase, current) \in [Req -> Phases]
  BY <1>1, PhaseTypes
<1>3. {"ensuring", "preparing", "reensuring", "resume", "sent", "failed", "done"} \subseteq Phases
  BY DEF Phases
<1>4. QED
  BY <1>1, <1>2, <1>3, PhaseTypes

\* Every step keeps the types.
LEMMA TypeStep == Inv /\ [Next]_vars => TypeOK'
<1> SUFFICES ASSUME Inv, [Next]_vars PROVE TypeOK'
  OBVIOUS
<1>1. ASSUME Probe PROVE TypeOK'
  <2> USE DEF Inv
  <2>1. phase' \in [Req -> Phases]
    BY <1>1, PhaseForms DEF Probe, CreatingEnds, Fault, TypeOK
  <2>2. /\ document' \in BOOLEAN /\ answered' \in BOOLEAN /\ creating' \in {"none", "probing", "absent"}
        /\ registering' \in {"none", "document", "documented", "broken", "asking", "waiting"}
    BY <1>1 DEF Probe, CreatingEnds, Fault, TypeOK, remote
  <2>3. offers' \in Nat /\ current' \in Nat /\ ports' \in Nat /\ faults' \in Nat
    <3>1. offers' \in Nat /\ ports' \in Nat
      BY <1>1 DEF Probe, Fault, TypeOK, remote
    <3>2. current' \in Nat
      <4>1. current' = current \/ current' = 0
        BY <1>1, Zenon DEF Probe
      <4>2. QED
        BY <4>1 DEF TypeOK
    <3>3. faults' = faults \/ faults' = faults + 1
      BY <1>1, Zenon DEF Probe, Fault, remote
    <3>4. faults' \in Nat
      BY <3>3 DEF TypeOK
    <3>5. QED
      BY <3>1, <3>2, <3>4
  <2>4. attempt' \in [Req -> {1, 2}] /\ pending' \subseteq Import /\ cancelled' \subseteq Import
    BY <1>1 DEF Probe, CreatingEnds, Fault, TypeOK, remote
  <2>5. outcome' \in [Req -> {"none", "answered", "failed", "refused"}]
    BY <1>1 DEF Probe, CreatingEnds, Fault, TypeOK, remote
  <2>6. via' \in [Req -> [{1, 2} -> Nat]] /\ page' \in [Req -> [{1, 2} -> States]]
    BY <1>1 DEF Probe, CreatingEnds, Fault, TypeOK, States, remote
  <2>7. replies' \subseteq Req \X {1, 2} /\ runs' \in [Req -> Nat]
    BY <1>1 DEF Probe, CreatingEnds, Fault, TypeOK, remote
  <2>8. QED
    BY <2>1, <2>2, <2>3, <2>4, <2>5, <2>6, <2>7 DEF TypeOK
<1>2. ASSUME Create PROVE TypeOK'
  <2> USE DEF Inv
  <2>1. phase' \in [Req -> Phases]
    BY <1>2, PhaseForms DEF Create, CreatingEnds, Fault, TypeOK
  <2>2. /\ document' \in BOOLEAN /\ answered' \in BOOLEAN /\ creating' \in {"none", "probing", "absent"}
        /\ registering' \in {"none", "document", "documented", "broken", "asking", "waiting"}
    BY <1>2 DEF Create, CreatingEnds, Fault, TypeOK, remote
  <2>3. offers' \in Nat /\ current' \in Nat /\ ports' \in Nat /\ faults' \in Nat
    <3>1. offers' \in Nat /\ ports' \in Nat
      BY <1>2 DEF Create, Fault, TypeOK, remote
    <3>2. current' \in Nat
      BY <1>2 DEF Create, Fault, TypeOK, remote
    <3>3. faults' = faults \/ faults' = faults + 1
      BY <1>2, Zenon DEF Create, Fault, remote
    <3>4. faults' \in Nat
      BY <3>3 DEF TypeOK
    <3>5. QED
      BY <3>1, <3>2, <3>4
  <2>4. attempt' \in [Req -> {1, 2}] /\ pending' \subseteq Import /\ cancelled' \subseteq Import
    BY <1>2 DEF Create, CreatingEnds, Fault, TypeOK, remote
  <2>5. outcome' \in [Req -> {"none", "answered", "failed", "refused"}]
    BY <1>2 DEF Create, CreatingEnds, Fault, TypeOK, remote
  <2>6. via' \in [Req -> [{1, 2} -> Nat]] /\ page' \in [Req -> [{1, 2} -> States]]
    BY <1>2 DEF Create, CreatingEnds, Fault, TypeOK, States, remote
  <2>7. replies' \subseteq Req \X {1, 2} /\ runs' \in [Req -> Nat]
    BY <1>2 DEF Create, CreatingEnds, Fault, TypeOK, remote
  <2>8. QED
    BY <2>1, <2>2, <2>3, <2>4, <2>5, <2>6, <2>7 DEF TypeOK
<1>3. ASSUME Ask PROVE TypeOK'
  <2> USE DEF Inv
  <2>1. phase' \in [Req -> Phases]
    BY <1>3, PhaseForms DEF Ask, RegistrationEnds, TypeOK
  <2>2. /\ document' \in BOOLEAN /\ answered' \in BOOLEAN /\ creating' \in {"none", "probing", "absent"}
        /\ registering' \in {"none", "document", "documented", "broken", "asking", "waiting"}
    BY <1>3 DEF Ask, RegistrationEnds, TypeOK, remote
  <2>3. offers' \in Nat /\ current' \in Nat /\ ports' \in Nat /\ faults' \in Nat
    <3>1. offers' \in Nat /\ ports' \in Nat
      <4>1. (offers' = offers \/ offers' = offers + 1) /\ ports' = ports
        BY <1>3, Zenon DEF Ask
      <4>2. QED
        BY <4>1 DEF TypeOK
    <3>2. current' \in Nat
      BY <1>3 DEF Ask, TypeOK, remote
    <3>3. faults' = faults \/ faults' = faults + 1
      BY <1>3, Zenon DEF Ask, remote
    <3>4. faults' \in Nat
      BY <3>3 DEF TypeOK
    <3>5. QED
      BY <3>1, <3>2, <3>4
  <2>4. attempt' \in [Req -> {1, 2}] /\ pending' \subseteq Import /\ cancelled' \subseteq Import
    BY <1>3 DEF Ask, RegistrationEnds, TypeOK, remote
  <2>5. outcome' \in [Req -> {"none", "answered", "failed", "refused"}]
    BY <1>3 DEF Ask, RegistrationEnds, TypeOK, remote
  <2>6. via' \in [Req -> [{1, 2} -> Nat]] /\ page' \in [Req -> [{1, 2} -> States]]
    BY <1>3 DEF Ask, RegistrationEnds, TypeOK, States, remote
  <2>7. replies' \subseteq Req \X {1, 2} /\ runs' \in [Req -> Nat]
    BY <1>3 DEF Ask, RegistrationEnds, TypeOK, remote
  <2>8. QED
    BY <2>1, <2>2, <2>3, <2>4, <2>5, <2>6, <2>7 DEF TypeOK
<1>4. ASSUME PortArrives PROVE TypeOK'
  <2> USE DEF Inv
  <2>1. phase' \in [Req -> Phases]
    BY <1>4, PhaseForms DEF PortArrives, TypeOK
  <2>2. /\ document' \in BOOLEAN /\ answered' \in BOOLEAN /\ creating' \in {"none", "probing", "absent"}
        /\ registering' \in {"none", "document", "documented", "broken", "asking", "waiting"}
    BY <1>4 DEF PortArrives, TypeOK, remote
  <2>3. offers' \in Nat /\ current' \in Nat /\ ports' \in Nat /\ faults' \in Nat
    <3>1. offers' \in Nat /\ ports' \in Nat
      BY <1>4 DEF PortArrives, TypeOK, remote
    <3>2. current' \in Nat
      BY <1>4 DEF PortArrives, TypeOK, remote
    <3>3. faults' = faults \/ faults' = faults + 1
      BY <1>4, Zenon DEF PortArrives, remote
    <3>4. faults' \in Nat
      BY <3>3 DEF TypeOK
    <3>5. QED
      BY <3>1, <3>2, <3>4
  <2>4. attempt' \in [Req -> {1, 2}] /\ pending' \subseteq Import /\ cancelled' \subseteq Import
    BY <1>4 DEF PortArrives, TypeOK, remote
  <2>5. outcome' \in [Req -> {"none", "answered", "failed", "refused"}]
    BY <1>4 DEF PortArrives, TypeOK, remote
  <2>6. via' \in [Req -> [{1, 2} -> Nat]] /\ page' \in [Req -> [{1, 2} -> States]]
    BY <1>4 DEF PortArrives, TypeOK, States, remote
  <2>7. replies' \subseteq Req \X {1, 2} /\ runs' \in [Req -> Nat]
    BY <1>4 DEF PortArrives, TypeOK, remote
  <2>8. QED
    BY <2>1, <2>2, <2>3, <2>4, <2>5, <2>6, <2>7 DEF TypeOK
<1>5. ASSUME Asked PROVE TypeOK'
  <2> USE DEF Inv
  <2>1. phase' \in [Req -> Phases]
    BY <1>5, PhaseForms DEF Asked, RegistrationEnds, Fault, TypeOK
  <2>2. /\ document' \in BOOLEAN /\ answered' \in BOOLEAN /\ creating' \in {"none", "probing", "absent"}
        /\ registering' \in {"none", "document", "documented", "broken", "asking", "waiting"}
    BY <1>5 DEF Asked, RegistrationEnds, Fault, TypeOK, remote
  <2>3. offers' \in Nat /\ current' \in Nat /\ ports' \in Nat /\ faults' \in Nat
    <3>1. offers' \in Nat /\ ports' \in Nat
      BY <1>5 DEF Asked, Fault, TypeOK, remote
    <3>2. current' \in Nat
      BY <1>5 DEF Asked, Fault, TypeOK, remote
    <3>3. faults' = faults \/ faults' = faults + 1
      BY <1>5, Zenon DEF Asked, Fault, remote
    <3>4. faults' \in Nat
      BY <3>3 DEF TypeOK
    <3>5. QED
      BY <3>1, <3>2, <3>4
  <2>4. attempt' \in [Req -> {1, 2}] /\ pending' \subseteq Import /\ cancelled' \subseteq Import
    BY <1>5 DEF Asked, RegistrationEnds, Fault, TypeOK, remote
  <2>5. outcome' \in [Req -> {"none", "answered", "failed", "refused"}]
    BY <1>5 DEF Asked, RegistrationEnds, Fault, TypeOK, remote
  <2>6. via' \in [Req -> [{1, 2} -> Nat]] /\ page' \in [Req -> [{1, 2} -> States]]
    BY <1>5 DEF Asked, RegistrationEnds, Fault, TypeOK, States, remote
  <2>7. replies' \subseteq Req \X {1, 2} /\ runs' \in [Req -> Nat]
    BY <1>5 DEF Asked, RegistrationEnds, Fault, TypeOK, remote
  <2>8. QED
    BY <2>1, <2>2, <2>3, <2>4, <2>5, <2>6, <2>7 DEF TypeOK
<1>6. ASSUME PortTimeout PROVE TypeOK'
  <2> USE DEF Inv
  <2>1. phase' \in [Req -> Phases]
    BY <1>6, PhaseForms DEF PortTimeout, RegistrationEnds, TypeOK
  <2>2. /\ document' \in BOOLEAN /\ answered' \in BOOLEAN /\ creating' \in {"none", "probing", "absent"}
        /\ registering' \in {"none", "document", "documented", "broken", "asking", "waiting"}
    BY <1>6 DEF PortTimeout, RegistrationEnds, TypeOK, remote
  <2>3. offers' \in Nat /\ current' \in Nat /\ ports' \in Nat /\ faults' \in Nat
    <3>1. offers' \in Nat /\ ports' \in Nat
      BY <1>6 DEF PortTimeout, TypeOK, remote
    <3>2. current' \in Nat
      BY <1>6 DEF PortTimeout, TypeOK, remote
    <3>3. faults' = faults \/ faults' = faults + 1
      BY <1>6, Zenon DEF PortTimeout, remote
    <3>4. faults' \in Nat
      BY <3>3 DEF TypeOK
    <3>5. QED
      BY <3>1, <3>2, <3>4
  <2>4. attempt' \in [Req -> {1, 2}] /\ pending' \subseteq Import /\ cancelled' \subseteq Import
    BY <1>6 DEF PortTimeout, RegistrationEnds, TypeOK, remote
  <2>5. outcome' \in [Req -> {"none", "answered", "failed", "refused"}]
    BY <1>6 DEF PortTimeout, RegistrationEnds, TypeOK, remote
  <2>6. via' \in [Req -> [{1, 2} -> Nat]] /\ page' \in [Req -> [{1, 2} -> States]]
    BY <1>6 DEF PortTimeout, RegistrationEnds, TypeOK, States, remote
  <2>7. replies' \subseteq Req \X {1, 2} /\ runs' \in [Req -> Nat]
    BY <1>6 DEF PortTimeout, RegistrationEnds, TypeOK, remote
  <2>8. QED
    BY <2>1, <2>2, <2>3, <2>4, <2>5, <2>6, <2>7 DEF TypeOK
<1>7. ASSUME Message PROVE TypeOK'
  <2> USE DEF Inv
  <2>1. phase' \in [Req -> Phases]
    BY <1>7, PhaseForms DEF Message, Probing, calls, remote, TypeOK
  <2>2. /\ document' \in BOOLEAN /\ answered' \in BOOLEAN /\ creating' \in {"none", "probing", "absent"}
        /\ registering' \in {"none", "document", "documented", "broken", "asking", "waiting"}
    BY <1>7 DEF Message, Probing, calls, remote, TypeOK, remote
  <2>3. offers' \in Nat /\ current' \in Nat /\ ports' \in Nat /\ faults' \in Nat
    <3>1. offers' \in Nat /\ ports' \in Nat
      BY <1>7 DEF Message, Probing, calls, remote, TypeOK, remote
    <3>2. current' \in Nat
      BY <1>7 DEF Message, Probing, calls, remote, TypeOK, remote
    <3>3. faults' = faults \/ faults' = faults + 1
      BY <1>7, Zenon DEF Message, Probing, calls, remote, remote
    <3>4. faults' \in Nat
      BY <3>3 DEF TypeOK
    <3>5. QED
      BY <3>1, <3>2, <3>4
  <2>4. attempt' \in [Req -> {1, 2}] /\ pending' \subseteq Import /\ cancelled' \subseteq Import
    BY <1>7 DEF Message, Probing, calls, remote, TypeOK, remote
  <2>5. outcome' \in [Req -> {"none", "answered", "failed", "refused"}]
    BY <1>7 DEF Message, Probing, calls, remote, TypeOK, remote
  <2>6. via' \in [Req -> [{1, 2} -> Nat]] /\ page' \in [Req -> [{1, 2} -> States]]
    BY <1>7 DEF Message, Probing, calls, remote, TypeOK, States, remote
  <2>7. replies' \subseteq Req \X {1, 2} /\ runs' \in [Req -> Nat]
    BY <1>7 DEF Message, Probing, calls, remote, TypeOK, remote
  <2>8. QED
    BY <2>1, <2>2, <2>3, <2>4, <2>5, <2>6, <2>7 DEF TypeOK
<1>8. ASSUME DocumentLost PROVE TypeOK'
  <2> USE DEF Inv
  <2>1. phase' \in [Req -> Phases]
    BY <1>8, PhaseForms DEF DocumentLost, Fault, calls, TypeOK
  <2>2. /\ document' \in BOOLEAN /\ answered' \in BOOLEAN /\ creating' \in {"none", "probing", "absent"}
        /\ registering' \in {"none", "document", "documented", "broken", "asking", "waiting"}
    BY <1>8 DEF DocumentLost, Fault, calls, TypeOK, remote
  <2>3. offers' \in Nat /\ current' \in Nat /\ ports' \in Nat /\ faults' \in Nat
    <3>1. offers' \in Nat /\ ports' \in Nat
      BY <1>8 DEF DocumentLost, Fault, calls, TypeOK, remote
    <3>2. current' \in Nat
      BY <1>8 DEF DocumentLost, Fault, calls, TypeOK, remote
    <3>3. faults' = faults \/ faults' = faults + 1
      BY <1>8, Zenon DEF DocumentLost, Fault, calls, remote
    <3>4. faults' \in Nat
      BY <3>3 DEF TypeOK
    <3>5. QED
      BY <3>1, <3>2, <3>4
  <2>4. attempt' \in [Req -> {1, 2}] /\ pending' \subseteq Import /\ cancelled' \subseteq Import
    BY <1>8 DEF DocumentLost, Fault, calls, TypeOK, remote
  <2>5. outcome' \in [Req -> {"none", "answered", "failed", "refused"}]
    BY <1>8 DEF DocumentLost, Fault, calls, TypeOK, remote
  <2>6. via' \in [Req -> [{1, 2} -> Nat]] /\ page' \in [Req -> [{1, 2} -> States]]
    BY <1>8 DEF DocumentLost, Fault, calls, TypeOK, States, remote
  <2>7. replies' \subseteq Req \X {1, 2} /\ runs' \in [Req -> Nat]
    BY <1>8 DEF DocumentLost, Fault, calls, TypeOK, remote
  <2>8. QED
    BY <2>1, <2>2, <2>3, <2>4, <2>5, <2>6, <2>7 DEF TypeOK
<1>9. ASSUME NEW c \in Req, Send(c) PROVE TypeOK'
  <2> USE DEF Inv
  <2>1. phase' \in [Req -> Phases]
    BY <1>9, PhaseForms DEF Send, Ensure, Probing, remote, TypeOK
  <2>2. /\ document' \in BOOLEAN /\ answered' \in BOOLEAN /\ creating' \in {"none", "probing", "absent"}
        /\ registering' \in {"none", "document", "documented", "broken", "asking", "waiting"}
    BY <1>9 DEF Send, Ensure, Probing, remote, TypeOK, remote
  <2>3. offers' \in Nat /\ current' \in Nat /\ ports' \in Nat /\ faults' \in Nat
    <3>1. offers' \in Nat /\ ports' \in Nat
      BY <1>9 DEF Send, Ensure, Probing, remote, TypeOK, remote
    <3>2. current' \in Nat
      BY <1>9 DEF Send, Ensure, Probing, remote, TypeOK, remote
    <3>3. faults' = faults \/ faults' = faults + 1
      BY <1>9, Zenon DEF Send, Ensure, Probing, remote, remote
    <3>4. faults' \in Nat
      BY <3>3 DEF TypeOK
    <3>5. QED
      BY <3>1, <3>2, <3>4
  <2>4. attempt' \in [Req -> {1, 2}] /\ pending' \subseteq Import /\ cancelled' \subseteq Import
    BY <1>9 DEF Send, Ensure, Probing, remote, TypeOK, remote
  <2>5. outcome' \in [Req -> {"none", "answered", "failed", "refused"}]
    BY <1>9 DEF Send, Ensure, Probing, remote, TypeOK, remote
  <2>6. via' \in [Req -> [{1, 2} -> Nat]] /\ page' \in [Req -> [{1, 2} -> States]]
    BY <1>9 DEF Send, Ensure, Probing, remote, TypeOK, States, remote
  <2>7. replies' \subseteq Req \X {1, 2} /\ runs' \in [Req -> Nat]
    BY <1>9 DEF Send, Ensure, Probing, remote, TypeOK, remote
  <2>8. QED
    BY <2>1, <2>2, <2>3, <2>4, <2>5, <2>6, <2>7 DEF TypeOK
<1>10. ASSUME NEW c \in Req, Recover(c) PROVE TypeOK'
  <2> USE DEF Inv
  <2>1. phase' \in [Req -> Phases]
    BY <1>10, PhaseForms DEF Recover, Probing, remote, TypeOK
  <2>2. /\ document' \in BOOLEAN /\ answered' \in BOOLEAN /\ creating' \in {"none", "probing", "absent"}
        /\ registering' \in {"none", "document", "documented", "broken", "asking", "waiting"}
    BY <1>10 DEF Recover, Probing, remote, TypeOK, remote
  <2>3. offers' \in Nat /\ current' \in Nat /\ ports' \in Nat /\ faults' \in Nat
    <3>1. offers' \in Nat /\ ports' \in Nat
      BY <1>10 DEF Recover, Probing, remote, TypeOK, remote
    <3>2. current' \in Nat
      BY <1>10 DEF Recover, Probing, remote, TypeOK, remote
    <3>3. faults' = faults \/ faults' = faults + 1
      BY <1>10, Zenon DEF Recover, Probing, remote, remote
    <3>4. faults' \in Nat
      BY <3>3 DEF TypeOK
    <3>5. QED
      BY <3>1, <3>2, <3>4
  <2>4. attempt' \in [Req -> {1, 2}] /\ pending' \subseteq Import /\ cancelled' \subseteq Import
    BY <1>10 DEF Recover, Probing, remote, TypeOK, remote
  <2>5. outcome' \in [Req -> {"none", "answered", "failed", "refused"}]
    BY <1>10 DEF Recover, Probing, remote, TypeOK, remote
  <2>6. via' \in [Req -> [{1, 2} -> Nat]] /\ page' \in [Req -> [{1, 2} -> States]]
    BY <1>10 DEF Recover, Probing, remote, TypeOK, States, remote
  <2>7. replies' \subseteq Req \X {1, 2} /\ runs' \in [Req -> Nat]
    BY <1>10 DEF Recover, Probing, remote, TypeOK, remote
  <2>8. QED
    BY <2>1, <2>2, <2>3, <2>4, <2>5, <2>6, <2>7 DEF TypeOK
<1>11. ASSUME NEW c \in Req, Prepared(c) PROVE TypeOK'
  <2> USE DEF Inv
  <2>1. phase' \in [Req -> Phases]
    BY <1>11, PhaseForms DEF Prepared, Ensure, Probing, remote, TypeOK
  <2>2. /\ document' \in BOOLEAN /\ answered' \in BOOLEAN /\ creating' \in {"none", "probing", "absent"}
        /\ registering' \in {"none", "document", "documented", "broken", "asking", "waiting"}
    BY <1>11 DEF Prepared, Ensure, Probing, remote, TypeOK, remote
  <2>3. offers' \in Nat /\ current' \in Nat /\ ports' \in Nat /\ faults' \in Nat
    <3>1. offers' \in Nat /\ ports' \in Nat
      BY <1>11 DEF Prepared, Ensure, Probing, remote, TypeOK, remote
    <3>2. current' \in Nat
      BY <1>11 DEF Prepared, Ensure, Probing, remote, TypeOK, remote
    <3>3. faults' = faults \/ faults' = faults + 1
      BY <1>11, Zenon DEF Prepared, Ensure, Probing, remote, remote
    <3>4. faults' \in Nat
      BY <3>3 DEF TypeOK
    <3>5. QED
      BY <3>1, <3>2, <3>4
  <2>4. attempt' \in [Req -> {1, 2}] /\ pending' \subseteq Import /\ cancelled' \subseteq Import
    BY <1>11 DEF Prepared, Ensure, Probing, remote, TypeOK, remote
  <2>5. outcome' \in [Req -> {"none", "answered", "failed", "refused"}]
    BY <1>11 DEF Prepared, Ensure, Probing, remote, TypeOK, remote
  <2>6. via' \in [Req -> [{1, 2} -> Nat]] /\ page' \in [Req -> [{1, 2} -> States]]
    BY <1>11 DEF Prepared, Ensure, Probing, remote, TypeOK, States, remote
  <2>7. replies' \subseteq Req \X {1, 2} /\ runs' \in [Req -> Nat]
    BY <1>11 DEF Prepared, Ensure, Probing, remote, TypeOK, remote
  <2>8. QED
    BY <2>1, <2>2, <2>3, <2>4, <2>5, <2>6, <2>7 DEF TypeOK
<1>12. ASSUME NEW c \in Req, Dispatch(c) PROVE TypeOK'
  <2> USE DEF Inv
  <2>1. phase' \in [Req -> Phases]
    <3>1. ASSUME NEW ph \in [Req -> Phases], NEW s \in Phases, phase' = [ph EXCEPT ![c] = s]
          PROVE  phase' \in [Req -> Phases]
      BY <3>1
    <3>2. phase \in [Req -> Phases] /\ Abandoned(phase, current) \in [Req -> Phases] /\ {"sent", "failed", "done"} \subseteq Phases
      BY PhaseForms DEF TypeOK
    <3>3. \E ph \in {phase, Abandoned(phase, current)}, s \in {"sent", "failed", "done"} : phase' = [ph EXCEPT ![c] = s]
      BY <1>12, Zenon DEF Dispatch, Settle
    <3>4. QED
      BY <3>1, <3>2, <3>3
  <2>2. /\ document' \in BOOLEAN /\ answered' \in BOOLEAN /\ creating' \in {"none", "probing", "absent"}
        /\ registering' \in {"none", "document", "documented", "broken", "asking", "waiting"}
    BY <1>12 DEF Dispatch, Posted, Fault, Settle, Withdrawn, TypeOK, remote
  <2>3. offers' \in Nat /\ current' \in Nat /\ ports' \in Nat /\ faults' \in Nat
    <3>1. offers' \in Nat /\ ports' \in Nat
      BY <1>12 DEF Dispatch, Posted, Fault, Settle, Withdrawn, TypeOK, remote
    <3>2. current' \in Nat
      BY <1>12 DEF Dispatch, Posted, Fault, Settle, Withdrawn, TypeOK, remote
    <3>3. faults' = faults \/ faults' = faults + 1
      BY <1>12, Zenon DEF Dispatch, Posted, Fault, Settle, Withdrawn, remote
    <3>4. faults' \in Nat
      BY <3>3 DEF TypeOK
    <3>5. QED
      BY <3>1, <3>2, <3>4
  <2>4. attempt' \in [Req -> {1, 2}] /\ pending' \subseteq Import /\ cancelled' \subseteq Import
    BY <1>12 DEF Dispatch, Posted, Fault, Settle, Withdrawn, TypeOK, remote
  <2>5. outcome' \in [Req -> {"none", "answered", "failed", "refused"}]
    BY <1>12 DEF Dispatch, Posted, Fault, Settle, Withdrawn, TypeOK, remote
  <2>6. via' \in [Req -> [{1, 2} -> Nat]] /\ page' \in [Req -> [{1, 2} -> States]]
    <3>1. via' \in [Req -> [{1, 2} -> Nat]]
      <4>1. CASE via' = [via EXCEPT ![c][attempt[c]] = current]
        BY <4>1 DEF TypeOK
      <4>2. CASE via' = via
        BY <4>2 DEF TypeOK
      <4>3. QED
        BY <1>12, <4>1, <4>2 DEF Dispatch
    <3>2. page' \in [Req -> [{1, 2} -> States]]
      <4>1. ASSUME NEW s \in States, page' = [page EXCEPT ![c][attempt[c]] = s]
            PROVE  page' \in [Req -> [{1, 2} -> States]]
        BY <4>1 DEF TypeOK
      <4>2. CASE page' = page
        BY <4>2 DEF TypeOK
      <4>3. QED
        BY <1>12, <4>1, <4>2 DEF Dispatch, Posted, States
    <3>3. QED
      BY <3>1, <3>2
  <2>7. replies' \subseteq Req \X {1, 2} /\ runs' \in [Req -> Nat]
    BY <1>12 DEF Dispatch, Posted, Fault, Settle, Withdrawn, TypeOK, remote
  <2>8. QED
    BY <2>1, <2>2, <2>3, <2>4, <2>5, <2>6, <2>7 DEF TypeOK
<1>13. ASSUME NEW c \in Req, Undispatched(c) PROVE TypeOK'
  <2> USE DEF Inv
  <2>1. phase' \in [Req -> Phases]
    BY <1>13, PhaseForms DEF Undispatched, Settle, link, remote, TypeOK
  <2>2. /\ document' \in BOOLEAN /\ answered' \in BOOLEAN /\ creating' \in {"none", "probing", "absent"}
        /\ registering' \in {"none", "document", "documented", "broken", "asking", "waiting"}
    BY <1>13 DEF Undispatched, Settle, link, remote, TypeOK, remote
  <2>3. offers' \in Nat /\ current' \in Nat /\ ports' \in Nat /\ faults' \in Nat
    <3>1. offers' \in Nat /\ ports' \in Nat
      BY <1>13 DEF Undispatched, Settle, link, remote, TypeOK, remote
    <3>2. current' \in Nat
      BY <1>13 DEF Undispatched, Settle, link, remote, TypeOK, remote
    <3>3. faults' = faults \/ faults' = faults + 1
      BY <1>13, Zenon DEF Undispatched, Settle, link, remote, remote
    <3>4. faults' \in Nat
      BY <3>3 DEF TypeOK
    <3>5. QED
      BY <3>1, <3>2, <3>4
  <2>4. attempt' \in [Req -> {1, 2}] /\ pending' \subseteq Import /\ cancelled' \subseteq Import
    BY <1>13 DEF Undispatched, Settle, link, remote, TypeOK, remote
  <2>5. outcome' \in [Req -> {"none", "answered", "failed", "refused"}]
    BY <1>13 DEF Undispatched, Settle, link, remote, TypeOK, remote
  <2>6. via' \in [Req -> [{1, 2} -> Nat]] /\ page' \in [Req -> [{1, 2} -> States]]
    BY <1>13 DEF Undispatched, Settle, link, remote, TypeOK, States, remote
  <2>7. replies' \subseteq Req \X {1, 2} /\ runs' \in [Req -> Nat]
    BY <1>13 DEF Undispatched, Settle, link, remote, TypeOK, remote
  <2>8. QED
    BY <2>1, <2>2, <2>3, <2>4, <2>5, <2>6, <2>7 DEF TypeOK
<1>14. ASSUME NEW c \in Req, AttemptFails(c) PROVE TypeOK'
  <2> USE DEF Inv
  <2>1. phase' \in [Req -> Phases]
    BY <1>14, PhaseForms DEF AttemptFails, Ensure, Probing, Settle, LastError, Attempts, remote, TypeOK
  <2>2. /\ document' \in BOOLEAN /\ answered' \in BOOLEAN /\ creating' \in {"none", "probing", "absent"}
        /\ registering' \in {"none", "document", "documented", "broken", "asking", "waiting"}
    BY <1>14 DEF AttemptFails, Ensure, Probing, Settle, LastError, Attempts, remote, TypeOK, remote
  <2>3. offers' \in Nat /\ current' \in Nat /\ ports' \in Nat /\ faults' \in Nat
    <3>1. offers' \in Nat /\ ports' \in Nat
      BY <1>14 DEF AttemptFails, Ensure, Probing, Settle, LastError, Attempts, remote, TypeOK, remote
    <3>2. current' \in Nat
      BY <1>14 DEF AttemptFails, Ensure, Probing, Settle, LastError, Attempts, remote, TypeOK, remote
    <3>3. faults' = faults \/ faults' = faults + 1
      BY <1>14, Zenon DEF AttemptFails, Ensure, Probing, Settle, LastError, Attempts, remote, remote
    <3>4. faults' \in Nat
      BY <3>3 DEF TypeOK
    <3>5. QED
      BY <3>1, <3>2, <3>4
  <2>4. attempt' \in [Req -> {1, 2}] /\ pending' \subseteq Import /\ cancelled' \subseteq Import
    BY <1>14 DEF AttemptFails, Ensure, Probing, Settle, LastError, Attempts, remote, TypeOK, remote
  <2>5. outcome' \in [Req -> {"none", "answered", "failed", "refused"}]
    BY <1>14 DEF AttemptFails, Ensure, Probing, Settle, LastError, Attempts, remote, TypeOK, remote
  <2>6. via' \in [Req -> [{1, 2} -> Nat]] /\ page' \in [Req -> [{1, 2} -> States]]
    BY <1>14
       DEF AttemptFails, Ensure, Probing, Settle, LastError, Attempts, remote, TypeOK, States, remote
  <2>7. replies' \subseteq Req \X {1, 2} /\ runs' \in [Req -> Nat]
    BY <1>14 DEF AttemptFails, Ensure, Probing, Settle, LastError, Attempts, remote, TypeOK, remote
  <2>8. QED
    BY <2>1, <2>2, <2>3, <2>4, <2>5, <2>6, <2>7 DEF TypeOK
<1>15. ASSUME NEW c \in Req, Timeout(c) PROVE TypeOK'
  <2> USE DEF Inv
  <2>1. phase' \in [Req -> Phases]
    BY <1>15, PhaseForms DEF Timeout, remote, TypeOK
  <2>2. /\ document' \in BOOLEAN /\ answered' \in BOOLEAN /\ creating' \in {"none", "probing", "absent"}
        /\ registering' \in {"none", "document", "documented", "broken", "asking", "waiting"}
    BY <1>15 DEF Timeout, remote, TypeOK, remote
  <2>3. offers' \in Nat /\ current' \in Nat /\ ports' \in Nat /\ faults' \in Nat
    <3>1. offers' \in Nat /\ ports' \in Nat
      BY <1>15 DEF Timeout, remote, TypeOK, remote
    <3>2. current' \in Nat
      BY <1>15 DEF Timeout, remote, TypeOK, remote
    <3>3. faults' = faults \/ faults' = faults + 1
      BY <1>15, Zenon DEF Timeout, remote, remote
    <3>4. faults' \in Nat
      BY <3>3 DEF TypeOK
    <3>5. QED
      BY <3>1, <3>2, <3>4
  <2>4. attempt' \in [Req -> {1, 2}] /\ pending' \subseteq Import /\ cancelled' \subseteq Import
    BY <1>15 DEF Timeout, remote, TypeOK, remote
  <2>5. outcome' \in [Req -> {"none", "answered", "failed", "refused"}]
    BY <1>15 DEF Timeout, remote, TypeOK, remote
  <2>6. via' \in [Req -> [{1, 2} -> Nat]] /\ page' \in [Req -> [{1, 2} -> States]]
    BY <1>15 DEF Timeout, remote, TypeOK, States, remote
  <2>7. replies' \subseteq Req \X {1, 2} /\ runs' \in [Req -> Nat]
    BY <1>15 DEF Timeout, remote, TypeOK, remote
  <2>8. QED
    BY <2>1, <2>2, <2>3, <2>4, <2>5, <2>6, <2>7 DEF TypeOK
<1>16. ASSUME NEW c \in Req, NEW n \in {1, 2}, Run(c, n) PROVE TypeOK'
  <2> USE DEF Inv
  <2>1. phase' \in [Req -> Phases]
    BY <1>16, PhaseForms DEF Run, link, calls, TypeOK
  <2>2. /\ document' \in BOOLEAN /\ answered' \in BOOLEAN /\ creating' \in {"none", "probing", "absent"}
        /\ registering' \in {"none", "document", "documented", "broken", "asking", "waiting"}
    BY <1>16 DEF Run, link, calls, TypeOK, remote
  <2>3. offers' \in Nat /\ current' \in Nat /\ ports' \in Nat /\ faults' \in Nat
    <3>1. offers' \in Nat /\ ports' \in Nat
      BY <1>16 DEF Run, link, calls, TypeOK, remote
    <3>2. current' \in Nat
      BY <1>16 DEF Run, link, calls, TypeOK, remote
    <3>3. faults' = faults \/ faults' = faults + 1
      BY <1>16, Zenon DEF Run, link, calls, remote
    <3>4. faults' \in Nat
      BY <3>3 DEF TypeOK
    <3>5. QED
      BY <3>1, <3>2, <3>4
  <2>4. attempt' \in [Req -> {1, 2}] /\ pending' \subseteq Import /\ cancelled' \subseteq Import
    BY <1>16 DEF Run, link, calls, TypeOK, remote
  <2>5. outcome' \in [Req -> {"none", "answered", "failed", "refused"}]
    BY <1>16 DEF Run, link, calls, TypeOK, remote
  <2>6. via' \in [Req -> [{1, 2} -> Nat]] /\ page' \in [Req -> [{1, 2} -> States]]
    BY <1>16 DEF Run, link, calls, TypeOK, States, remote
  <2>7. replies' \subseteq Req \X {1, 2} /\ runs' \in [Req -> Nat]
    BY <1>16 DEF Run, link, calls, TypeOK, remote
  <2>8. QED
    BY <2>1, <2>2, <2>3, <2>4, <2>5, <2>6, <2>7 DEF TypeOK
<1>17. ASSUME NEW c \in Req, NEW n \in {1, 2}, Answer(c, n) PROVE TypeOK'
  <2> USE DEF Inv
  <2>1. phase' \in [Req -> Phases]
    BY <1>17, PhaseForms DEF Answer, link, calls, TypeOK
  <2>2. /\ document' \in BOOLEAN /\ answered' \in BOOLEAN /\ creating' \in {"none", "probing", "absent"}
        /\ registering' \in {"none", "document", "documented", "broken", "asking", "waiting"}
    BY <1>17 DEF Answer, link, calls, TypeOK, remote
  <2>3. offers' \in Nat /\ current' \in Nat /\ ports' \in Nat /\ faults' \in Nat
    <3>1. offers' \in Nat /\ ports' \in Nat
      BY <1>17 DEF Answer, link, calls, TypeOK, remote
    <3>2. current' \in Nat
      BY <1>17 DEF Answer, link, calls, TypeOK, remote
    <3>3. faults' = faults \/ faults' = faults + 1
      BY <1>17, Zenon DEF Answer, link, calls, remote
    <3>4. faults' \in Nat
      BY <3>3 DEF TypeOK
    <3>5. QED
      BY <3>1, <3>2, <3>4
  <2>4. attempt' \in [Req -> {1, 2}] /\ pending' \subseteq Import /\ cancelled' \subseteq Import
    BY <1>17 DEF Answer, link, calls, TypeOK, remote
  <2>5. outcome' \in [Req -> {"none", "answered", "failed", "refused"}]
    BY <1>17 DEF Answer, link, calls, TypeOK, remote
  <2>6. via' \in [Req -> [{1, 2} -> Nat]] /\ page' \in [Req -> [{1, 2} -> States]]
    BY <1>17 DEF Answer, link, calls, TypeOK, States, remote
  <2>7. replies' \subseteq Req \X {1, 2} /\ runs' \in [Req -> Nat]
    BY <1>17 DEF Answer, link, calls, TypeOK, remote
  <2>8. QED
    BY <2>1, <2>2, <2>3, <2>4, <2>5, <2>6, <2>7 DEF TypeOK
<1>18. ASSUME NEW c \in Req, NEW n \in {1, 2}, Receive(c, n) PROVE TypeOK'
  <2> USE DEF Inv
  <2>1. phase' \in [Req -> Phases]
    BY <1>18, PhaseForms DEF Receive, Settle, TypeOK
  <2>2. /\ document' \in BOOLEAN /\ answered' \in BOOLEAN /\ creating' \in {"none", "probing", "absent"}
        /\ registering' \in {"none", "document", "documented", "broken", "asking", "waiting"}
    BY <1>18 DEF Receive, Settle, TypeOK, remote
  <2>3. offers' \in Nat /\ current' \in Nat /\ ports' \in Nat /\ faults' \in Nat
    <3>1. offers' \in Nat /\ ports' \in Nat
      BY <1>18 DEF Receive, Settle, TypeOK, remote
    <3>2. current' \in Nat
      BY <1>18 DEF Receive, Settle, TypeOK, remote
    <3>3. faults' = faults \/ faults' = faults + 1
      BY <1>18, Zenon DEF Receive, Settle, remote
    <3>4. faults' \in Nat
      BY <3>3 DEF TypeOK
    <3>5. QED
      BY <3>1, <3>2, <3>4
  <2>4. attempt' \in [Req -> {1, 2}] /\ pending' \subseteq Import /\ cancelled' \subseteq Import
    BY <1>18 DEF Receive, Settle, TypeOK, remote
  <2>5. outcome' \in [Req -> {"none", "answered", "failed", "refused"}]
    BY <1>18 DEF Receive, Settle, TypeOK, remote
  <2>6. via' \in [Req -> [{1, 2} -> Nat]] /\ page' \in [Req -> [{1, 2} -> States]]
    BY <1>18 DEF Receive, Settle, TypeOK, States, remote
  <2>7. replies' \subseteq Req \X {1, 2} /\ runs' \in [Req -> Nat]
    BY <1>18 DEF Receive, Settle, TypeOK, remote
  <2>8. QED
    BY <2>1, <2>2, <2>3, <2>4, <2>5, <2>6, <2>7 DEF TypeOK
<1>19. ASSUME NEW c \in Req, NEW n \in {1, 2}, MessageError(c, n) PROVE TypeOK'
  <2> USE DEF Inv
  <2>1. phase' \in [Req -> Phases]
    BY <1>19, PhaseForms DEF MessageError, Fault, TypeOK
  <2>2. /\ document' \in BOOLEAN /\ answered' \in BOOLEAN /\ creating' \in {"none", "probing", "absent"}
        /\ registering' \in {"none", "document", "documented", "broken", "asking", "waiting"}
    BY <1>19 DEF MessageError, Fault, TypeOK, remote
  <2>3. offers' \in Nat /\ current' \in Nat /\ ports' \in Nat /\ faults' \in Nat
    <3>1. offers' \in Nat /\ ports' \in Nat
      BY <1>19 DEF MessageError, Fault, TypeOK, remote
    <3>2. current' \in Nat
      BY <1>19 DEF MessageError, Fault, TypeOK, remote
    <3>3. faults' = faults \/ faults' = faults + 1
      BY <1>19, Zenon DEF MessageError, Fault, remote
    <3>4. faults' \in Nat
      BY <3>3 DEF TypeOK
    <3>5. QED
      BY <3>1, <3>2, <3>4
  <2>4. attempt' \in [Req -> {1, 2}] /\ pending' \subseteq Import /\ cancelled' \subseteq Import
    BY <1>19 DEF MessageError, Fault, TypeOK, remote
  <2>5. outcome' \in [Req -> {"none", "answered", "failed", "refused"}]
    BY <1>19 DEF MessageError, Fault, TypeOK, remote
  <2>6. via' \in [Req -> [{1, 2} -> Nat]] /\ page' \in [Req -> [{1, 2} -> States]]
    BY <1>19 DEF MessageError, Fault, TypeOK, States, remote
  <2>7. replies' \subseteq Req \X {1, 2} /\ runs' \in [Req -> Nat]
    BY <1>19 DEF MessageError, Fault, TypeOK, remote
  <2>8. QED
    BY <2>1, <2>2, <2>3, <2>4, <2>5, <2>6, <2>7 DEF TypeOK
<1>20. CASE UNCHANGED vars
  BY <1>20 DEF vars, link, calls, remote, Inv, TypeOK
<1>21. QED
  BY <1>1, <1>2, <1>3, <1>4, <1>5, <1>6, <1>7, <1>8, <1>9, <1>10,
     <1>11, <1>12, <1>13, <1>14, <1>15, <1>16, <1>17, <1>18, <1>19, <1>20 DEF Next, Continue

\* Whoever waits for a port, or for the document, has somebody who brings it.
LEMMA WorkStep == Inv /\ [Next]_vars => SomebodyWorks'
<1> SUFFICES ASSUME Inv, [Next]_vars PROVE SomebodyWorks'
  OBVIOUS
<1>1. ASSUME Probe PROVE SomebodyWorks'
  BY <1>1 DEF Probe, CreatingEnds, Awaited, Abandoned, SomebodyWorks, Inv, TypeOK
<1>2. ASSUME Create PROVE SomebodyWorks'
  BY <1>2 DEF Create, CreatingEnds, Awaited, SomebodyWorks, Inv, TypeOK
<1>3. ASSUME Ask PROVE SomebodyWorks'
  BY <1>3 DEF Ask, RegistrationEnds, Resumed, SomebodyWorks, Inv, TypeOK
<1>4. ASSUME PortArrives PROVE SomebodyWorks'
  BY <1>4 DEF PortArrives, Abandoned, Resumed, SomebodyWorks, Inv, TypeOK
<1>5. ASSUME Asked PROVE SomebodyWorks'
  BY <1>5 DEF Asked, RegistrationEnds, Resumed, SomebodyWorks, Inv, TypeOK
<1>6. ASSUME PortTimeout PROVE SomebodyWorks'
  BY <1>6 DEF PortTimeout, RegistrationEnds, Resumed, SomebodyWorks, Inv, TypeOK
<1>7. ASSUME Message PROVE SomebodyWorks'
  BY <1>7 DEF Message, Probing, calls, SomebodyWorks, Inv, TypeOK
<1>8. ASSUME DocumentLost PROVE SomebodyWorks'
  BY <1>8 DEF DocumentLost, calls, SomebodyWorks, Inv, TypeOK
<1>9. ASSUME NEW c \in Req, Send(c) PROVE SomebodyWorks'
  BY <1>9 DEF Send, Ensure, Probing, SomebodyWorks, Inv, TypeOK
<1>10. ASSUME NEW c \in Req, Recover(c) PROVE SomebodyWorks'
  BY <1>10 DEF Recover, Probing, SomebodyWorks, Inv, TypeOK
<1>11. ASSUME NEW c \in Req, Prepared(c) PROVE SomebodyWorks'
  BY <1>11 DEF Prepared, Ensure, Probing, SomebodyWorks, Inv, TypeOK
<1>12. ASSUME NEW c \in Req, Dispatch(c) PROVE SomebodyWorks'
  BY <1>12 DEF Dispatch, Settle, Abandoned, SomebodyWorks, Inv, TypeOK
<1>13. ASSUME NEW c \in Req, Undispatched(c) PROVE SomebodyWorks'
  BY <1>13 DEF Undispatched, Settle, link, SomebodyWorks, Inv, TypeOK
<1>14. ASSUME NEW c \in Req, AttemptFails(c) PROVE SomebodyWorks'
  BY <1>14 DEF AttemptFails, Ensure, Probing, Settle, SomebodyWorks, Inv, TypeOK
<1>15. ASSUME NEW c \in Req, Timeout(c) PROVE SomebodyWorks'
  BY <1>15 DEF Timeout, Abandoned, SomebodyWorks, Inv, TypeOK
<1>16. ASSUME NEW c \in Req, NEW n \in {1, 2}, Run(c, n) PROVE SomebodyWorks'
  BY <1>16 DEF Run, link, calls, SomebodyWorks, Inv, TypeOK
<1>17. ASSUME NEW c \in Req, NEW n \in {1, 2}, Answer(c, n) PROVE SomebodyWorks'
  BY <1>17 DEF Answer, link, calls, SomebodyWorks, Inv, TypeOK
<1>18. ASSUME NEW c \in Req, NEW n \in {1, 2}, Receive(c, n) PROVE SomebodyWorks'
  BY <1>18 DEF Receive, Settle, Abandoned, SomebodyWorks, Inv, TypeOK
<1>19. ASSUME NEW c \in Req, NEW n \in {1, 2}, MessageError(c, n) PROVE SomebodyWorks'
  BY <1>19 DEF MessageError, Abandoned, SomebodyWorks, Inv, TypeOK
<1>20. CASE UNCHANGED vars
  BY <1>20 DEF vars, link, calls, SomebodyWorks, Inv
<1>21. QED
  BY <1>1, <1>2, <1>3, <1>4, <1>5, <1>6, <1>7, <1>8, <1>9, <1>10,
     <1>11, <1>12, <1>13, <1>14, <1>15, <1>16, <1>17, <1>18, <1>19, <1>20 DEF Next, Continue

\* Every step keeps requests, attempts and the document in agreement.
LEMMA CallsStep == Inv /\ [Next]_vars => (\A r \in Req : Calls(r)' /\ Remote(r)')
<1> SUFFICES ASSUME Inv, [Next]_vars PROVE (\A r \in Req : Calls(r)' /\ Remote(r)')
  OBVIOUS
<1>1. ASSUME Probe PROVE (\A r \in Req : Calls(r)' /\ Remote(r)')
  <2> SUFFICES ASSUME NEW r \in Req PROVE Calls(r)' /\ Remote(r)'
    OBVIOUS
  <2>1. Calls(r) /\ Remote(r) /\ TypeOK
    BY DEF Inv
  <2>2. UNCHANGED <<attempt, pending, cancelled, via, page, runs>> /\ replies' \subseteq replies
    BY <1>1 DEF Probe, remote
  <2>3. Moves(r)
    <3>1. CASE phase' = Abandoned(phase, current)
      BY <3>1, AbandonedMoves
    <3>2. CASE (phase' = Awaited(phase, TRUE) \/ phase' = Awaited(phase, FALSE)) /\ current' = current
      BY <2>1, <3>2 DEF Awaited, Moves, Waiting, TypeOK
    <3>3. QED
      BY <1>1, <3>1, <3>2, Zenon DEF Probe, CreatingEnds
  <2>4. QED
    BY <2>2, <2>3, MovesKeep
<1>2. ASSUME Create PROVE (\A r \in Req : Calls(r)' /\ Remote(r)')
  <2> SUFFICES ASSUME NEW r \in Req PROVE Calls(r)' /\ Remote(r)'
    OBVIOUS
  <2>1. Calls(r) /\ Remote(r) /\ TypeOK
    BY DEF Inv
  <2>2. UNCHANGED <<attempt, pending, cancelled, via, page, runs>> /\ replies' \subseteq replies
    BY <1>2 DEF Create, remote
  <2>3. Moves(r)
    <3>1. /\ phase' = phase \/ phase' = Awaited(phase, TRUE) \/ phase' = Awaited(phase, FALSE)
          /\ current' = current
      BY <1>2, Zenon DEF Create, CreatingEnds
    <3>2. QED
      BY <2>1, <3>1 DEF Awaited, Moves, Waiting, TypeOK
  <2>4. QED
    BY <2>2, <2>3, MovesKeep
<1>3. ASSUME Ask PROVE (\A r \in Req : Calls(r)' /\ Remote(r)')
  <2> SUFFICES ASSUME NEW r \in Req PROVE Calls(r)' /\ Remote(r)'
    OBVIOUS
  <2>1. Calls(r) /\ Remote(r) /\ TypeOK
    BY DEF Inv
  <2>2. UNCHANGED <<attempt, pending, cancelled, via, page, runs>> /\ replies' \subseteq replies
    BY <1>3 DEF Ask, remote
  <2>3. Moves(r)
    <3>1. /\ phase' = phase \/ phase' = Resumed(phase, TRUE) \/ phase' = Resumed(phase, FALSE)
          /\ current' = current
      BY <1>3, Zenon DEF Ask, RegistrationEnds
    <3>2. QED
      BY <2>1, <3>1 DEF Resumed, Moves, Waiting, TypeOK
  <2>4. QED
    BY <2>2, <2>3, MovesKeep
<1>4. ASSUME PortArrives PROVE (\A r \in Req : Calls(r)' /\ Remote(r)')
  <2> SUFFICES ASSUME NEW r \in Req PROVE Calls(r)' /\ Remote(r)'
    OBVIOUS
  <2>1. Calls(r) /\ Remote(r) /\ TypeOK
    BY DEF Inv
  <2>2. UNCHANGED <<attempt, pending, cancelled, via, page, runs>> /\ replies' \subseteq replies
    BY <1>4 DEF PortArrives, remote
  <2>3. Moves(r)
    BY <1>4, <2>1 DEF PortArrives, Abandoned, Resumed, Moves, Waiting, TypeOK, Calls
  <2>4. QED
    BY <2>2, <2>3, MovesKeep
<1>5. ASSUME Asked PROVE (\A r \in Req : Calls(r)' /\ Remote(r)')
  <2> SUFFICES ASSUME NEW r \in Req PROVE Calls(r)' /\ Remote(r)'
    OBVIOUS
  <2>1. Calls(r) /\ Remote(r) /\ TypeOK
    BY DEF Inv
  <2>2. UNCHANGED <<attempt, pending, cancelled, via, page, runs>> /\ replies' \subseteq replies
    BY <1>5 DEF Asked, remote
  <2>3. Moves(r)
    <3>1. /\ phase' = phase \/ phase' = Resumed(phase, TRUE) \/ phase' = Resumed(phase, FALSE)
          /\ current' = current
      BY <1>5, Zenon DEF Asked, RegistrationEnds
    <3>2. QED
      BY <2>1, <3>1 DEF Resumed, Moves, Waiting, TypeOK
  <2>4. QED
    BY <2>2, <2>3, MovesKeep
<1>6. ASSUME PortTimeout PROVE (\A r \in Req : Calls(r)' /\ Remote(r)')
  <2> SUFFICES ASSUME NEW r \in Req PROVE Calls(r)' /\ Remote(r)'
    OBVIOUS
  <2>1. Calls(r) /\ Remote(r) /\ TypeOK
    BY DEF Inv
  <2>2. UNCHANGED <<attempt, pending, cancelled, via, page, runs>> /\ replies' \subseteq replies
    BY <1>6 DEF PortTimeout, remote
  <2>3. Moves(r)
    BY <1>6, <2>1 DEF PortTimeout, RegistrationEnds, Resumed, Moves, Waiting, TypeOK, Calls
  <2>4. QED
    BY <2>2, <2>3, MovesKeep
<1>7. ASSUME Message PROVE (\A r \in Req : Calls(r)' /\ Remote(r)')
  <2> SUFFICES ASSUME NEW r \in Req PROVE Calls(r)' /\ Remote(r)'
    OBVIOUS
  <2>1. Calls(r) /\ Remote(r) /\ TypeOK
    BY DEF Inv
  <2>2. UNCHANGED <<calls, current, via, remote>>
    BY <1>7 DEF Message
  <2>3. r \in cancelled' => r \in cancelled \/ r \in pending
    BY <1>7 DEF Message
  <2>4. QED
    BY <2>1, <2>2, <2>3 DEF Calls, Remote, Via, Handed, One, calls, remote
<1>8. ASSUME DocumentLost PROVE (\A r \in Req : Calls(r)' /\ Remote(r)')
  <2> SUFFICES ASSUME NEW r \in Req PROVE Calls(r)' /\ Remote(r)'
    OBVIOUS
  <2>1. Calls(r) /\ Remote(r) /\ TypeOK
    BY DEF Inv
  <2>2. UNCHANGED <<calls, current, cancelled, via, replies, runs>>
    BY <1>8 DEF DocumentLost
  <2>3. \A n \in {1, 2} : page'[r][n] = IF page[r][n] \in {"posted", "running"} THEN "lost" ELSE page[r][n]
    BY <1>8 DEF DocumentLost
  <2>4. attempt[r] \in {1, 2} /\ \A n \in {1, 2} : page[r][n] \in States
    BY <2>1 DEF TypeOK
  <2>5. Calls(r)'
    BY <2>1, <2>2, <2>3, <2>4 DEF Calls, Via, calls
  <2>6. Handed(r)' = Handed(r) /\ One(r, 1, {"posted"})' = 0 /\ One(r, 2, {"posted"})' = 0
    BY <2>3, <2>4 DEF Handed, One, States
  <2>7. One(r, 1, {"posted"}) \in Nat /\ One(r, 2, {"posted"}) \in Nat /\ runs[r] \in Nat /\ Handed(r) \in Nat
    BY <2>1 DEF One, Handed, TypeOK
  <2>8. \A n \in {1, 2} :
         /\ via'[r][n] = 0 <=> page'[r][n] = "none"
         /\ page'[r][n] \in {"running", "ended"} => runs'[r] > 0
         /\ <<r, n>> \in replies' => page'[r][n] = "ended"
    BY <2>1, <2>2, <2>3 DEF Remote
  <2>9. runs'[r] + One(r, 1, {"posted"})' + One(r, 2, {"posted"})' <= Handed(r)'
    BY <2>1, <2>2, <2>6, <2>7 DEF Remote
  <2>10. QED
    BY <2>5, <2>8, <2>9 DEF Remote
<1>9. ASSUME NEW c \in Req, Send(c) PROVE (\A r \in Req : Calls(r)' /\ Remote(r)')
  <2> SUFFICES ASSUME NEW r \in Req PROVE Calls(r)' /\ Remote(r)'
    OBVIOUS
  <2>1. Calls(r) /\ Remote(r) /\ TypeOK
    BY DEF Inv
  <2>2. UNCHANGED <<current, cancelled, via, remote>>
    BY <1>9 DEF Send, link
  <2>3. Remote(r)'
    BY <2>1, <2>2 DEF Remote, Handed, One, remote
  <2>4. CASE r # c
    <3>1. phase'[r] = phase[r] /\ attempt'[r] = attempt[r] /\ (r \in pending' <=> r \in pending)
      BY <1>9, <2>1, <2>4 DEF Send, Ensure, TypeOK
    <3>2. QED
      BY <2>1, <2>2, <2>3, <3>1 DEF Calls, Via, remote
  <2>5. CASE r = c
    <3>1. Calls(r)'
      BY <1>9, <2>1, <2>2, <2>5 DEF Send, Ensure, Calls, Remote, Via, Waiting, TypeOK, remote
    <3>2. QED
      BY <2>3, <3>1
  <2>6. QED
    BY <2>4, <2>5
<1>10. ASSUME NEW c \in Req, Recover(c) PROVE (\A r \in Req : Calls(r)' /\ Remote(r)')
  <2> SUFFICES ASSUME NEW r \in Req PROVE Calls(r)' /\ Remote(r)'
    OBVIOUS
  <2>1. Calls(r) /\ Remote(r) /\ TypeOK
    BY DEF Inv
  <2>2. UNCHANGED <<attempt, pending, cancelled, via, page, runs>> /\ replies' \subseteq replies
    BY <1>10 DEF Recover, remote
  <2>3. Moves(r)
    BY <1>10, <2>1 DEF Recover, Waiting, Moves, Waiting, TypeOK, Calls
  <2>4. QED
    BY <2>2, <2>3, MovesKeep
<1>11. ASSUME NEW c \in Req, Prepared(c) PROVE (\A r \in Req : Calls(r)' /\ Remote(r)')
  <2> SUFFICES ASSUME NEW r \in Req PROVE Calls(r)' /\ Remote(r)'
    OBVIOUS
  <2>1. Calls(r) /\ Remote(r) /\ TypeOK
    BY DEF Inv
  <2>2. UNCHANGED <<attempt, pending, cancelled, via, page, runs>> /\ replies' \subseteq replies
    BY <1>11 DEF Prepared, remote
  <2>3. Moves(r)
    BY <1>11, <2>1 DEF Prepared, Ensure, Moves, Waiting, TypeOK, Calls
  <2>4. QED
    BY <2>2, <2>3, MovesKeep
<1>12. ASSUME NEW c \in Req, Dispatch(c) PROVE (\A r \in Req : Calls(r)' /\ Remote(r)')
  <2> SUFFICES ASSUME NEW r \in Req PROVE Calls(r)' /\ Remote(r)'
    OBVIOUS
  <2>1. Calls(r) /\ Remote(r) /\ TypeOK
    BY DEF Inv
  <2>2. UNCHANGED <<attempt, cancelled, replies, runs>> /\ phase[c] = "resume" /\ current # 0
    BY <1>12 DEF Dispatch
  <2>3. CASE /\ Posted(c) /\ via' = [via EXCEPT ![c][attempt[c]] = current]
             /\ phase' = [phase EXCEPT ![c] = "sent"] /\ UNCHANGED <<current, pending>>
    <3>1. CASE r # c
      <4>1. phase'[r] = phase[r] /\ page'[r] = page[r] /\ via'[r] = via[r]
        BY <2>1, <2>3, <3>1 DEF Posted, TypeOK
      <4>2. QED
        BY <2>1, <2>2, <2>3, <4>1 DEF Calls, Remote, Handed, One, Via
    <3>2. CASE r = c
      <4>1. PICK s \in {"posted", "lost"} : page'[r] = [page[r] EXCEPT ![attempt[r]] = s]
        BY <2>1, <2>3, <3>2 DEF Posted, TypeOK
      <4>2. phase'[r] = "sent" /\ via'[r] = [via[r] EXCEPT ![attempt[r]] = current]
        BY <2>1, <2>3, <3>2 DEF TypeOK
      <4>3. /\ page[r] \in [{1, 2} -> States] /\ via[r] \in [{1, 2} -> Nat] /\ runs[r] \in Nat /\ attempt[r] \in {1, 2}
            /\ page[r][attempt[r]] = "none"
        BY <2>1, <2>2, <3>2 DEF TypeOK, Calls
      <4>4. Calls(r)'
        BY <2>1, <2>2, <2>3, <3>2, <4>1, <4>2, <4>3 DEF Calls, Via, Waiting
      <4>5. \A m \in {1, 2} :
             /\ via'[r][m] = 0 <=> page'[r][m] = "none"
             /\ page'[r][m] \in {"running", "ended"} => runs'[r] > 0
             /\ <<r, m>> \in replies' => page'[r][m] = "ended"
        BY <2>1, <2>2, <4>1, <4>2, <4>3 DEF Remote
      <4>6. runs'[r] + One(r, 1, {"posted"})' + One(r, 2, {"posted"})' <= Handed(r)'
        BY <2>1, <2>2, <4>1, <4>3 DEF Remote, One, Handed, States
      <4>7. QED
        BY <4>4, <4>5, <4>6 DEF Remote
    <3>3. QED
      BY <3>1, <3>2
  <2>4. ASSUME UNCHANGED <<page, via>> PROVE Remote(r)'
    BY <2>1, <2>2, <2>4 DEF Remote, Handed, One
  <2>5. CASE phase' = [phase EXCEPT ![c] = "done"] /\ pending' = pending \ {c} /\ UNCHANGED <<page, via, current>>
    <3>1. Calls(r)'
      BY <2>1, <2>2, <2>5 DEF Calls, Via, Waiting, TypeOK
    <3>2. QED
      BY <2>4, <2>5, <3>1
  <2>6. ASSUME NEW s \in {"done", "failed"}, phase' = [Abandoned(phase, current) EXCEPT ![c] = s], UNCHANGED <<page, via>>,
               pending' = IF s = "done" THEN pending \ {c} ELSE pending, s = "done" => c \notin pending'
        PROVE  Calls(r)' /\ Remote(r)'
    <3>1. CASE r # c
      <4>1. phase'[r] = Abandoned(phase, current)[r] /\ (r \in pending' <=> r \in pending)
        BY <2>1, <2>6, <3>1 DEF Abandoned, TypeOK
      <4>2. Moves(r)
        BY <4>1, AbandonedMoves
      <4>3. phase[r] = "sent" => phase'[r] = "failed"
        BY <2>1, <4>1 DEF Abandoned, Calls
      <4>4. Calls(r)'
        BY <2>1, <2>2, <2>6, <4>1, <4>2, <4>3 DEF Calls, Moves, Waiting, Via
      <4>5. QED
        BY <2>4, <2>6, <4>4
    <3>2. CASE r = c
      <4>1. phase'[r] = s
        BY <2>6, <3>2 DEF Abandoned
      <4>2. Calls(r)'
        BY <2>1, <2>2, <2>6, <3>2, <4>1 DEF Calls, Waiting
      <4>3. QED
        BY <2>4, <2>6, <4>2
    <3>3. QED
      BY <3>1, <3>2
  <2>7. QED
    BY <1>12, <2>3, <2>5, <2>6, Zenon DEF Dispatch, Settle
<1>13. ASSUME NEW c \in Req, Undispatched(c) PROVE (\A r \in Req : Calls(r)' /\ Remote(r)')
  <2> SUFFICES ASSUME NEW r \in Req PROVE Calls(r)' /\ Remote(r)'
    OBVIOUS
  <2>1. Calls(r) /\ Remote(r) /\ TypeOK
    BY DEF Inv
  <2>2. UNCHANGED <<current, cancelled, via, remote>>
    BY <1>13 DEF Undispatched, link
  <2>3. Remote(r)'
    BY <2>1, <2>2 DEF Remote, Handed, One, remote
  <2>4. CASE r # c
    <3>1. phase'[r] = phase[r] /\ attempt'[r] = attempt[r] /\ (r \in pending' <=> r \in pending)
      BY <1>13, <2>1, <2>4 DEF Undispatched, Settle, link, TypeOK
    <3>2. QED
      BY <2>1, <2>2, <2>3, <3>1 DEF Calls, Via, remote
  <2>5. CASE r = c
    <3>1. Calls(r)'
      BY <1>13, <2>1, <2>2, <2>5
         DEF Undispatched, Settle, link, Calls, Remote, Via, Waiting, TypeOK, remote
    <3>2. QED
      BY <2>3, <3>1
  <2>6. QED
    BY <2>4, <2>5
<1>14. ASSUME NEW c \in Req, AttemptFails(c) PROVE (\A r \in Req : Calls(r)' /\ Remote(r)')
  <2> SUFFICES ASSUME NEW r \in Req PROVE Calls(r)' /\ Remote(r)'
    OBVIOUS
  <2>1. Calls(r) /\ Remote(r) /\ TypeOK
    BY DEF Inv
  <2>2. UNCHANGED <<current, cancelled, via, remote>>
    BY <1>14 DEF AttemptFails, link
  <2>3. Remote(r)'
    BY <2>1, <2>2 DEF Remote, Handed, One, remote
  <2>4. CASE r # c
    <3>1. phase'[r] = phase[r] /\ attempt'[r] = attempt[r] /\ (r \in pending' <=> r \in pending)
      BY <1>14, <2>1, <2>4 DEF AttemptFails, Ensure, Settle, Attempts, TypeOK
    <3>2. QED
      BY <2>1, <2>2, <2>3, <3>1 DEF Calls, Via, remote
  <2>5. CASE r = c
    <3>1. Calls(r)'
      BY <1>14, <2>1, <2>2, <2>5
         DEF AttemptFails, Ensure, Settle, Attempts, Calls, Remote, Via, Waiting, TypeOK, remote
    <3>2. QED
      BY <2>3, <3>1
  <2>6. QED
    BY <2>4, <2>5
<1>15. ASSUME NEW c \in Req, Timeout(c) PROVE (\A r \in Req : Calls(r)' /\ Remote(r)')
  <2> SUFFICES ASSUME NEW r \in Req PROVE Calls(r)' /\ Remote(r)'
    OBVIOUS
  <2>1. Calls(r) /\ Remote(r) /\ TypeOK
    BY DEF Inv
  <2>2. UNCHANGED <<attempt, pending, cancelled, via, page, runs>> /\ replies' \subseteq replies
    BY <1>15 DEF Timeout, remote
  <2>3. Moves(r)
    BY <1>15, <2>1 DEF Timeout, Abandoned, Moves, Waiting, TypeOK, Calls
  <2>4. QED
    BY <2>2, <2>3, MovesKeep
<1>16. ASSUME NEW c \in Req, NEW n \in {1, 2}, Run(c, n) PROVE (\A r \in Req : Calls(r)' /\ Remote(r)')
  <2> SUFFICES ASSUME NEW r \in Req PROVE Calls(r)' /\ Remote(r)'
    OBVIOUS
  <2>1. Calls(r) /\ Remote(r) /\ TypeOK
    BY DEF Inv
  <2>2. UNCHANGED <<link, calls, cancelled, via>>
    BY <1>16 DEF Run
  <2>3. CASE r # c
    <3>1. page'[r] = page[r] /\ runs'[r] = runs[r] /\ \A m \in {1, 2} : <<r, m>> \in replies' <=> <<r, m>> \in replies
      BY <1>16, <2>1, <2>3 DEF Run, TypeOK
    <3>2. QED
      BY <2>1, <2>2, <3>1 DEF Calls, Remote, Handed, One, Via, calls, link
  <2>4. CASE r = c
    <3>1. page'[r] = [page[r] EXCEPT ![n] = "running"] /\ page[r][n] = "posted"
      BY <1>16, <2>1, <2>4 DEF Run, TypeOK
    <3>2. page[r] \in [{1, 2} -> States] /\ runs[r] \in Nat /\ attempt[r] \in {1, 2}
      BY <2>1 DEF TypeOK
    <3>3. Calls(r)'
      BY <2>1, <2>2, <3>1, <3>2 DEF Calls, Via, calls, link
    <3>4. runs'[r] = runs[r] + 1
      BY <1>16, <2>1, <2>4 DEF Run, TypeOK
    <3>5. \A m \in {1, 2} : <<r, m>> \in replies' => <<r, m>> \in replies
      BY <1>16 DEF Run
    <3>6. \A m \in {1, 2} :
           /\ via'[r][m] = 0 <=> page'[r][m] = "none"
           /\ page'[r][m] \in {"running", "ended"} => runs'[r] > 0
           /\ <<r, m>> \in replies' => page'[r][m] = "ended"
      BY <2>1, <2>2, <3>1, <3>2, <3>4, <3>5 DEF Remote
    <3>7. runs'[r] + One(r, 1, {"posted"})' + One(r, 2, {"posted"})' <= Handed(r)'
      BY <2>1, <3>1, <3>2, <3>4 DEF Remote, One, Handed, States
    <3>8. QED
      BY <3>3, <3>6, <3>7 DEF Remote
  <2>5. QED
    BY <2>3, <2>4
<1>17. ASSUME NEW c \in Req, NEW n \in {1, 2}, Answer(c, n)
       PROVE  (\A r \in Req : Calls(r)' /\ Remote(r)')
  <2> SUFFICES ASSUME NEW r \in Req PROVE Calls(r)' /\ Remote(r)'
    OBVIOUS
  <2>1. Calls(r) /\ Remote(r) /\ TypeOK
    BY DEF Inv
  <2>2. UNCHANGED <<link, calls, cancelled, via>>
    BY <1>17 DEF Answer
  <2>3. CASE r # c
    <3>1. page'[r] = page[r] /\ runs'[r] = runs[r] /\ \A m \in {1, 2} : <<r, m>> \in replies' <=> <<r, m>> \in replies
      BY <1>17, <2>1, <2>3 DEF Answer, TypeOK
    <3>2. QED
      BY <2>1, <2>2, <3>1 DEF Calls, Remote, Handed, One, Via, calls, link
  <2>4. CASE r = c
    <3>1. page'[r] = [page[r] EXCEPT ![n] = "ended"] /\ page[r][n] = "running"
      BY <1>17, <2>1, <2>4 DEF Answer, TypeOK
    <3>2. page[r] \in [{1, 2} -> States] /\ runs[r] \in Nat /\ attempt[r] \in {1, 2}
      BY <2>1 DEF TypeOK
    <3>3. Calls(r)'
      BY <2>1, <2>2, <3>1, <3>2 DEF Calls, Via, calls, link
    <3>4. runs'[r] = runs[r]
      BY <1>17, <2>1, <2>4 DEF Answer, TypeOK
    <3>5. \A m \in {1, 2} : <<r, m>> \in replies' => <<r, m>> \in replies \/ m = n
      BY <1>17 DEF Answer
    <3>6. \A m \in {1, 2} :
           /\ via'[r][m] = 0 <=> page'[r][m] = "none"
           /\ page'[r][m] \in {"running", "ended"} => runs'[r] > 0
           /\ <<r, m>> \in replies' => page'[r][m] = "ended"
      BY <2>1, <2>2, <3>1, <3>2, <3>4, <3>5 DEF Remote
    <3>7. runs'[r] + One(r, 1, {"posted"})' + One(r, 2, {"posted"})' <= Handed(r)'
      BY <2>1, <3>1, <3>2, <3>4 DEF Remote, One, Handed, States
    <3>8. QED
      BY <3>3, <3>6, <3>7 DEF Remote
  <2>5. QED
    BY <2>3, <2>4
<1>18. ASSUME NEW c \in Req, NEW n \in {1, 2}, Receive(c, n)
       PROVE  (\A r \in Req : Calls(r)' /\ Remote(r)')
  <2> SUFFICES ASSUME NEW r \in Req PROVE Calls(r)' /\ Remote(r)'
    OBVIOUS
  <2>1. Calls(r) /\ Remote(r) /\ TypeOK
    BY DEF Inv
  <2>2. UNCHANGED <<attempt, cancelled, via, page, runs>> /\ replies' \subseteq replies
    BY <1>18 DEF Receive
  <2>3. Remote(r)'
    BY <2>1, <2>2 DEF Remote, Handed, One
  <2>4. CASE r = c /\ phase' = [phase EXCEPT ![c] = "done"] /\ pending' = pending \ {c} /\ phase[c] = "sent"
    <3>1. phase'[r] = "done" /\ r \notin pending'
      BY <2>1, <2>4 DEF TypeOK
    <3>2. QED
      BY <2>1, <2>2, <2>3, <2>4, <3>1 DEF Calls, Waiting
  <2>5. CASE /\ phase'[r] = phase[r] \/ phase'[r] = Abandoned(phase, current)[r]
             /\ phase'[r] = phase[r] => current' = current \/ phase[r] # "sent"
             /\ (r \in pending' <=> r \in pending)
    <3>1. Moves(r)
      BY <2>5, AbandonedMoves DEF Moves
    <3>2. Calls(r)'
      BY <2>1, <2>2, <2>5, <3>1 DEF Calls, Moves, Waiting, Via
    <3>3. QED
      BY <2>3, <3>2
  <2>6. phase' = Abandoned(phase, current) => (phase'[r] = phase[r] => phase[r] # "sent")
    BY <2>1 DEF Abandoned, Calls
  <2>7. QED
    BY <1>18, <2>1, <2>4, <2>5, <2>6 DEF Receive, Settle, TypeOK
<1>19. ASSUME NEW c \in Req, NEW n \in {1, 2}, MessageError(c, n)
       PROVE  (\A r \in Req : Calls(r)' /\ Remote(r)')
  <2> SUFFICES ASSUME NEW r \in Req PROVE Calls(r)' /\ Remote(r)'
    OBVIOUS
  <2>1. Calls(r) /\ Remote(r) /\ TypeOK
    BY DEF Inv
  <2>2. UNCHANGED <<attempt, pending, cancelled, via, page, runs>> /\ replies' \subseteq replies
    BY <1>19 DEF MessageError, remote
  <2>3. Moves(r)
    <3>1. CASE phase' = Abandoned(phase, current)
      BY <3>1, AbandonedMoves
    <3>2. CASE phase' = phase /\ current' = current
      BY <3>2 DEF Moves
    <3>3. QED
      BY <1>19, <3>1, <3>2 DEF MessageError
  <2>4. QED
    BY <2>2, <2>3, MovesKeep
<1>20. CASE UNCHANGED vars
  <2> SUFFICES ASSUME NEW r \in Req PROVE Calls(r)' /\ Remote(r)'
    OBVIOUS
  <2>1. Calls(r) /\ Remote(r)
    BY DEF Inv
  <2>2. QED
    BY <1>20, <2>1 DEF vars, link, calls, remote, Calls, Remote, Via, Handed, One
<1>21. QED
  BY <1>1, <1>2, <1>3, <1>4, <1>5, <1>6, <1>7, <1>8, <1>9, <1>10,
     <1>11, <1>12, <1>13, <1>14, <1>15, <1>16, <1>17, <1>18, <1>19, <1>20 DEF Next, Continue

LEMMA InitInv == Init => Inv
<1> SUFFICES ASSUME Init PROVE Inv
  OBVIOUS
<1>1. /\ document \in BOOLEAN /\ answered \in BOOLEAN /\ creating = "none" /\ registering = "none"
      /\ offers = 0 /\ current = 0 /\ ports = 0 /\ faults = 0 /\ pending = {} /\ cancelled = {} /\ replies = {}
  BY DEF Init
<1>2. phase \in [Req -> Phases] /\ attempt \in [Req -> {1, 2}] /\ outcome \in [Req -> {"none", "answered", "failed", "refused"}]
  BY DEF Init, Phases
<1>3. via \in [Req -> [{1, 2} -> Nat]] /\ page \in [Req -> [{1, 2} -> States]] /\ runs \in [Req -> Nat]
  BY DEF Init, States
<1>4. TypeOK
  BY <1>1, <1>2, <1>3 DEF TypeOK
<1>5. SomebodyWorks
  BY DEF Init, SomebodyWorks
<1>6. ASSUME NEW r \in Req PROVE Calls(r) /\ Remote(r)
  BY DEF Init, Calls, Remote, Waiting, Handed, One
<1>7. QED
  BY <1>4, <1>5, <1>6 DEF Inv

\* A port that is given up takes every request on it along, and whoever waits for a
\* port or the document has a call under way that brings it or fails
\* (_clearCurrentOffscreenPort, _ensureOffscreenPort).
THEOREM ControlInvariant == Spec => []ControlInv
<1>1. Inv /\ [Next]_vars => Inv'
  BY TypeStep, WorkStep, CallsStep DEF Inv
<1>2. QED
  BY InitInv, <1>1, InvControl, PTL DEF Spec

-------------------------------------------------------------------------------
(* The proxy implements Handoff *)

Late == {r \in cancelled : via[r][1] = 0}
HandedTo == [r \in Req |-> Handed(r)]

\* Request r has neither been made nor been settled.
SameStage(r) == /\ (phase'[r] = "none" <=> phase[r] = "none")
                /\ (phase'[r] = "done" <=> phase[r] = "done")

USE DEF SameStage

\* Steps which the abstract specification does not see.
LEMMA Unseen ==
    ASSUME Inv, UNCHANGED <<outcome, cancelled, via, page, runs>>,
           \A r \in Req : SameStage(r)
    PROVE  UNCHANGED Requests!vars
<1>1. Status' = Status
  BY DEF Status
<1>2. HandedTo' = HandedTo /\ Late' = Late
  BY DEF HandedTo, Late, Handed, One
<1>3. QED
  BY <1>1, <1>2 DEF Requests!vars, HandedTo, Late

\* Every step of the proxy is a step of Handoff, or changes nothing there.
LEMMA HandoffStep == Inv /\ [Next]_vars => Requests!Next \/ UNCHANGED Requests!vars
<1> SUFFICES ASSUME Inv, [Next]_vars PROVE Requests!Next \/ UNCHANGED Requests!vars
  OBVIOUS
<1>1. ASSUME Probe PROVE Requests!Next \/ UNCHANGED Requests!vars
  <2> USE DEF Inv
  <2>1. UNCHANGED <<outcome, cancelled, via, page, runs>>
    BY <1>1 DEF Probe, remote
  <2>2. \A r \in Req : SameStage(r)
    BY <1>1 DEF Probe, CreatingEnds, Awaited, Abandoned, TypeOK
  <2>3. QED
    BY <2>1, <2>2, Unseen
<1>2. ASSUME Create PROVE Requests!Next \/ UNCHANGED Requests!vars
  <2> USE DEF Inv
  <2>1. UNCHANGED <<outcome, cancelled, via, page, runs>>
    BY <1>2 DEF Create, remote
  <2>2. \A r \in Req : SameStage(r)
    BY <1>2 DEF Create, CreatingEnds, Awaited, TypeOK
  <2>3. QED
    BY <2>1, <2>2, Unseen
<1>3. ASSUME Ask PROVE Requests!Next \/ UNCHANGED Requests!vars
  <2> USE DEF Inv
  <2>1. UNCHANGED <<outcome, cancelled, via, page, runs>>
    BY <1>3 DEF Ask, remote
  <2>2. \A r \in Req : SameStage(r)
    BY <1>3 DEF Ask, RegistrationEnds, Resumed, TypeOK
  <2>3. QED
    BY <2>1, <2>2, Unseen
<1>4. ASSUME PortArrives PROVE Requests!Next \/ UNCHANGED Requests!vars
  <2> USE DEF Inv
  <2>1. UNCHANGED <<outcome, cancelled, via, page, runs>>
    BY <1>4 DEF PortArrives, remote
  <2>2. \A r \in Req : SameStage(r)
    BY <1>4 DEF PortArrives, Abandoned, Resumed, TypeOK
  <2>3. QED
    BY <2>1, <2>2, Unseen
<1>5. ASSUME Asked PROVE Requests!Next \/ UNCHANGED Requests!vars
  <2> USE DEF Inv
  <2>1. UNCHANGED <<outcome, cancelled, via, page, runs>>
    BY <1>5 DEF Asked, remote
  <2>2. \A r \in Req : SameStage(r)
    BY <1>5 DEF Asked, RegistrationEnds, Resumed, TypeOK
  <2>3. QED
    BY <2>1, <2>2, Unseen
<1>6. ASSUME PortTimeout PROVE Requests!Next \/ UNCHANGED Requests!vars
  <2> USE DEF Inv
  <2>1. UNCHANGED <<outcome, cancelled, via, page, runs>>
    BY <1>6 DEF PortTimeout, remote
  <2>2. \A r \in Req : SameStage(r)
    BY <1>6 DEF PortTimeout, RegistrationEnds, Resumed, TypeOK
  <2>3. QED
    BY <2>1, <2>2, Unseen
<1>7. ASSUME Message PROVE Requests!Next \/ UNCHANGED Requests!vars
  <2> USE DEF Inv
  <2>1. CASE UNCHANGED cancelled
    BY <1>7, <2>1, Unseen DEF Message, calls, remote
  <2>2. ASSUME NEW c \in pending \ cancelled, cancelled' = cancelled \cup {c} PROVE Requests!Next
    <3>1. c \in Req /\ Status[c] = "pending" /\ via[c][1] \in Nat /\ attempt[c] = 1
      BY RequestAssumption DEF Calls, Status, TypeOK
    <3>2. Status' = Status /\ HandedTo' = HandedTo /\ runs' = runs /\ UNCHANGED via
      BY <1>7 DEF Message, Status, HandedTo, Handed, One, calls, remote
    <3>3. CASE via[c][1] = 0
      <4>1. page[c][1] = "none" /\ page[c][2] = "none"
        BY <3>1, <3>3 DEF Remote, Calls
      <4>2. HandedTo[c] = 0
        BY <3>1, <4>1 DEF HandedTo, Handed, One
      <4>3. Late' = Late \cup {c}
        BY <2>2, <3>2, <3>3 DEF Late
      <4>4. Requests!Withdraw({c})
        BY <3>1, <3>2, <4>2, <4>3 DEF Requests!Withdraw, HandedTo, Late
      <4>5. QED
        BY <3>1, <4>4 DEF Requests!Next
    <3>4. CASE via[c][1] # 0
      <4>1. Late' = Late
        BY <2>2, <3>2, <3>4 DEF Late
      <4>2. Requests!Withdraw({})
        BY <3>2, <4>1 DEF Requests!Withdraw, HandedTo, Late
      <4>3. QED
        BY <4>2 DEF Requests!Next
    <3>5. QED
      BY <3>3, <3>4
  <2>3. QED
    BY <1>7, <2>1, <2>2 DEF Message
<1>8. ASSUME DocumentLost PROVE Requests!Next \/ UNCHANGED Requests!vars
  <2> USE DEF Inv
  <2>1. Status' = Status /\ Late' = Late /\ runs' = runs
    BY <1>8 DEF DocumentLost, Status, Late, calls
  <2>2. ASSUME NEW r \in Req PROVE Handed(r)' = Handed(r)
    BY <1>8 DEF DocumentLost, Handed, One, States, TypeOK
  <2>3. HandedTo' = HandedTo
    BY <2>2 DEF HandedTo
  <2>4. QED
    BY <2>1, <2>3 DEF Requests!vars, HandedTo, Late
<1>9. ASSUME NEW c \in Req, Send(c) PROVE Requests!Next \/ UNCHANGED Requests!vars
  <2> USE DEF Inv
  <2>1. Late' = Late /\ HandedTo' = HandedTo /\ runs' = runs
    BY <1>9 DEF Send, Late, HandedTo, Handed, One, remote
  <2>2. Status[c] = "idle"
    BY <1>9 DEF Send, Status
  <2>3. \A r \in Req : r # c => phase'[r] = phase[r] /\ outcome'[r] = outcome[r]
    BY <1>9 DEF Send, Ensure, TypeOK
  <2>4. phase'[c] \in {"resume", "ensuring"} \/ (phase'[c] = "done" /\ outcome'[c] = "refused")
    BY <1>9 DEF Send, Ensure, TypeOK
  <2>5. \E s \in {"pending", "refused"} : Status' = [Status EXCEPT ![c] = s]
    <3>1. CASE phase'[c] \in {"resume", "ensuring"}
      <4>1. Status' = [Status EXCEPT ![c] = "pending"]
        BY <2>3, <3>1 DEF Status
      <4>2. QED
        BY <4>1
    <3>2. CASE phase'[c] = "done" /\ outcome'[c] = "refused"
      <4>1. Status' = [Status EXCEPT ![c] = "refused"]
        BY <2>3, <3>2 DEF Status
      <4>2. QED
        BY <4>1
    <3>3. QED
      BY <2>4, <3>1, <3>2
  <2>6. Requests!Issue(c)
    BY <2>1, <2>2, <2>5 DEF Requests!Issue, Late, HandedTo
  <2>7. QED
    BY <2>6 DEF Requests!Next
<1>10. ASSUME NEW c \in Req, Recover(c) PROVE Requests!Next \/ UNCHANGED Requests!vars
  <2> USE DEF Inv
  <2>1. UNCHANGED <<outcome, cancelled, via, page, runs>>
    BY <1>10 DEF Recover, remote
  <2>2. \A r \in Req : SameStage(r)
    BY <1>10 DEF Recover, TypeOK
  <2>3. QED
    BY <2>1, <2>2, Unseen
<1>11. ASSUME NEW c \in Req, Prepared(c) PROVE Requests!Next \/ UNCHANGED Requests!vars
  <2> USE DEF Inv
  <2>1. UNCHANGED <<outcome, cancelled, via, page, runs>>
    BY <1>11 DEF Prepared, remote
  <2>2. \A r \in Req : SameStage(r)
    BY <1>11 DEF Prepared, Ensure, TypeOK
  <2>3. QED
    BY <2>1, <2>2, Unseen
<1>12. ASSUME NEW c \in Req, Dispatch(c) PROVE Requests!Next \/ UNCHANGED Requests!vars
  <2> USE DEF Inv
  <2>0. ASSUME NEW s \in {"refused", "failed"}, phase[c] \in {"resume", "failed"}, phase'[c] = "done", outcome' = [outcome EXCEPT ![c] = s],
               \A r \in Req : r # c => SameStage(r),
               UNCHANGED <<cancelled, via, page, runs>>,
               s = "refused" => Handed(c) = 0, s = "failed" => c \notin Late
        PROVE  Requests!Next
    <3>1. Late' = Late /\ HandedTo' = HandedTo /\ runs' = runs
      BY <2>0 DEF Late, HandedTo, Handed, One
    <3>2. Status[c] = "pending" /\ Status' = [Status EXCEPT ![c] = s]
      BY <2>0 DEF Status, TypeOK
    <3>3. Requests!Refuse(c) \/ Requests!Fail(c)
      BY <2>0, <3>1, <3>2 DEF Requests!Refuse, Requests!Fail, Late, HandedTo
    <3>4. QED
      BY <3>3 DEF Requests!Next
  <2>1. phase[c] = "resume" /\ current # 0 /\ c \notin cancelled /\ UNCHANGED <<attempt, cancelled, replies, runs>>
    BY <1>12 DEF Dispatch, Withdrawn
  <2>2. page[c][attempt[c]] = "none" /\ (attempt[c] = 1 => page[c][2] = "none") /\ (c \in Transferring => attempt[c] = 1)
    BY <2>1 DEF Calls
  <2>3. CASE Posted(c) /\ via' = [via EXCEPT ![c][attempt[c]] = current] /\ phase' = [phase EXCEPT ![c] = "sent"] /\ UNCHANGED outcome
    <3>1. Status[c] = "pending" /\ Status' = Status
      BY <2>1, <2>3 DEF Status, TypeOK
    <3>2. Late' = Late /\ c \notin Late
      BY <2>1, <2>3 DEF Late, TypeOK
    <3>3. PICK s \in {"posted", "lost"} : page' = [page EXCEPT ![c][attempt[c]] = s]
      BY <2>3 DEF Posted
    <3>4. Handed(c)' = Handed(c) + 1
      BY <2>1, <2>2, <3>3 DEF Handed, One, States, TypeOK
    <3>5. ASSUME NEW r \in Req, r # c PROVE Handed(r)' = Handed(r)
      BY <3>3, <3>5 DEF Handed, One, TypeOK
    <3>6. HandedTo' = [HandedTo EXCEPT ![c] = @ + 1]
      BY <3>4, <3>5 DEF HandedTo
    <3>7. HandedTo[c] < Requests!Limit(c)
      BY <2>2 DEF HandedTo, Handed, One, Requests!Limit, TypeOK
    <3>8. Requests!HandOver(c)
      BY <2>1, <3>1, <3>2, <3>6, <3>7 DEF Requests!HandOver, HandedTo, Late
    <3>9. QED
      BY <3>8 DEF Requests!Next
  <2>4. c \in Import => Handed(c) = 0
    BY <2>2, RequestAssumption DEF Handed, One
  <2>5. c \notin Late
    BY <2>1 DEF Late
  <2>6. CASE Settle(c, IF c \in Import THEN "refused" ELSE "failed") /\ UNCHANGED <<page, via>>
    <3>1. phase'[c] = "done" /\ \A r \in Req : r # c => phase'[r] = phase[r]
      BY <2>6 DEF Settle, TypeOK
    <3>2. QED
      BY <2>0, <2>1, <2>4, <2>5, <2>6, <3>1 DEF Settle
  <2>7. CASE /\ c \in Import /\ phase' = [Abandoned(phase, current) EXCEPT ![c] = "done"]
             /\ outcome' = [outcome EXCEPT ![c] = "refused"] /\ UNCHANGED <<page, via>>
    <3>1. phase'[c] = "done"
      BY <2>7 DEF Abandoned
    <3>2. \A r \in Req : r # c => SameStage(r)
      BY <2>7 DEF Abandoned
    <3>3. QED
      BY <2>0, <2>1, <2>4, <2>7, <3>1, <3>2
  <2>8. CASE phase' = [Abandoned(phase, current) EXCEPT ![c] = "failed"] /\ UNCHANGED <<page, via, outcome>>
    <3>1. \A r \in Req : SameStage(r)
      BY <2>1, <2>8 DEF Abandoned
    <3>2. QED
      BY <2>1, <2>8, <3>1, Unseen
  <2>9. QED
    BY <1>12, <2>3, <2>6, <2>7, <2>8, Zenon DEF Dispatch
<1>13. ASSUME NEW c \in Req, Undispatched(c) PROVE Requests!Next \/ UNCHANGED Requests!vars
  <2> USE DEF Inv
  <2>0. ASSUME NEW s \in {"refused", "failed"}, phase[c] \in {"resume", "failed"}, phase'[c] = "done", outcome' = [outcome EXCEPT ![c] = s],
               \A r \in Req : r # c => SameStage(r),
               UNCHANGED <<cancelled, via, page, runs>>,
               s = "refused" => Handed(c) = 0, s = "failed" => c \notin Late
        PROVE  Requests!Next
    <3>1. Late' = Late /\ HandedTo' = HandedTo /\ runs' = runs
      BY <2>0 DEF Late, HandedTo, Handed, One
    <3>2. Status[c] = "pending" /\ Status' = [Status EXCEPT ![c] = s]
      BY <2>0 DEF Status, TypeOK
    <3>3. Requests!Refuse(c) \/ Requests!Fail(c)
      BY <2>0, <3>1, <3>2 DEF Requests!Refuse, Requests!Fail, Late, HandedTo
    <3>4. QED
      BY <3>3 DEF Requests!Next
  <2>1. CASE current = 0
    <3>1. phase' = [phase EXCEPT ![c] = "failed"] /\ phase[c] = "resume" /\ UNCHANGED <<outcome, cancelled, via, page, runs>>
      BY <1>13, <2>1 DEF Undispatched, Settle, link, remote
    <3>2. QED
      BY <3>1, Unseen DEF TypeOK
  <2>2. CASE current # 0
    <3>1. phase[c] = "resume" /\ c \in cancelled /\ Settle(c, "refused") /\ UNCHANGED <<cancelled, via, page, runs>>
      BY <1>13, <2>2 DEF Undispatched, Withdrawn, remote
    <3>2. attempt[c] = 1
      BY <3>1, RequestAssumption DEF Calls, TypeOK
    <3>3. Handed(c) = 0
      BY <3>1, <3>2 DEF Calls, Handed, One
    <3>4. QED
      BY <2>0, <3>1, <3>3 DEF Settle, TypeOK
  <2>3. QED
    BY <2>1, <2>2
<1>14. ASSUME NEW c \in Req, AttemptFails(c) PROVE Requests!Next \/ UNCHANGED Requests!vars
  <2> USE DEF Inv
  <2>0. ASSUME NEW s \in {"refused", "failed"}, phase[c] \in {"resume", "failed"}, phase'[c] = "done", outcome' = [outcome EXCEPT ![c] = s],
               \A r \in Req : r # c => SameStage(r),
               UNCHANGED <<cancelled, via, page, runs>>,
               s = "refused" => Handed(c) = 0, s = "failed" => c \notin Late
        PROVE  Requests!Next
    <3>1. Late' = Late /\ HandedTo' = HandedTo /\ runs' = runs
      BY <2>0 DEF Late, HandedTo, Handed, One
    <3>2. Status[c] = "pending" /\ Status' = [Status EXCEPT ![c] = s]
      BY <2>0 DEF Status, TypeOK
    <3>3. Requests!Refuse(c) \/ Requests!Fail(c)
      BY <2>0, <3>1, <3>2 DEF Requests!Refuse, Requests!Fail, Late, HandedTo
    <3>4. QED
      BY <3>3 DEF Requests!Next
  <2>1. CASE attempt[c] < Attempts(c)
    <3>1. UNCHANGED <<outcome, cancelled, via, page, runs>>
      BY <1>14, <2>1 DEF AttemptFails, remote
    <3>2. \A r \in Req : SameStage(r)
      BY <1>14, <2>1 DEF AttemptFails, Ensure, TypeOK
    <3>3. QED
      BY <3>1, <3>2, Unseen
  <2>2. CASE ~(attempt[c] < Attempts(c))
    <3>1. phase[c] = "failed" /\ Settle(c, LastError(c)) /\ UNCHANGED <<cancelled, via, page, runs>>
      BY <1>14, <2>2 DEF AttemptFails, remote
    <3>2. c \in Import => attempt[c] = 1 /\ Via(c) = via[c][1] /\ page[c][2] = "none"
      BY RequestAssumption DEF Calls, Via
    <3>3. LastError(c) = "refused" => Handed(c) = 0
      <4>1. Remote(c)
        OBVIOUS
      <4>2. ASSUME LastError(c) = "refused" PROVE c \in Import /\ Via(c) = 0
        BY <4>2 DEF LastError
      <4>3. ASSUME LastError(c) = "refused" PROVE page[c][1] = "none" /\ page[c][2] = "none"
        BY <3>2, <4>1, <4>2, <4>3 DEF Remote
      <4>4. QED
        BY <4>3 DEF Handed, One
    <3>4. LastError(c) = "failed" => c \notin Late
      BY <3>2 DEF LastError, Late, TypeOK
    <3>5. LastError(c) \in {"refused", "failed"}
      BY DEF LastError
    <3>6. QED
      BY <2>0, <3>1, <3>3, <3>4, <3>5 DEF Settle, TypeOK
  <2>3. QED
    BY <2>1, <2>2
<1>15. ASSUME NEW c \in Req, Timeout(c) PROVE Requests!Next \/ UNCHANGED Requests!vars
  <2> USE DEF Inv
  <2>1. UNCHANGED <<outcome, cancelled, via, page, runs>>
    BY <1>15 DEF Timeout, remote
  <2>2. \A r \in Req : SameStage(r)
    BY <1>15 DEF Timeout, Abandoned, TypeOK
  <2>3. QED
    BY <2>1, <2>2, Unseen
<1>16. ASSUME NEW c \in Req, NEW n \in {1, 2}, Run(c, n) PROVE Requests!Next \/ UNCHANGED Requests!vars
  <2> USE DEF Inv
  <2>1. page[c][n] = "posted" /\ page' = [page EXCEPT ![c][n] = "running"] /\ runs' = [runs EXCEPT ![c] = @ + 1]
    BY <1>16 DEF Run
  <2>2. Status' = Status /\ Late' = Late
    BY <1>16 DEF Run, Status, Late, calls
  <2>3. runs[c] < Handed(c)
    <3>1. runs[c] + One(c, 1, {"posted"}) + One(c, 2, {"posted"}) <= Handed(c)
      BY DEF Remote
    <3>2. One(c, 1, {"posted"}) + One(c, 2, {"posted"}) \in {1, 2}
      BY <2>1 DEF One
    <3>3. runs[c] \in Nat /\ Handed(c) \in Nat
      BY DEF TypeOK, Handed, One
    <3>4. One(c, 1, {"posted"}) \in {0, 1} /\ One(c, 2, {"posted"}) \in {0, 1}
      BY DEF One
    <3>5. QED
      BY <3>1, <3>2, <3>3, <3>4
  <2>4. ASSUME NEW r \in Req PROVE Handed(r)' = Handed(r)
    BY <2>1 DEF Handed, One, States, TypeOK
  <2>5. HandedTo' = HandedTo
    BY <2>4 DEF HandedTo
  <2>6. Requests!Run(c)
    BY <2>1, <2>2, <2>3, <2>5 DEF Requests!Run, HandedTo, Late
  <2>7. QED
    BY <2>6 DEF Requests!Next
<1>17. ASSUME NEW c \in Req, NEW n \in {1, 2}, Answer(c, n)
       PROVE  Requests!Next \/ UNCHANGED Requests!vars
  <2> USE DEF Inv
  <2>1. Status' = Status /\ Late' = Late /\ runs' = runs
    BY <1>17 DEF Answer, Status, Late, calls
  <2>2. ASSUME NEW r \in Req PROVE Handed(r)' = Handed(r)
    BY <1>17 DEF Answer, Handed, One, States, TypeOK
  <2>3. HandedTo' = HandedTo
    BY <2>2 DEF HandedTo
  <2>4. QED
    BY <2>1, <2>3 DEF Requests!vars, HandedTo, Late
<1>18. ASSUME NEW c \in Req, NEW n \in {1, 2}, Receive(c, n)
       PROVE  Requests!Next \/ UNCHANGED Requests!vars
  <2> USE DEF Inv
  <2>1. Late' = Late /\ HandedTo' = HandedTo /\ runs' = runs
    BY <1>18 DEF Receive, Late, HandedTo, Handed, One
  <2>2. CASE UNCHANGED <<phase, outcome>> \/ (phase' = Abandoned(phase, current) /\ UNCHANGED outcome)
    <3>1. \A r \in Req : SameStage(r)
      BY <2>2 DEF Abandoned
    <3>2. UNCHANGED <<outcome, cancelled, via, page, runs>>
      BY <1>18, <2>2 DEF Receive
    <3>3. QED
      BY <3>1, <3>2, Unseen
  <2>3. CASE phase[c] = "sent" /\ Settle(c, "answered")
    <3>1. Status[c] = "pending" /\ Status' = [Status EXCEPT ![c] = "answered"]
      BY <2>3 DEF Settle, Status, TypeOK
    <3>2. runs[c] > 0
      BY <1>18 DEF Receive, Remote
    <3>3. Requests!Answer(c)
      BY <2>1, <3>1, <3>2 DEF Requests!Answer, Late, HandedTo
    <3>4. QED
      BY <3>3 DEF Requests!Next
  <2>4. QED
    BY <1>18, <2>2, <2>3 DEF Receive
<1>19. ASSUME NEW c \in Req, NEW n \in {1, 2}, MessageError(c, n)
       PROVE  Requests!Next \/ UNCHANGED Requests!vars
  <2> USE DEF Inv
  <2>1. UNCHANGED <<outcome, cancelled, via, page, runs>>
    BY <1>19 DEF MessageError, remote
  <2>2. \A r \in Req : SameStage(r)
    BY <1>19 DEF MessageError, Abandoned, TypeOK
  <2>3. QED
    BY <2>1, <2>2, Unseen
<1>20. CASE UNCHANGED vars
  <2>1. UNCHANGED <<outcome, cancelled, via, page, runs, phase>>
    BY <1>20 DEF vars, calls, remote
  <2>2. QED
    BY <2>1, Unseen
<1>21. QED
  BY <1>1, <1>2, <1>3, <1>4, <1>5, <1>6, <1>7, <1>8, <1>9, <1>10,
     <1>11, <1>12, <1>13, <1>14, <1>15, <1>16, <1>17, <1>18, <1>19, <1>20 DEF Next, Continue

\* OffscreenProxy keeps its promise: what it refuses (DictionaryImportNotAdmittedError)
\* never runs, a cancellation before the dispatch holds, and only requests without
\* transfers are sent twice.
THEOREM ProxyImplementsHandoff == Spec => HandoffSpec
<1>1. Init => Requests!Init
  <2> SUFFICES ASSUME Init PROVE Requests!Init
    OBVIOUS
  <2>1. Status = [r \in Req |-> "idle"] /\ Late = {} /\ runs = [r \in Req |-> 0]
    BY DEF Init, Status, Late
  <2>2. HandedTo = [r \in Req |-> 0]
    BY DEF Init, HandedTo, Handed, One
  <2>3. QED
    BY <2>1, <2>2 DEF Requests!Init, HandedTo, Late
<1>2. Inv /\ [Next]_vars => [Requests!Next]_(Requests!vars)
  BY HandoffStep
<1>3. Inv /\ [Next]_vars => Inv'
  BY TypeStep, WorkStep, CallsStep DEF Inv
<1>4. QED
  BY InitInv, <1>1, <1>2, <1>3, PTL DEF Spec, HandoffSpec, Requests!Spec
=============================================================================
