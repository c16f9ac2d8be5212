---------------------- MODULE UpdateNotificationProofs ----------------------
(***************************************************************************)
(* Proofs about UpdateNotification, for any changes, sessions and faults.    *)
(***************************************************************************)
EXTENDS UpdateNotification, TLAPS

LEMMA Threads == Mode \notin Change /\ None \notin Thread /\ Thread = Change \cup {Mode}
BY ThreadAssumption DEF Thread

\* A refresh moves its thread to one of three stages.
LEMMA RefreshMoves ==
    ASSUME NEW t, NEW reuse, Refresh(t, reuse)
    PROVE  \E to \in {"refreshed", "refreshing", "waiting"} : stage' = [stage EXCEPT ![t] = to]
BY DEF Refresh, Adopt, Reload

\* A change whose caches are gone is queued during an import, or refreshes.
LEMMA ProceedMoves ==
    ASSUME NEW c, Proceed(c)
    PROVE  \/ /\ active /\ stage' = [stage EXCEPT ![c] = "queued"]
              /\ pending' # "none" /\ queuedGen' = queuedGen + 1
           \/ /\ \E to \in {"refreshed", "refreshing", "waiting"} : stage' = [stage EXCEPT ![c] = to]
              /\ UNCHANGED notification
BY RefreshMoves DEF Proceed, QueueNotification, Cause

\* Queueing keeps the types of the notification.
LEMMA ProceedNotification ==
    ASSUME NotificationOK, UNCHANGED exit, NEW c, Proceed(c)
    PROVE  NotificationOK'
<1>1. CASE active
  <2>1. deferred' \in BOOLEAN /\ pending' \in {"none", "import", "other"}
    BY <1>1 DEF Proceed, QueueNotification, Cause
  <2>2. queuedGen' \in Nat
    BY <1>1 DEF Proceed, QueueNotification, NotificationOK
  <2>3. QED
    BY <2>1, <2>2 DEF NotificationOK
<1>2. CASE ~active
  BY <1>2 DEF Proceed, notification, NotificationOK
<1>3. QED
  BY <1>1, <1>2

\* Refreshing keeps the types of its variables.
LEMMA RefreshKeeps ==
    ASSUME RefreshOK, NEW t \in Thread, NEW reuse, Refresh(t, reuse), UNCHANGED armed
    PROVE  RefreshOK'
<1>1. refresher' \in Thread \cup {None} /\ again' \in BOOLEAN
  BY DEF Refresh, Adopt, Reload, RefreshOK
<1>2. covered' \subseteq Change /\ visible' \subseteq Change
  BY DEF Refresh, Adopt, Reload, RefreshOK, Issued
<1>3. faults' \in Nat
  BY DEF Refresh, NoFault, Fault, RefreshOK
<1>4. QED
  BY <1>1, <1>2, <1>3 DEF RefreshOK

\* A new request drops none.
LEMMA AskKeeps ==
    ASSUME requests \in Seq(Request), NEW what, NEW s, Ask(what, s), FlushAsked \/ what = "flush"
    PROVE  FlushAsked'
BY DEF Ask, FlushAsked, Request

\* Taking up another request drops no flush.
LEMMA TailKeeps ==
    ASSUME requests \in Seq(Request), requests # <<>>, requests' = Tail(requests),
           FlushAsked, Head(requests).what # "flush"
    PROVE  FlushAsked'
<1>1. PICK n \in DOMAIN requests : requests[n].what = "flush"
  BY DEF FlushAsked
<1>2. n # 1 /\ n - 1 \in DOMAIN requests' /\ requests'[n - 1] = requests[n]
  BY <1>1 DEF Request
<1>3. QED
  BY <1>1, <1>2 DEF FlushAsked

\* Every step keeps the types.
LEMMA TypeStep == NotificationInv /\ [Next]_vars => TypeOK'
<1> SUFFICES ASSUME NotificationInv, [Next]_vars PROVE TypeOK'
  OBVIOUS
<1> USE Threads DEF NotificationInv
<1>1. ASSUME NEW c \in Change, Trigger(c) PROVE TypeOK'
  <2>1. StageOK'
    BY <1>1 DEF Trigger, Proceed, Cause, QueueNotification, Refresh, Adopt, Reload, NoFault, Fault, StageOK, Stages, ModeStages, ModeShape, RefreshOK, TypeOK, mode, notification, invalidation, refresh
  <2>2. ModeOK'
    BY <1>1 DEF Trigger, Proceed, Cause, QueueNotification, Refresh, Adopt, Reload, NoFault, Fault, ModeOK, Request, TypeOK, mode, notification, invalidation, refresh
  <2>3. NotificationOK'
    BY <1>1, ProceedNotification DEF Trigger, TypeOK, NotificationOK, notification
  <2>4. InvalidationOK'
    BY <1>1 DEF Trigger, Proceed, Cause, QueueNotification, Refresh, Adopt, Reload, NoFault, Fault, InvalidationOK, TypeOK, mode, notification, invalidation, refresh
  <2>5. RefreshOK'
    <3>1. CASE Refresh(c, Kind[c] = "import")
      BY <1>1, <3>1, RefreshKeeps DEF Trigger, TypeOK
    <3>2. CASE UNCHANGED <<refresh, faults>>
      BY <1>1, <3>2 DEF Trigger, refresh, RefreshOK, TypeOK
    <3>3. QED
      BY <1>1, <3>1, <3>2 DEF Trigger, Proceed
  <2> QED
    BY <2>1, <2>2, <2>3, <2>4, <2>5 DEF TypeOK
<1>2. ASSUME NEW c \in Change, Mutate(c) PROVE TypeOK'
  <2>1. StageOK'
    BY <1>2 DEF Mutate, Refresh, Adopt, Reload, NoFault, Fault, StageOK, Stages, ModeStages, ModeShape, RefreshOK, TypeOK, mode, notification, invalidation, refresh
  <2>2. ModeOK'
    BY <1>2 DEF Mutate, Refresh, Adopt, Reload, NoFault, Fault, ModeOK, Request, TypeOK, mode, notification, invalidation, refresh
  <2>3. NotificationOK'
    BY <1>2 DEF Mutate, Refresh, Adopt, Reload, NoFault, Fault, NotificationOK, TypeOK, mode, notification, invalidation, refresh
  <2>4. InvalidationOK'
    BY <1>2 DEF Mutate, Refresh, Adopt, Reload, NoFault, Fault, InvalidationOK, TypeOK, mode, notification, invalidation, refresh
  <2>5. RefreshOK'
    BY <1>2 DEF Mutate, Refresh, Adopt, Reload, NoFault, Fault, RefreshOK, TypeOK, Issued, mode, notification, invalidation, refresh
  <2> QED
    BY <2>1, <2>2, <2>3, <2>4, <2>5 DEF TypeOK
<1>3. ASSUME NEW c \in Change, Owe(c) PROVE TypeOK'
  <2>1. StageOK'
    BY <1>3 DEF Owe, StageOK, Stages, ModeStages, ModeShape, RefreshOK, TypeOK, mode, notification, invalidation, refresh
  <2>2. ModeOK'
    BY <1>3 DEF Owe, ModeOK, Request, TypeOK, mode, notification, invalidation, refresh
  <2>3. NotificationOK'
    BY <1>3 DEF Owe, NotificationOK, TypeOK, mode, notification, invalidation, refresh
  <2>4. InvalidationOK'
    BY <1>3 DEF Owe, InvalidationOK, TypeOK, mode, notification, invalidation, refresh
  <2>5. RefreshOK'
    BY <1>3 DEF Owe, RefreshOK, TypeOK, Issued, mode, notification, invalidation, refresh
  <2> QED
    BY <2>1, <2>2, <2>3, <2>4, <2>5 DEF TypeOK
<1>4. ASSUME NEW c \in Change, ClearEnds(c) PROVE TypeOK'
  <2>1. StageOK'
    BY <1>4 DEF ClearEnds, Completed, Larger, Proceed, Cause, QueueNotification, Refresh, Adopt, Reload, NoFault, Fault, StageOK, Stages, ModeStages, ModeShape, RefreshOK, TypeOK, mode, notification, invalidation, refresh
  <2>2. ModeOK'
    BY <1>4 DEF ClearEnds, Completed, Larger, Proceed, Cause, QueueNotification, Refresh, Adopt, Reload, NoFault, Fault, ModeOK, Request, TypeOK, mode, notification, invalidation, refresh
  <2>3. NotificationOK'
    BY <1>4, Threads, ProceedNotification DEF ClearEnds, TypeOK, NotificationOK, notification
  <2>4. InvalidationOK'
    BY <1>4 DEF ClearEnds, Completed, Larger, Proceed, Cause, QueueNotification, Refresh, Adopt, Reload, NoFault, Fault, InvalidationOK, TypeOK, mode, notification, invalidation, refresh
  <2>5. RefreshOK'
    <3>1. CASE Refresh(c, Kind[c] = "import")
      BY <1>4, <3>1, RefreshKeeps DEF ClearEnds, TypeOK
    <3>2. CASE UNCHANGED refresh /\ faults' \in {faults, faults + 1}
      BY <1>4, <3>2 DEF ClearEnds, refresh, RefreshOK, TypeOK
    <3>3. QED
      BY <1>4, <3>1, <3>2 DEF ClearEnds, Proceed, Fault
  <2> QED
    BY <2>1, <2>2, <2>3, <2>4, <2>5 DEF TypeOK
<1>5. ASSUME NEW c \in Change, Announce(c) PROVE TypeOK'
  <2>1. StageOK'
    BY <1>5 DEF Announce, StageOK, Stages, ModeStages, ModeShape, RefreshOK, TypeOK, mode, notification, invalidation, refresh
  <2>2. ModeOK'
    BY <1>5 DEF Announce, ModeOK, Request, TypeOK, mode, notification, invalidation, refresh
  <2>3. NotificationOK'
    BY <1>5 DEF Announce, NotificationOK, TypeOK, mode, notification, invalidation, refresh
  <2>4. InvalidationOK'
    BY <1>5 DEF Announce, InvalidationOK, TypeOK, mode, notification, invalidation, refresh
  <2>5. RefreshOK'
    BY <1>5 DEF Announce, RefreshOK, TypeOK, Issued, mode, notification, invalidation, refresh
  <2> QED
    BY <2>1, <2>2, <2>3, <2>4, <2>5 DEF TypeOK
<1>6. ASSUME NEW c \in Change, Retain(c) PROVE TypeOK'
  <2>1. StageOK'
    BY <1>6 DEF Retain, Cause, QueueNotification, Rearm, StageOK, Stages, ModeStages, ModeShape, RefreshOK, TypeOK, mode, notification, invalidation, refresh
  <2>2. ModeOK'
    BY <1>6 DEF Retain, Cause, QueueNotification, Rearm, ModeOK, Request, TypeOK, mode, notification, invalidation, refresh
  <2>3. NotificationOK'
    BY <1>6 DEF Retain, Cause, QueueNotification, Rearm, NotificationOK, TypeOK, mode, notification, invalidation, refresh
  <2>4. InvalidationOK'
    BY <1>6 DEF Retain, Cause, QueueNotification, Rearm, InvalidationOK, TypeOK, mode, notification, invalidation, refresh
  <2>5. RefreshOK'
    BY <1>6 DEF Retain, Cause, QueueNotification, Rearm, RefreshOK, TypeOK, Issued, mode, notification, invalidation, refresh
  <2> QED
    BY <2>1, <2>2, <2>3, <2>4, <2>5 DEF TypeOK
<1>7. ASSUME ReloadEnds PROVE TypeOK'
  <2>1. StageOK'
    BY <1>7 DEF ReloadEnds, NoFault, Fault, StageOK, Stages, ModeStages, ModeShape, RefreshOK, TypeOK, mode, notification, invalidation, refresh
  <2>2. ModeOK'
    BY <1>7 DEF ReloadEnds, NoFault, Fault, ModeOK, Request, TypeOK, mode, notification, invalidation, refresh
  <2>3. NotificationOK'
    BY <1>7 DEF ReloadEnds, NoFault, Fault, NotificationOK, TypeOK, mode, notification, invalidation, refresh
  <2>4. InvalidationOK'
    BY <1>7 DEF ReloadEnds, NoFault, Fault, InvalidationOK, TypeOK, mode, notification, invalidation, refresh
  <2>5. RefreshOK'
    <3>1. refresher' \in {refresher, None} /\ again' = FALSE /\ UNCHANGED armed
      BY <1>7 DEF ReloadEnds
    <3>2. covered' \in {covered, Issued} /\ visible' \in {visible, visible \cup covered}
      BY <1>7 DEF ReloadEnds
    <3>3. faults' \in {faults, faults + 1}
      BY <1>7 DEF ReloadEnds, Fault, NoFault
    <3>4. covered' \subseteq Change /\ visible' \subseteq Change /\ faults' \in Nat
      BY <3>2, <3>3 DEF RefreshOK, Issued, TypeOK
    <3>5. refresher' \in Thread \cup {None} /\ again' \in BOOLEAN
      BY <3>1 DEF RefreshOK, TypeOK
    <3>6. armed' \in BOOLEAN
      BY <3>1 DEF RefreshOK, TypeOK
    <3>7. QED
      BY <3>4, <3>5, <3>6 DEF RefreshOK
  <2> QED
    BY <2>1, <2>2, <2>3, <2>4, <2>5 DEF TypeOK
<1>8. ASSUME Transition PROVE TypeOK'
  <2>1. StageOK'
    BY <1>8 DEF Transition, Enter, Release, Owed, BeginExit, Go, HasDeferred, QueueNotification, StageOK, Stages, ModeStages, ModeShape, RefreshOK, TypeOK, mode, notification, invalidation, refresh
  <2>2. ModeOK'
    <3>1. requests' \in Seq(Request) /\ Head(requests) \in Request
      BY <1>8 DEF Transition, ModeOK, TypeOK
    <3>2. UNCHANGED session
      BY <1>8 DEF Transition
    <3>3. owners' \subseteq Session /\ active' \in BOOLEAN
      BY <1>8, <3>1 DEF Transition, Enter, Release, BeginExit, ModeOK, TypeOK, Request
    <3>4. QED
      BY <3>1, <3>2, <3>3 DEF ModeOK, TypeOK
  <2>3. NotificationOK'
    <3>1. \/ UNCHANGED notification
          \/ deferred' = TRUE /\ pending' = "import" /\ queuedGen' = queuedGen + 1
      BY <1>8 DEF Transition, Enter, Release, QueueNotification
    <3>2. exit' \in [had : BOOLEAN, reuse : BOOLEAN, gen : Nat]
      BY <1>8 DEF Transition, Enter, Release, BeginExit, HasDeferred, NotificationOK, TypeOK
    <3>3. CASE UNCHANGED notification
      BY <3>2, <3>3 DEF NotificationOK, TypeOK, notification
    <3>4. CASE deferred' = TRUE /\ pending' = "import" /\ queuedGen' = queuedGen + 1
      BY <3>2, <3>4 DEF NotificationOK, TypeOK
    <3>5. QED
      BY <3>1, <3>3, <3>4
  <2>4. InvalidationOK'
    BY <1>8 DEF Transition, Enter, Release, Owed, BeginExit, Go, HasDeferred, QueueNotification, InvalidationOK, TypeOK, mode, notification, invalidation, refresh
  <2>5. RefreshOK'
    BY <1>8 DEF Transition, Enter, Release, Owed, BeginExit, Go, HasDeferred, QueueNotification, RefreshOK, TypeOK, Issued, mode, notification, invalidation, refresh
  <2> QED
    BY <2>1, <2>2, <2>3, <2>4, <2>5 DEF TypeOK
<1>9. ASSUME Entered PROVE TypeOK'
  <2>1. StageOK'
    BY <1>9 DEF Entered, Go, StageOK, Stages, ModeStages, ModeShape, RefreshOK, TypeOK, mode, notification, invalidation, refresh
  <2>2. ModeOK'
    BY <1>9 DEF Entered, Go, ModeOK, Request, TypeOK, mode, notification, invalidation, refresh
  <2>3. NotificationOK'
    BY <1>9 DEF Entered, Go, NotificationOK, TypeOK, mode, notification, invalidation, refresh
  <2>4. InvalidationOK'
    BY <1>9 DEF Entered, Go, InvalidationOK, TypeOK, mode, notification, invalidation, refresh
  <2>5. RefreshOK'
    BY <1>9 DEF Entered, Go, RefreshOK, TypeOK, Issued, mode, notification, invalidation, refresh
  <2> QED
    BY <2>1, <2>2, <2>3, <2>4, <2>5 DEF TypeOK
<1>10. ASSUME CancelEnds PROVE TypeOK'
  <2>1. StageOK'
    BY <1>10 DEF CancelEnds, BeginExit, Go, HasDeferred, StageOK, Stages, ModeStages, ModeShape, RefreshOK, TypeOK, mode, notification, invalidation, refresh
  <2>2. ModeOK'
    BY <1>10 DEF CancelEnds, BeginExit, Go, HasDeferred, ModeOK, Request, TypeOK, mode, notification, invalidation, refresh
  <2>3. NotificationOK'
    BY <1>10 DEF CancelEnds, BeginExit, Go, HasDeferred, NotificationOK, TypeOK, mode, notification, invalidation, refresh
  <2>4. InvalidationOK'
    BY <1>10 DEF CancelEnds, BeginExit, Go, HasDeferred, InvalidationOK, TypeOK, mode, notification, invalidation, refresh
  <2>5. RefreshOK'
    BY <1>10 DEF CancelEnds, BeginExit, Go, HasDeferred, RefreshOK, TypeOK, Issued, mode, notification, invalidation, refresh
  <2> QED
    BY <2>1, <2>2, <2>3, <2>4, <2>5 DEF TypeOK
<1>11. ASSUME Opened PROVE TypeOK'
  <2>1. StageOK'
    BY <1>11 DEF Opened, Go, Refresh, Adopt, Reload, NoFault, Fault, StageOK, Stages, ModeStages, ModeShape, RefreshOK, TypeOK, mode, notification, invalidation, refresh
  <2>2. ModeOK'
    BY <1>11 DEF Opened, Go, Refresh, Adopt, Reload, NoFault, Fault, ModeOK, Request, TypeOK, mode, notification, invalidation, refresh
  <2>3. NotificationOK'
    BY <1>11 DEF Opened, Go, Refresh, Adopt, Reload, NoFault, Fault, NotificationOK, TypeOK, mode, notification, invalidation, refresh
  <2>4. InvalidationOK'
    BY <1>11 DEF Opened, Go, Refresh, Adopt, Reload, NoFault, Fault, InvalidationOK, TypeOK, mode, notification, invalidation, refresh
  <2>5. RefreshOK'
    <3>1. CASE Refresh(Mode, exit'.reuse)
      BY <1>11, <3>1, RefreshKeeps DEF Opened, TypeOK
    <3>2. CASE UNCHANGED refresh /\ faults' \in {faults, faults + 1}
      BY <1>11, <3>2 DEF Opened, refresh, RefreshOK, TypeOK
    <3>3. QED
      BY <1>11, <3>1, <3>2 DEF Opened, Fault
  <2> QED
    BY <2>1, <2>2, <2>3, <2>4, <2>5 DEF TypeOK
<1>12. ASSUME ClearEnds(Mode) PROVE TypeOK'
  <2>1. StageOK'
    BY <1>12 DEF ClearEnds, Completed, Larger, Proceed, Cause, QueueNotification, Refresh, Adopt, Reload, NoFault, Fault, StageOK, Stages, ModeStages, ModeShape, RefreshOK, TypeOK, mode, notification, invalidation, refresh
  <2>2. ModeOK'
    BY <1>12 DEF ClearEnds, Completed, Larger, Proceed, Cause, QueueNotification, Refresh, Adopt, Reload, NoFault, Fault, ModeOK, Request, TypeOK, mode, notification, invalidation, refresh
  <2>3. NotificationOK'
    BY <1>12 DEF ClearEnds, Completed, Larger, Proceed, Cause, QueueNotification, Refresh, Adopt, Reload, NoFault, Fault, NotificationOK, TypeOK, mode, notification, invalidation, refresh
  <2>4. InvalidationOK'
    BY <1>12 DEF ClearEnds, Completed, Larger, Proceed, Cause, QueueNotification, Refresh, Adopt, Reload, NoFault, Fault, InvalidationOK, TypeOK, mode, notification, invalidation, refresh
  <2>5. RefreshOK'
    <3>1. CASE Refresh(Mode, exit.reuse)
      BY <1>12, <3>1, RefreshKeeps DEF ClearEnds, TypeOK
    <3>2. CASE UNCHANGED refresh /\ faults' \in {faults, faults + 1}
      BY <1>12, <3>2 DEF ClearEnds, refresh, RefreshOK, TypeOK
    <3>3. QED
      BY <1>12, <3>1, <3>2 DEF ClearEnds, Fault
  <2> QED
    BY <2>1, <2>2, <2>3, <2>4, <2>5 DEF TypeOK
<1>13. ASSUME ExitFails PROVE TypeOK'
  <2>1. StageOK'
    BY <1>13 DEF ExitFails, Go, Rearm, StageOK, Stages, ModeStages, ModeShape, RefreshOK, TypeOK, mode, notification, invalidation, refresh
  <2>2. ModeOK'
    BY <1>13 DEF ExitFails, Go, Rearm, ModeOK, Request, TypeOK, mode, notification, invalidation, refresh
  <2>3. NotificationOK'
    BY <1>13 DEF ExitFails, Go, Rearm, NotificationOK, TypeOK, mode, notification, invalidation, refresh
  <2>4. InvalidationOK'
    BY <1>13 DEF ExitFails, Go, Rearm, InvalidationOK, TypeOK, mode, notification, invalidation, refresh
  <2>5. RefreshOK'
    BY <1>13 DEF ExitFails, Go, Rearm, RefreshOK, TypeOK, Issued, mode, notification, invalidation, refresh
  <2> QED
    BY <2>1, <2>2, <2>3, <2>4, <2>5 DEF TypeOK
<1>14. ASSUME ExitEnds PROVE TypeOK'
  <2>1. StageOK'
    BY <1>14 DEF ExitEnds, UpToDate, Queued, Go, Rearm, StageOK, Stages, ModeStages, ModeShape, RefreshOK, TypeOK, mode, notification, invalidation, refresh
  <2>2. ModeOK'
    BY <1>14 DEF ExitEnds, UpToDate, Queued, Go, Rearm, ModeOK, Request, TypeOK, mode, notification, invalidation, refresh
  <2>3. NotificationOK'
    BY <1>14 DEF ExitEnds, UpToDate, Queued, Go, Rearm, NotificationOK, TypeOK, mode, notification, invalidation, refresh
  <2>4. InvalidationOK'
    BY <1>14 DEF ExitEnds, UpToDate, Queued, Go, Rearm, InvalidationOK, TypeOK, mode, notification, invalidation, refresh
  <2>5. RefreshOK'
    BY <1>14 DEF ExitEnds, UpToDate, Queued, Go, Rearm, RefreshOK, TypeOK, Issued, mode, notification, invalidation, refresh
  <2> QED
    BY <2>1, <2>2, <2>3, <2>4, <2>5 DEF TypeOK
<1>15. ASSUME TimerFires PROVE TypeOK'
  <2>1. StageOK'
    BY <1>15 DEF TimerFires, Ask, StageOK, Stages, ModeStages, ModeShape, RefreshOK, TypeOK, mode, notification, invalidation, refresh
  <2>2. ModeOK'
    BY <1>15 DEF TimerFires, Ask, ModeOK, Request, TypeOK, mode, notification, invalidation, refresh
  <2>3. NotificationOK'
    BY <1>15 DEF TimerFires, Ask, NotificationOK, TypeOK, mode, notification, invalidation, refresh
  <2>4. InvalidationOK'
    BY <1>15 DEF TimerFires, Ask, InvalidationOK, TypeOK, mode, notification, invalidation, refresh
  <2>5. RefreshOK'
    BY <1>15 DEF TimerFires, Ask, RefreshOK, TypeOK, Issued, mode, notification, invalidation, refresh
  <2> QED
    BY <2>1, <2>2, <2>3, <2>4, <2>5 DEF TypeOK
<1>16. ASSUME Lookup PROVE TypeOK'
  <2>1. StageOK'
    BY <1>16 DEF Lookup, Ask, StageOK, Stages, ModeStages, ModeShape, RefreshOK, TypeOK, mode, notification, invalidation, refresh
  <2>2. ModeOK'
    BY <1>16 DEF Lookup, Ask, ModeOK, Request, TypeOK, mode, notification, invalidation, refresh
  <2>3. NotificationOK'
    BY <1>16 DEF Lookup, Ask, NotificationOK, TypeOK, mode, notification, invalidation, refresh
  <2>4. InvalidationOK'
    BY <1>16 DEF Lookup, Ask, InvalidationOK, TypeOK, mode, notification, invalidation, refresh
  <2>5. RefreshOK'
    BY <1>16 DEF Lookup, Ask, RefreshOK, TypeOK, Issued, mode, notification, invalidation, refresh
  <2> QED
    BY <2>1, <2>2, <2>3, <2>4, <2>5 DEF TypeOK
<1>17. ASSUME NEW s \in Session, Join(s) PROVE TypeOK'
  <2>1. StageOK'
    BY <1>17 DEF Join, Ask, StageOK, Stages, ModeStages, ModeShape, RefreshOK, TypeOK, mode, notification, invalidation, refresh
  <2>2. ModeOK'
    BY <1>17 DEF Join, Ask, ModeOK, Request, TypeOK, mode, notification, invalidation, refresh
  <2>3. NotificationOK'
    BY <1>17 DEF Join, Ask, NotificationOK, TypeOK, mode, notification, invalidation, refresh
  <2>4. InvalidationOK'
    BY <1>17 DEF Join, Ask, InvalidationOK, TypeOK, mode, notification, invalidation, refresh
  <2>5. RefreshOK'
    BY <1>17 DEF Join, Ask, RefreshOK, TypeOK, Issued, mode, notification, invalidation, refresh
  <2> QED
    BY <2>1, <2>2, <2>3, <2>4, <2>5 DEF TypeOK
<1>18. ASSUME NEW s \in Session, Leave(s) PROVE TypeOK'
  <2>1. StageOK'
    BY <1>18 DEF Leave, Ask, StageOK, Stages, ModeStages, ModeShape, RefreshOK, TypeOK, mode, notification, invalidation, refresh
  <2>2. ModeOK'
    BY <1>18 DEF Leave, Ask, ModeOK, Request, TypeOK, mode, notification, invalidation, refresh
  <2>3. NotificationOK'
    BY <1>18 DEF Leave, Ask, NotificationOK, TypeOK, mode, notification, invalidation, refresh
  <2>4. InvalidationOK'
    BY <1>18 DEF Leave, Ask, InvalidationOK, TypeOK, mode, notification, invalidation, refresh
  <2>5. RefreshOK'
    BY <1>18 DEF Leave, Ask, RefreshOK, TypeOK, Issued, mode, notification, invalidation, refresh
  <2> QED
    BY <2>1, <2>2, <2>3, <2>4, <2>5 DEF TypeOK
<1>19. CASE UNCHANGED vars
  BY <1>19 DEF vars, mode, notification, invalidation, refresh, TypeOK, ModeOK, NotificationOK, InvalidationOK, RefreshOK, StageOK, Stages, ModeStages
<1>20. QED
  BY <1>1, <1>2, <1>3, <1>4, <1>5, <1>6, <1>7, <1>8, <1>9, <1>10, <1>11, <1>12, <1>13, <1>14, <1>15, <1>16, <1>17, <1>18, <1>19 DEF Next, Step, ModeStep

\* Import mode, its owners and the transition agree after every step.
LEMMA ShapeStep == NotificationInv /\ [Next]_vars => ModeShape'
<1> SUFFICES ASSUME NotificationInv, [Next]_vars PROVE ModeShape'
  OBVIOUS
<1> USE Threads DEF NotificationInv
<1>1. ASSUME NEW c \in Change, Trigger(c) PROVE ModeShape'
  BY <1>1 DEF Trigger, Proceed, Cause, QueueNotification, Refresh, Adopt, Reload, NoFault, Fault, ModeShape, Exiting, TypeOK, ModeOK, NotificationOK, InvalidationOK, RefreshOK, StageOK, Stages, ModeStages, mode, notification, invalidation, refresh
<1>2. ASSUME NEW c \in Change, Mutate(c) PROVE ModeShape'
  BY <1>2 DEF Mutate, Refresh, Adopt, Reload, NoFault, Fault, ModeShape, Exiting, TypeOK, ModeOK, NotificationOK, InvalidationOK, RefreshOK, StageOK, Stages, ModeStages, mode, notification, invalidation, refresh
<1>3. ASSUME NEW c \in Change, Owe(c) PROVE ModeShape'
  BY <1>3 DEF Owe, ModeShape, Exiting, TypeOK, ModeOK, NotificationOK, InvalidationOK, RefreshOK, StageOK, Stages, ModeStages, mode, notification, invalidation, refresh
<1>4. ASSUME NEW c \in Change, ClearEnds(c) PROVE ModeShape'
  BY <1>4 DEF ClearEnds, Completed, Larger, Proceed, Cause, QueueNotification, Refresh, Adopt, Reload, NoFault, Fault, ModeShape, Exiting, TypeOK, ModeOK, NotificationOK, InvalidationOK, RefreshOK, StageOK, Stages, ModeStages, mode, notification, invalidation, refresh
<1>5. ASSUME NEW c \in Change, Announce(c) PROVE ModeShape'
  BY <1>5 DEF Announce, ModeShape, Exiting, TypeOK, ModeOK, NotificationOK, InvalidationOK, RefreshOK, StageOK, Stages, ModeStages, mode, notification, invalidation, refresh
<1>6. ASSUME NEW c \in Change, Retain(c) PROVE ModeShape'
  BY <1>6 DEF Retain, Cause, QueueNotification, Rearm, ModeShape, Exiting, TypeOK, ModeOK, NotificationOK, InvalidationOK, RefreshOK, StageOK, Stages, ModeStages, mode, notification, invalidation, refresh
<1>7. ASSUME ReloadEnds PROVE ModeShape'
  BY <1>7 DEF ReloadEnds, NoFault, Fault, ModeShape, Exiting, TypeOK, ModeOK, NotificationOK, InvalidationOK, RefreshOK, StageOK, Stages, ModeStages, mode, notification, invalidation, refresh
<1>8. ASSUME Transition PROVE ModeShape'
  BY <1>8 DEF Transition, Enter, Release, Owed, BeginExit, Go, HasDeferred, QueueNotification, ModeShape, Exiting, TypeOK, ModeOK, NotificationOK, InvalidationOK, RefreshOK, StageOK, Stages, ModeStages, mode, notification, invalidation, refresh
<1>9. ASSUME Entered PROVE ModeShape'
  BY <1>9 DEF Entered, Go, ModeShape, Exiting, TypeOK, ModeOK, NotificationOK, InvalidationOK, RefreshOK, StageOK, Stages, ModeStages, mode, notification, invalidation, refresh
<1>10. ASSUME CancelEnds PROVE ModeShape'
  BY <1>10 DEF CancelEnds, BeginExit, Go, HasDeferred, ModeShape, Exiting, TypeOK, ModeOK, NotificationOK, InvalidationOK, RefreshOK, StageOK, Stages, ModeStages, mode, notification, invalidation, refresh
<1>11. ASSUME Opened PROVE ModeShape'
  BY <1>11 DEF Opened, Go, Refresh, Adopt, Reload, NoFault, Fault, ModeShape, Exiting, TypeOK, ModeOK, NotificationOK, InvalidationOK, RefreshOK, StageOK, Stages, ModeStages, mode, notification, invalidation, refresh
<1>12. ASSUME ClearEnds(Mode) PROVE ModeShape'
  BY <1>12 DEF ClearEnds, Completed, Larger, Proceed, Cause, QueueNotification, Refresh, Adopt, Reload, NoFault, Fault, ModeShape, Exiting, TypeOK, ModeOK, NotificationOK, InvalidationOK, RefreshOK, StageOK, Stages, ModeStages, mode, notification, invalidation, refresh
<1>13. ASSUME ExitFails PROVE ModeShape'
  BY <1>13 DEF ExitFails, Go, Rearm, ModeShape, Exiting, TypeOK, ModeOK, NotificationOK, InvalidationOK, RefreshOK, StageOK, Stages, ModeStages, mode, notification, invalidation, refresh
<1>14. ASSUME ExitEnds PROVE ModeShape'
  BY <1>14 DEF ExitEnds, UpToDate, Queued, Go, Rearm, ModeShape, Exiting, TypeOK, ModeOK, NotificationOK, InvalidationOK, RefreshOK, StageOK, Stages, ModeStages, mode, notification, invalidation, refresh
<1>15. ASSUME TimerFires PROVE ModeShape'
  BY <1>15 DEF TimerFires, Ask, ModeShape, Exiting, TypeOK, ModeOK, NotificationOK, InvalidationOK, RefreshOK, StageOK, Stages, ModeStages, mode, notification, invalidation, refresh
<1>16. ASSUME Lookup PROVE ModeShape'
  BY <1>16 DEF Lookup, Ask, ModeShape, Exiting, TypeOK, ModeOK, NotificationOK, InvalidationOK, RefreshOK, StageOK, Stages, ModeStages, mode, notification, invalidation, refresh
<1>17. ASSUME NEW s \in Session, Join(s) PROVE ModeShape'
  BY <1>17 DEF Join, Ask, ModeShape, Exiting, TypeOK, ModeOK, NotificationOK, InvalidationOK, RefreshOK, StageOK, Stages, ModeStages, mode, notification, invalidation, refresh
<1>18. ASSUME NEW s \in Session, Leave(s) PROVE ModeShape'
  BY <1>18 DEF Leave, Ask, ModeShape, Exiting, TypeOK, ModeOK, NotificationOK, InvalidationOK, RefreshOK, StageOK, Stages, ModeStages, mode, notification, invalidation, refresh
<1>19. CASE UNCHANGED vars
  BY <1>19 DEF vars, mode, notification, invalidation, refresh, ModeShape, Exiting, TypeOK, ModeOK, NotificationOK, InvalidationOK, RefreshOK, StageOK, Stages, ModeStages
<1>20. QED
  BY <1>1, <1>2, <1>3, <1>4, <1>5, <1>6, <1>7, <1>8, <1>9, <1>10, <1>11, <1>12, <1>13, <1>14, <1>15, <1>16, <1>17, <1>18, <1>19 DEF Next, Step, ModeStep

\* Invalidation never lags behind the stage of a change.
LEMMA GenerationsStep == NotificationInv /\ [Next]_vars => Generations'
<1> SUFFICES ASSUME NotificationInv, [Next]_vars PROVE Generations'
  OBVIOUS
<1> USE Threads DEF NotificationInv
<1>1. ASSUME NEW c \in Change, Trigger(c) PROVE Generations'
  <2>1. CASE wantedGen' > doneGen
    BY <1>1, <2>1 DEF Trigger, Generations, StageOK, TypeOK, InvalidationOK, NotificationOK, mode, notification, invalidation, refresh
  <2>2. CASE ~(wantedGen' > doneGen)
    <3>1. Proceed(c)
      BY <1>1, <2>2 DEF Trigger
    <3>2. PICK to \in {"queued", "refreshed", "refreshing", "waiting"} : stage' = [stage EXCEPT ![c] = to]
      BY <3>1, ProceedMoves
    <3>3. exit.gen <= queuedGen'
      BY <3>1, ProceedMoves DEF Generations, StageOK, TypeOK, InvalidationOK, NotificationOK, mode, notification, invalidation, refresh
    <3>4. QED
      BY <1>1, <2>2, <3>2, <3>3 DEF Trigger, Generations, StageOK, TypeOK, InvalidationOK, NotificationOK, mode, notification, invalidation, refresh
  <2>3. QED
    BY <2>1, <2>2
<1>2. ASSUME NEW c \in Change, Mutate(c) PROVE Generations'
  BY <1>2 DEF Mutate, Refresh, Adopt, Reload, NoFault, Fault, Generations, TypeOK, ModeOK, NotificationOK, InvalidationOK, RefreshOK, StageOK, Stages, ModeStages, ModeShape, mode, notification, invalidation, refresh
<1>3. ASSUME NEW c \in Change, Owe(c) PROVE Generations'
  BY <1>3 DEF Owe, Generations, TypeOK, ModeOK, NotificationOK, InvalidationOK, RefreshOK, StageOK, Stages, ModeStages, ModeShape, mode, notification, invalidation, refresh
<1>4. ASSUME NEW c \in Change, ClearEnds(c) PROVE Generations'
  <2>1. CASE Proceed(c) /\ doneGen' = Larger(doneGen, Completed(c)) /\ cleared' = Larger(cleared, clearing[c])
    <3>1. PICK to \in {"queued", "refreshed", "refreshing", "waiting"} : stage' = [stage EXCEPT ![c] = to]
      BY <2>1, ProceedMoves
    <3>2. exit.gen <= queuedGen'
      BY <2>1, ProceedMoves DEF Generations, StageOK, TypeOK, InvalidationOK, NotificationOK, mode, notification, invalidation, refresh
    <3>3. QED
      BY <1>4, <2>1, <3>1, <3>2 DEF ClearEnds, Completed, Larger, Generations, StageOK, TypeOK, InvalidationOK, NotificationOK, mode, notification, invalidation, refresh
  <2>2. CASE stage' = [stage EXCEPT ![c] = "failed"] /\ UNCHANGED <<notification, doneGen, cleared>>
    BY <1>4, <2>2 DEF ClearEnds, Generations, StageOK, TypeOK, InvalidationOK, NotificationOK, mode, notification, invalidation, refresh
  <2>3. QED
    BY <1>4, <2>1, <2>2 DEF ClearEnds
<1>5. ASSUME NEW c \in Change, Announce(c) PROVE Generations'
  BY <1>5 DEF Announce, Generations, TypeOK, ModeOK, NotificationOK, InvalidationOK, RefreshOK, StageOK, Stages, ModeStages, ModeShape, mode, notification, invalidation, refresh
<1>6. ASSUME NEW c \in Change, Retain(c) PROVE Generations'
  BY <1>6 DEF Retain, Cause, QueueNotification, Rearm, Generations, TypeOK, ModeOK, NotificationOK, InvalidationOK, RefreshOK, StageOK, Stages, ModeStages, ModeShape, mode, notification, invalidation, refresh
<1>7. ASSUME ReloadEnds PROVE Generations'
  BY <1>7 DEF ReloadEnds, NoFault, Fault, Generations, TypeOK, ModeOK, NotificationOK, InvalidationOK, RefreshOK, StageOK, Stages, ModeStages, ModeShape, mode, notification, invalidation, refresh
<1>8. ASSUME Transition PROVE Generations'
  <2>1. UNCHANGED <<wantedGen, doneGen, clearing, need, cleared>>
    BY <1>8 DEF Transition, mode, notification, invalidation, refresh
  <2>2. exit'.gen = exit.gen /\ queuedGen <= queuedGen'
    BY <1>8 DEF Transition, Enter, Release, BeginExit, QueueNotification, mode, notification, invalidation, refresh, TypeOK, NotificationOK
  <2>3. \A c \in Change : stage'[c] = stage[c] \/ (stage[c] = "owed" /\ stage'[c] = "queued")
    BY <1>8 DEF Transition, Enter, Release, Owed, BeginExit, Go, StageOK, TypeOK
  <2>4. exit.gen <= queuedGen' /\ queuedGen' \in Nat
    BY <1>8, <2>2 DEF Transition, Release, Enter, QueueNotification, Generations, StageOK, TypeOK, InvalidationOK, NotificationOK, mode, notification, invalidation, refresh
  <2>5. SUFFICES ASSUME NEW c \in Change PROVE (stage'[c] = "clearing" => need[c] <= clearing[c])
               /\ (stage'[c] \notin {"clearing", "failed", "queued"} => need[c] <= cleared)
    BY <2>1, <2>2, <2>4 DEF Generations
  <2>6. QED
    BY <2>3 DEF Generations
<1>9. ASSUME Entered PROVE Generations'
  BY <1>9 DEF Entered, Go, Generations, TypeOK, ModeOK, NotificationOK, InvalidationOK, RefreshOK, StageOK, Stages, ModeStages, ModeShape, mode, notification, invalidation, refresh
<1>10. ASSUME CancelEnds PROVE Generations'
  BY <1>10 DEF CancelEnds, BeginExit, Go, HasDeferred, Generations, TypeOK, ModeOK, NotificationOK, InvalidationOK, RefreshOK, StageOK, Stages, ModeStages, ModeShape, mode, notification, invalidation, refresh
<1>11. ASSUME Opened PROVE Generations'
  <2>1. \A c \in Change : stage'[c] = stage[c]
    BY <1>11, RefreshMoves DEF Opened, Go, StageOK, TypeOK
  <2>2. UNCHANGED <<queuedGen, wantedGen, doneGen, need, cleared>> /\ exit'.gen \in {exit.gen, queuedGen}
    BY <1>11 DEF Opened, notification, TypeOK, NotificationOK
  <2>3. \A t \in Thread : clearing'[t] \in {clearing[t], wantedGen}
    BY <1>11 DEF Opened, TypeOK, InvalidationOK
  <2>4. \A c \in Change : clearing'[c] = clearing[c]
    BY <1>11 DEF Opened, TypeOK, InvalidationOK
  <2>5. QED
    BY <2>1, <2>2, <2>3, <2>4 DEF Generations, TypeOK, InvalidationOK, NotificationOK
<1>12. ASSUME ClearEnds(Mode) PROVE Generations'
  <2>1. \A c \in Change : stage'[c] = stage[c]
    BY <1>12, RefreshMoves DEF ClearEnds, Generations, StageOK, TypeOK, InvalidationOK, NotificationOK
  <2>2. UNCHANGED <<queuedGen, exit, wantedGen, clearing, need>>
    BY <1>12 DEF ClearEnds, mode, notification, invalidation, refresh
  <2>3. \/ doneGen' = Larger(doneGen, clearing[Mode]) /\ cleared' = Larger(cleared, clearing[Mode])
        \/ UNCHANGED <<doneGen, cleared>>
    BY <1>12 DEF ClearEnds, Completed
  <2>4. QED
    BY <2>1, <2>2, <2>3 DEF Larger, Generations, StageOK, TypeOK, InvalidationOK, NotificationOK
<1>13. ASSUME ExitFails PROVE Generations'
  BY <1>13 DEF ExitFails, Go, Rearm, Generations, TypeOK, ModeOK, NotificationOK, InvalidationOK, RefreshOK, StageOK, Stages, ModeStages, ModeShape, mode, notification, invalidation, refresh
<1>14. ASSUME ExitEnds PROVE Generations'
  <2>1. UNCHANGED <<wantedGen, doneGen, clearing, need, cleared, exit, queuedGen>> /\ stage[Mode] = "refreshed"
    BY <1>14 DEF ExitEnds, mode, notification, invalidation, refresh
  <2>2. \A c \in Change : stage'[c] = stage[c] \/ (queuedGen = exit.gen /\ c \in Queued)
    BY <1>14 DEF ExitEnds, UpToDate, Go, StageOK, TypeOK
  <2>3. \A c \in Change : need[c] <= cleared \/ stage'[c] = stage[c]
    BY <2>1, <2>2 DEF ExitCovers
  <2>4. \A c \in Change : stage'[c] \in {stage[c], "announced"}
    BY <1>14 DEF ExitEnds, UpToDate, Go, StageOK, TypeOK
  <2>5. QED
    BY <2>1, <2>3, <2>4 DEF Generations, StageOK, TypeOK, InvalidationOK, NotificationOK
<1>15. ASSUME TimerFires PROVE Generations'
  BY <1>15 DEF TimerFires, Ask, Generations, TypeOK, ModeOK, NotificationOK, InvalidationOK, RefreshOK, StageOK, Stages, ModeStages, ModeShape, mode, notification, invalidation, refresh
<1>16. ASSUME Lookup PROVE Generations'
  BY <1>16 DEF Lookup, Ask, Generations, TypeOK, ModeOK, NotificationOK, InvalidationOK, RefreshOK, StageOK, Stages, ModeStages, ModeShape, mode, notification, invalidation, refresh
<1>17. ASSUME NEW s \in Session, Join(s) PROVE Generations'
  BY <1>17 DEF Join, Ask, Generations, TypeOK, ModeOK, NotificationOK, InvalidationOK, RefreshOK, StageOK, Stages, ModeStages, ModeShape, mode, notification, invalidation, refresh
<1>18. ASSUME NEW s \in Session, Leave(s) PROVE Generations'
  BY <1>18 DEF Leave, Ask, Generations, TypeOK, ModeOK, NotificationOK, InvalidationOK, RefreshOK, StageOK, Stages, ModeStages, ModeShape, mode, notification, invalidation, refresh
<1>19. CASE UNCHANGED vars
  BY <1>19 DEF vars, mode, notification, invalidation, refresh, Generations, TypeOK, ModeOK, NotificationOK, InvalidationOK, RefreshOK, StageOK, Stages, ModeStages, ModeShape
<1>20. QED
  BY <1>1, <1>2, <1>3, <1>4, <1>5, <1>6, <1>7, <1>8, <1>9, <1>10, <1>11, <1>12, <1>13, <1>14, <1>15, <1>16, <1>17, <1>18, <1>19 DEF Next, Step, ModeStep

\* An exit that is up to date has invalidated whatever is queued.
LEMMA ExitCoversStep == NotificationInv /\ [Next]_vars => ExitCovers'
<1> SUFFICES ASSUME NotificationInv, [Next]_vars PROVE ExitCovers'
  OBVIOUS
<1> USE Threads DEF NotificationInv
<1>1. ASSUME NEW c \in Change, Trigger(c) PROVE ExitCovers'
  BY <1>1 DEF Trigger, Proceed, Cause, QueueNotification, Refresh, Adopt, Reload, NoFault, Fault, ExitCovers, Queued, Generations, TypeOK, ModeOK, NotificationOK, InvalidationOK, RefreshOK, StageOK, Stages, ModeStages, ModeShape, mode, notification, invalidation, refresh
<1>2. ASSUME NEW c \in Change, Mutate(c) PROVE ExitCovers'
  BY <1>2 DEF Mutate, Refresh, Adopt, Reload, NoFault, Fault, ExitCovers, Queued, Generations, TypeOK, ModeOK, NotificationOK, InvalidationOK, RefreshOK, StageOK, Stages, ModeStages, ModeShape, mode, notification, invalidation, refresh
<1>3. ASSUME NEW c \in Change, Owe(c) PROVE ExitCovers'
  BY <1>3 DEF Owe, ExitCovers, Queued, Generations, TypeOK, ModeOK, NotificationOK, InvalidationOK, RefreshOK, StageOK, Stages, ModeStages, ModeShape, mode, notification, invalidation, refresh
<1>4. ASSUME NEW c \in Change, ClearEnds(c) PROVE ExitCovers'
  <2>1. CASE Proceed(c) /\ doneGen' = Larger(doneGen, Completed(c)) /\ cleared' = Larger(cleared, clearing[c])
    <3>1. CASE queuedGen' = queuedGen + 1
      BY <1>4, <3>1 DEF ClearEnds, ExitCovers, Generations, TypeOK, NotificationOK
    <3>2. CASE UNCHANGED queuedGen
      <4>1. PICK to \in {"refreshed", "refreshing", "waiting"} : stage' = [stage EXCEPT ![c] = to]
        BY <2>1, <3>2, ProceedMoves DEF TypeOK, NotificationOK
      <4>2. Queued' \subseteq Queued /\ stage'[Mode] = stage[Mode]
        BY <4>1 DEF Queued, TypeOK, StageOK
      <4>3. UNCHANGED <<exit, clearing, need>> /\ cleared <= cleared'
        BY <1>4, <2>1 DEF ClearEnds, mode, notification, invalidation, refresh, Larger, TypeOK, InvalidationOK
      <4>4. SUFFICES ASSUME queuedGen = exit.gen, NEW d \in Queued
                   PROVE  /\ stage[Mode] = "clearing" => need[d] <= clearing[Mode]
                          /\ stage[Mode] \in {"refreshing", "waiting", "refreshed"} => need[d] <= cleared'
        BY <3>2, <4>2, <4>3 DEF ExitCovers
      <4>5. d \in Change /\ need[d] \in Nat /\ cleared \in Nat /\ cleared' \in Nat
        BY <1>4, <2>1 DEF Queued, ClearEnds, Larger, TypeOK, InvalidationOK
      <4>6. QED
        BY <4>3, <4>4, <4>5 DEF ExitCovers
    <3>3. QED
      BY <2>1, <3>1, <3>2, ProceedMoves DEF notification
  <2>2. CASE stage' = [stage EXCEPT ![c] = "failed"] /\ UNCHANGED <<notification, doneGen, cleared>>
    BY <1>4, <2>2 DEF ClearEnds, ExitCovers, Queued, TypeOK, StageOK, mode, notification, invalidation, refresh
  <2>3. QED
    BY <1>4, <2>1, <2>2 DEF ClearEnds
<1>5. ASSUME NEW c \in Change, Announce(c) PROVE ExitCovers'
  BY <1>5 DEF Announce, ExitCovers, Queued, Generations, TypeOK, ModeOK, NotificationOK, InvalidationOK, RefreshOK, StageOK, Stages, ModeStages, ModeShape, mode, notification, invalidation, refresh
<1>6. ASSUME NEW c \in Change, Retain(c) PROVE ExitCovers'
  BY <1>6 DEF Retain, Cause, QueueNotification, Rearm, ExitCovers, Queued, Generations, TypeOK, ModeOK, NotificationOK, InvalidationOK, RefreshOK, StageOK, Stages, ModeStages, ModeShape, mode, notification, invalidation, refresh
<1>7. ASSUME ReloadEnds PROVE ExitCovers'
  BY <1>7 DEF ReloadEnds, NoFault, Fault, ExitCovers, Queued, Generations, TypeOK, ModeOK, NotificationOK, InvalidationOK, RefreshOK, StageOK, Stages, ModeStages, ModeShape, mode, notification, invalidation, refresh
<1>8. ASSUME Transition PROVE ExitCovers'
  BY <1>8 DEF Transition, Enter, Release, Owed, BeginExit, Go, HasDeferred, QueueNotification, ExitCovers, Queued, Generations, TypeOK, ModeOK, NotificationOK, InvalidationOK, RefreshOK, StageOK, Stages, ModeStages, ModeShape, mode, notification, invalidation, refresh
<1>9. ASSUME Entered PROVE ExitCovers'
  BY <1>9 DEF Entered, Go, ExitCovers, Queued, Generations, TypeOK, ModeOK, NotificationOK, InvalidationOK, RefreshOK, StageOK, Stages, ModeStages, ModeShape, mode, notification, invalidation, refresh
<1>10. ASSUME CancelEnds PROVE ExitCovers'
  BY <1>10 DEF CancelEnds, BeginExit, Go, HasDeferred, ExitCovers, Queued, Generations, TypeOK, ModeOK, NotificationOK, InvalidationOK, RefreshOK, StageOK, Stages, ModeStages, ModeShape, mode, notification, invalidation, refresh
<1>11. ASSUME Opened PROVE ExitCovers'
  BY <1>11 DEF Opened, Go, Refresh, Adopt, Reload, NoFault, Fault, ExitCovers, Queued, Generations, TypeOK, ModeOK, NotificationOK, InvalidationOK, RefreshOK, StageOK, Stages, ModeStages, ModeShape, mode, notification, invalidation, refresh
<1>12. ASSUME ClearEnds(Mode) PROVE ExitCovers'
  BY <1>12 DEF ClearEnds, Completed, Larger, Proceed, Cause, QueueNotification, Refresh, Adopt, Reload, NoFault, Fault, ExitCovers, Queued, Generations, TypeOK, ModeOK, NotificationOK, InvalidationOK, RefreshOK, StageOK, Stages, ModeStages, ModeShape, mode, notification, invalidation, refresh
<1>13. ASSUME ExitFails PROVE ExitCovers'
  BY <1>13 DEF ExitFails, Go, Rearm, ExitCovers, Queued, Generations, TypeOK, ModeOK, NotificationOK, InvalidationOK, RefreshOK, StageOK, Stages, ModeStages, ModeShape, mode, notification, invalidation, refresh
<1>14. ASSUME ExitEnds PROVE ExitCovers'
  BY <1>14 DEF ExitEnds, UpToDate, Queued, Go, Rearm, ExitCovers, Queued, Generations, TypeOK, ModeOK, NotificationOK, InvalidationOK, RefreshOK, StageOK, Stages, ModeStages, ModeShape, mode, notification, invalidation, refresh
<1>15. ASSUME TimerFires PROVE ExitCovers'
  BY <1>15 DEF TimerFires, Ask, ExitCovers, Queued, Generations, TypeOK, ModeOK, NotificationOK, InvalidationOK, RefreshOK, StageOK, Stages, ModeStages, ModeShape, mode, notification, invalidation, refresh
<1>16. ASSUME Lookup PROVE ExitCovers'
  BY <1>16 DEF Lookup, Ask, ExitCovers, Queued, Generations, TypeOK, ModeOK, NotificationOK, InvalidationOK, RefreshOK, StageOK, Stages, ModeStages, ModeShape, mode, notification, invalidation, refresh
<1>17. ASSUME NEW s \in Session, Join(s) PROVE ExitCovers'
  BY <1>17 DEF Join, Ask, ExitCovers, Queued, Generations, TypeOK, ModeOK, NotificationOK, InvalidationOK, RefreshOK, StageOK, Stages, ModeStages, ModeShape, mode, notification, invalidation, refresh
<1>18. ASSUME NEW s \in Session, Leave(s) PROVE ExitCovers'
  BY <1>18 DEF Leave, Ask, ExitCovers, Queued, Generations, TypeOK, ModeOK, NotificationOK, InvalidationOK, RefreshOK, StageOK, Stages, ModeStages, ModeShape, mode, notification, invalidation, refresh
<1>19. CASE UNCHANGED vars
  BY <1>19 DEF vars, mode, notification, invalidation, refresh, ExitCovers, Queued, Generations, TypeOK, ModeOK, NotificationOK, InvalidationOK, RefreshOK, StageOK, Stages, ModeStages, ModeShape
<1>20. QED
  BY <1>1, <1>2, <1>3, <1>4, <1>5, <1>6, <1>7, <1>8, <1>9, <1>10, <1>11, <1>12, <1>13, <1>14, <1>15, <1>16, <1>17, <1>18, <1>19 DEF Next, Step, ModeStep

\* What is queued stays remembered, with somebody to take it up.
LEMMA RememberedStep == NotificationInv /\ [Next]_vars => Remembered'
<1> SUFFICES ASSUME NotificationInv, [Next]_vars PROVE Remembered'
  OBVIOUS
<1> USE Threads DEF NotificationInv
<1>1. ASSUME NEW c \in Change, Trigger(c) PROVE Remembered'
  <2>1. CASE Proceed(c)
    <3>1. PICK to \in {"queued", "refreshed", "refreshing", "waiting"} :
             /\ stage' = [stage EXCEPT ![c] = to]
             /\ to = "queued" => active /\ pending' # "none"
      BY <2>1, ProceedMoves
    <3>2. CASE to = "queued"
      BY <1>1, <3>1, <3>2 DEF Trigger, mode, notification, invalidation, refresh, Remembered, Queued, TypeOK, StageOK
    <3>3. CASE to # "queued"
      <4>1. UNCHANGED <<pending, Queued>>
        BY <1>1, <2>1, <3>1, <3>3, ProceedMoves DEF Trigger, Queued, notification, TypeOK, StageOK
      <4>2. UNCHANGED <<active, requests, armed>> /\ stage'[Mode] = stage[Mode]
        BY <1>1, <3>1 DEF Trigger, mode, TypeOK, StageOK
      <4>3. QED
        BY <4>1, <4>2 DEF Remembered, FlushAsked
    <3>4. QED
      BY <3>2, <3>3
  <2>2. CASE stage' = [stage EXCEPT ![c] = "clearing"] /\ UNCHANGED notification
    BY <1>1, <2>2 DEF Trigger, mode, notification, invalidation, refresh, Remembered, Queued, TypeOK, StageOK, FlushAsked
  <2>3. QED
    BY <1>1, <2>1, <2>2 DEF Trigger
<1>2. ASSUME NEW c \in Change, Mutate(c) PROVE Remembered'
  <2>1. PICK to \in {"ended", "refreshed", "refreshing", "waiting"} : stage' = [stage EXCEPT ![c] = to]
    BY <1>2, RefreshMoves DEF Mutate
  <2>2. UNCHANGED <<pending, active, requests, armed, Queued>> /\ stage'[Mode] = stage[Mode]
    BY <1>2, <2>1 DEF Mutate, mode, notification, invalidation, refresh, Queued, TypeOK, StageOK
  <2>3. QED
    BY <2>2 DEF Remembered, FlushAsked
<1>3. ASSUME NEW c \in Change, Owe(c) PROVE Remembered'
  BY <1>3 DEF Owe, Remembered, Queued, FlushAsked, Exiting, ModeShape, TypeOK, ModeOK, NotificationOK, InvalidationOK, RefreshOK, StageOK, Stages, ModeStages, mode, notification, invalidation, refresh
<1>4. ASSUME NEW c \in Change, ClearEnds(c) PROVE Remembered'
  <2>1. CASE Proceed(c)
    <3>1. PICK to \in {"queued", "refreshed", "refreshing", "waiting"} :
             /\ stage' = [stage EXCEPT ![c] = to]
             /\ to = "queued" => active /\ pending' # "none"
      BY <2>1, ProceedMoves
    <3>2. CASE to = "queued"
      BY <1>4, <3>1, <3>2 DEF ClearEnds, mode, notification, invalidation, refresh, Remembered, Queued, TypeOK, StageOK
    <3>3. CASE to # "queued"
      <4>1. UNCHANGED <<pending, Queued>>
        BY <1>4, <2>1, <3>1, <3>3, ProceedMoves DEF ClearEnds, Queued, notification, TypeOK, StageOK
      <4>2. UNCHANGED <<active, requests, armed>> /\ stage'[Mode] = stage[Mode]
        BY <1>4, <3>1 DEF ClearEnds, mode, TypeOK, StageOK
      <4>3. QED
        BY <4>1, <4>2 DEF Remembered, FlushAsked
    <3>4. QED
      BY <3>2, <3>3
  <2>2. CASE stage' = [stage EXCEPT ![c] = "failed"] /\ UNCHANGED notification
    BY <1>4, <2>2 DEF ClearEnds, mode, notification, invalidation, refresh, Remembered, Queued, TypeOK, StageOK, FlushAsked
  <2>3. QED
    BY <1>4, <2>1, <2>2 DEF ClearEnds
<1>5. ASSUME NEW c \in Change, Announce(c) PROVE Remembered'
  BY <1>5 DEF Announce, Remembered, Queued, FlushAsked, Exiting, ModeShape, TypeOK, ModeOK, NotificationOK, InvalidationOK, RefreshOK, StageOK, Stages, ModeStages, mode, notification, invalidation, refresh
<1>6. ASSUME NEW c \in Change, Retain(c) PROVE Remembered'
  BY <1>6 DEF Retain, Cause, QueueNotification, Rearm, Remembered, Queued, FlushAsked, Exiting, ModeShape, TypeOK, ModeOK, NotificationOK, InvalidationOK, RefreshOK, StageOK, Stages, ModeStages, mode, notification, invalidation, refresh
<1>7. ASSUME ReloadEnds PROVE Remembered'
  BY <1>7 DEF ReloadEnds, NoFault, Fault, Remembered, Queued, FlushAsked, Exiting, ModeShape, TypeOK, ModeOK, NotificationOK, InvalidationOK, RefreshOK, StageOK, Stages, ModeStages, mode, notification, invalidation, refresh
<1>8. ASSUME Transition PROVE Remembered'
  <2> USE DEF TypeOK, ModeOK
  <2>1. CASE Head(requests).what = "enter" /\ Enter(Head(requests).session)
    BY <1>8, <2>1 DEF Transition, Enter, Go, Remembered, Queued, TypeOK, StageOK, mode, notification, invalidation, refresh
  <2>2. CASE Head(requests).what = "release" /\ Release(Head(requests).session)
    <3>1. stage'[Mode] = "cancelling"
      BY <1>8, <2>2 DEF Release, Owed, StageOK
    <3>2. CASE Owed(Head(requests).session) = {}
      <4>1. UNCHANGED <<pending, Queued>>
        BY <1>8, <2>2, <3>2 DEF Release, Owed, Queued, StageOK, notification
      <4>2. QED
        BY <3>1, <4>1 DEF Remembered
    <3>3. CASE Owed(Head(requests).session) # {}
      <4>1. pending' # "none" /\ Queued' # {}
        BY <1>8, <2>2, <3>3 DEF Release, Owed, Queued, StageOK, QueueNotification
      <4>2. QED
        BY <3>1, <4>1 DEF Remembered
    <3>4. QED
      BY <3>2, <3>3
  <2>3. CASE Head(requests).what = "flush" /\ owners = {} /\ BeginExit /\ UNCHANGED <<owners, notification>>
    <3>1. UNCHANGED <<pending, Queued>>
      BY <1>8, <2>3 DEF BeginExit, Go, Queued, StageOK, notification
    <3>2. Queued # {} => stage'[Mode] = "opening"
      BY <1>8, <2>3 DEF BeginExit, Go, HasDeferred, StageOK, Remembered
    <3>3. QED
      BY <3>1, <3>2 DEF Remembered
  <2>4. CASE Head(requests).what = "release" /\ UNCHANGED <<stage, active, owners, exit, notification>>
    <3>1. FlushAsked => FlushAsked'
      BY <1>8, <2>4, TailKeeps DEF Transition
    <3>2. UNCHANGED <<stage, active, armed, pending>>
      BY <1>8, <2>4 DEF Transition, notification
    <3>3. QED
      BY <3>1, <3>2, <1>8 DEF Remembered, Queued, Transition
  <2>5. CASE Head(requests).what = "flush" /\ owners # {} /\ UNCHANGED <<stage, active, owners, exit, notification>>
    BY <1>8, <2>5 DEF Transition, Remembered, Queued, notification, ModeShape
  <2>6. QED
    BY <1>8, <2>1, <2>2, <2>3, <2>4, <2>5 DEF Transition
<1>9. ASSUME Entered PROVE Remembered'
  BY <1>9 DEF Entered, Go, Remembered, Queued, FlushAsked, Exiting, ModeShape, TypeOK, ModeOK, NotificationOK, InvalidationOK, RefreshOK, StageOK, Stages, ModeStages, mode, notification, invalidation, refresh
<1>10. ASSUME CancelEnds PROVE Remembered'
  BY <1>10 DEF CancelEnds, BeginExit, Go, HasDeferred, Remembered, Queued, FlushAsked, Exiting, ModeShape, TypeOK, ModeOK, NotificationOK, InvalidationOK, RefreshOK, StageOK, Stages, ModeStages, mode, notification, invalidation, refresh
<1>11. ASSUME Opened PROVE Remembered'
  <2>1. UNCHANGED <<pending, active, requests, armed>>
    BY <1>11 DEF Opened, mode, notification
  <2>2. PICK to \in {"clearing", "refreshed", "refreshing", "waiting", "failed"} :
           stage' = [stage EXCEPT ![Mode] = to]
    BY <1>11, RefreshMoves DEF Opened, Go
  <2>3. Queued' = Queued /\ stage'[Mode] # "idle"
    BY <2>2 DEF Queued, TypeOK, StageOK
  <2> QED
    BY <2>1, <2>3 DEF Remembered, FlushAsked
<1>12. ASSUME ClearEnds(Mode) PROVE Remembered'
  BY <1>12 DEF ClearEnds, Completed, Larger, Proceed, Cause, QueueNotification, Refresh, Adopt, Reload, NoFault, Fault, Remembered, Queued, FlushAsked, Exiting, ModeShape, TypeOK, ModeOK, NotificationOK, InvalidationOK, RefreshOK, StageOK, Stages, ModeStages, mode, notification, invalidation, refresh
<1>13. ASSUME ExitFails PROVE Remembered'
  BY <1>13 DEF ExitFails, Go, Rearm, Remembered, Queued, FlushAsked, Exiting, ModeShape, TypeOK, ModeOK, NotificationOK, InvalidationOK, RefreshOK, StageOK, Stages, ModeStages, mode, notification, invalidation, refresh
<1>14. ASSUME ExitEnds PROVE Remembered'
  <2>1. UNCHANGED <<active, requests>>
    BY <1>14 DEF ExitEnds, mode
  <2>2. CASE UpToDate
    <3>1. Queued' = {} /\ pending' = "none"
      BY <1>14, <2>2 DEF ExitEnds, Queued, TypeOK, StageOK
    <3> QED
      BY <3>1 DEF Remembered
  <2>3. CASE ~UpToDate
    <3>1. stage' = [stage EXCEPT ![Mode] = "idle"] /\ UNCHANGED pending
      BY <1>14, <2>3 DEF ExitEnds, Go
    <3>2. Queued' = Queued
      BY <3>1 DEF Queued, TypeOK, StageOK
    <3>3. armed' \/ active
      BY <1>14, <2>3 DEF ExitEnds, Rearm
    <3> QED
      BY <2>1, <3>1, <3>2, <3>3 DEF Remembered
  <2> QED
    BY <2>2, <2>3
<1>15. ASSUME TimerFires PROVE Remembered'
  <2>1. FlushAsked'
    BY <1>15, AskKeeps DEF TimerFires, TypeOK, ModeOK
  <2>2. UNCHANGED <<stage, active, pending>>
    BY <1>15 DEF TimerFires, notification
  <2>3. QED
    BY <2>1, <2>2 DEF Remembered, Queued
<1>16. ASSUME Lookup PROVE Remembered'
  <2>1. FlushAsked => FlushAsked'
    BY <1>16, AskKeeps DEF Lookup, TypeOK, ModeOK
  <2>2. UNCHANGED <<stage, active, armed, pending>>
    BY <1>16 DEF Lookup, notification
  <2>3. QED
    BY <2>1, <2>2 DEF Remembered, Queued
<1>17. ASSUME NEW s \in Session, Join(s) PROVE Remembered'
  <2>1. FlushAsked => FlushAsked'
    BY <1>17, AskKeeps DEF Join, TypeOK, ModeOK
  <2>2. UNCHANGED <<stage, active, armed, pending>>
    BY <1>17 DEF Join, notification
  <2>3. QED
    BY <2>1, <2>2 DEF Remembered, Queued
<1>18. ASSUME NEW s \in Session, Leave(s) PROVE Remembered'
  <2>1. FlushAsked => FlushAsked'
    BY <1>18, AskKeeps DEF Leave, TypeOK, ModeOK
  <2>2. UNCHANGED <<stage, active, armed, pending>>
    BY <1>18 DEF Leave, notification
  <2>3. QED
    BY <2>1, <2>2 DEF Remembered, Queued
<1>19. CASE UNCHANGED vars
  BY <1>19 DEF vars, mode, notification, invalidation, refresh, Remembered, Queued, FlushAsked, Exiting, ModeShape, TypeOK, ModeOK, NotificationOK, InvalidationOK, RefreshOK, StageOK, Stages, ModeStages
<1>20. QED
  BY <1>1, <1>2, <1>3, <1>4, <1>5, <1>6, <1>7, <1>8, <1>9, <1>10, <1>11, <1>12, <1>13, <1>14, <1>15, <1>16, <1>17, <1>18, <1>19 DEF Next, Step, ModeStep

\* The invariant holds in the initial states.
LEMMA InitNotification == Init => NotificationInv
<1> USE Threads
<1> SUFFICES ASSUME Init PROVE NotificationInv
  OBVIOUS
<1>1. TypeOK
  <2>1. StageOK
    BY DEF Init, StageOK, Stages, ModeStages
  <2>2. ModeOK
    <3>1. active \in BOOLEAN /\ owners \subseteq Session
      BY DEF Init
    <3>2. requests = <<>>
      BY DEF Init
    <3>3. requests \in Seq(Request)
      BY <3>2
    <3>4. session \in [Session -> {"out", "in", "gone"}]
      BY DEF Init
    <3>5. QED
      BY <3>1, <3>3, <3>4 DEF ModeOK
  <2>3. NotificationOK /\ InvalidationOK
    BY DEF Init, NotificationOK, InvalidationOK
  <2>4. RefreshOK
    BY DEF Init, RefreshOK
  <2>5. QED
    BY <2>1, <2>2, <2>3, <2>4 DEF TypeOK
<1>2. ModeShape /\ Generations /\ ExitCovers
  BY DEF Init, ModeShape, Exiting, Generations, ExitCovers, Queued
<1>3. Remembered
  BY DEF Init, Remembered, Queued
<1>4. QED
  BY <1>1, <1>2, <1>3 DEF NotificationInv

\* Types, the modes and their owners, the generations and what is remembered stay
\* consistent whatever the changes, the sessions and the failures
\* (_triggerDatabaseUpdated, _setDictionaryImportMode).
THEOREM NotificationInvariant == Spec => []NotificationInv
<1>1. Init => NotificationInv
  BY InitNotification
<1>2. NotificationInv /\ [Next]_vars => NotificationInv'
  BY TypeStep, ShapeStep, GenerationsStep, ExitCoversStep, RememberedStep DEF NotificationInv
<1>3. QED
  BY <1>1, <1>2, PTL DEF Spec

\* What could not be announced is remembered, and something will take it up again
\* (_scheduleDictionaryRefreshRetry and its callers).
THEOREM ObligationIsKept == Spec => []ObligationKept
<1>1. NotificationInv => ObligationKept
  <2> SUFFICES ASSUME NotificationInv PROVE ObligationKept
    OBVIOUS
  <2>1. FlushAsked => requests # <<>>
    BY DEF FlushAsked
  <2>2. QED
    BY <2>1 DEF NotificationInv, Remembered, ObligationKept
<1>2. QED
  BY <1>1, NotificationInvariant, PTL

\* Nothing is announced while caches that were there at its time may still be used
\* (_flushDictionaryCacheInvalidation).
THEOREM AnnouncedIsInvalidated == Spec => []InvalidatedFirst
<1>1. NotificationInv => InvalidatedFirst
  BY DEF NotificationInv, Generations, InvalidatedFirst
<1>2. QED
  BY <1>1, NotificationInvariant, PTL

=============================================================================
