------------------------- MODULE UpdateNotification -------------------------
(***************************************************************************)
(* How the background page announces changes of the dictionaries: import     *)
(* mode, invalidation of caches, refresh of the connection, retries.         *)
(*                                                                          *)
(* A change is announced to all pages when the caches have been invalidated  *)
(* and the connection refreshed.  What cannot be announced now, as an import *)
(* session is active or a step has failed, is left to the next exit from     *)
(* import mode, which a timer repeats until it succeeds.                     *)
(***************************************************************************)
EXTENDS Naturals, Sequences

CONSTANTS
    Change,     \* changes of the dictionaries
    Kind,       \* the kind of each
    Session,    \* import sessions
    By,         \* the session that owns an import
    None,       \* no session, no thread
    MaxFaults   \* bound: how many steps fail

Kinds == {"import",     \* a published import
          "update",     \* any other change that a page or a purge announces
          "mutation"}   \* a deletion or replacement which a page announces later

\* The transition of the import mode that is under way runs beside the changes.
Mode == "mode"
Thread == Change \cup {Mode}

ASSUME KindAssumption == Kind \in [Change -> Kinds]
ASSUME SessionAssumption == By \in [Change -> Session \cup {None}] /\ None \notin Session
ASSUME ThreadAssumption == Mode \notin Change /\ None \notin Thread
ASSUME BoundAssumption == MaxFaults \in Nat

VARIABLES
    stage,      \* how far each thread is
    active,     \* _dictionaryImportModeActive
    owners,     \* _dictionaryImportOwners
    session,    \* out, in or gone: the connection of each session
    requests,   \* calls of _setDictionaryImportMode that wait for their turn
    deferred,   \* _deferredDictionaryRefreshDuringImport
    pending,    \* the cause in _pendingDatabaseUpdatedNotifications, or none
    queuedGen,  \* _databaseUpdatedNotificationGeneration
    exit,       \* what an exit has read: hadDeferred, canReuseActiveImportConnection and the generation
    wantedGen,  \* _dictionaryCacheInvalidationGeneration
    doneGen,    \* _dictionaryCacheInvalidationCompletedGeneration
    clearing,   \* generation read by _flushDictionaryCacheInvalidation
    refresher,  \* the thread whose refresh is _dictionaryRefreshPromise
    again,      \* _dictionaryRefreshQueued
    armed,      \* _dictionaryRefreshRetryTimer # null
    faults,
    need,       \* history: the invalidation that a change has to wait for
    cleared,    \* history: the last generation whose caches are gone
    covered,    \* history: the changes there when the refresh began
    visible     \* history: the changes that a refresh has made visible

mode == <<active, owners, session, requests>>
notification == <<deferred, pending, queuedGen>>
invalidation == <<wantedGen, doneGen, clearing, need, cleared>>
refresh == <<refresher, again, covered, visible>>
vars == <<stage, mode, notification, exit, invalidation, refresh, armed, faults>>

Init ==
    /\ stage = [t \in Thread |-> "idle"]
    /\ active = FALSE /\ owners = {} /\ requests = <<>>
    /\ session = [s \in Session |-> "out"]
    /\ deferred = FALSE /\ pending = "none" /\ queuedGen = 0
    /\ exit = [had |-> FALSE, reuse |-> FALSE, gen |-> 0]
    /\ wantedGen = 0 /\ doneGen = 0 /\ clearing = [t \in Thread |-> 0]
    /\ refresher = None /\ again = FALSE /\ armed = FALSE /\ faults = 0
    /\ need = [c \in Change |-> 0] /\ cleared = 0
    /\ covered = {} /\ visible = {}

Larger(a, b) == IF a > b THEN a ELSE b
Cause(c) == IF Kind[c] = "import" THEN "import" ELSE "other"
Fault == faults < MaxFaults /\ faults' = faults + 1
NoFault == UNCHANGED faults

\* The changes whose announcement rests on the pending notification.
Queued == {c \in Change : stage[c] = "queued"}
HasDeferred == deferred \/ pending # "none"
Issued == {c \in Change : stage[c] # "idle"}

\* Mutant: the timer is left as it is.
MutRearm == UNCHANGED armed

\* _scheduleDictionaryRefreshRetry
Rearm == armed' = TRUE

\* _queueDeferredDatabaseUpdatedNotification: one entry, with the last cause.
QueueNotification(cause) == pending' = cause /\ queuedGen' = queuedGen + 1

-------------------------------------------------------------------------------
(* _refreshDictionaryDatabaseAfterUpdate, outside import mode, by thread t *)

Adopt(t) ==
    /\ stage' = [stage EXCEPT ![t] = "refreshed"]
    /\ visible' = visible \cup Issued \cup ({t} \cap Change)
    /\ UNCHANGED <<refresher, again, covered>>

Reload(t) ==
    IF refresher = None
    THEN /\ refresher' = t /\ covered' = Issued \cup ({t} \cap Change)
         /\ stage' = [stage EXCEPT ![t] = "refreshing"]
         /\ UNCHANGED <<again, visible>>
    ELSE /\ again' = TRUE
         /\ stage' = [stage EXCEPT ![t] = "waiting"]
         /\ UNCHANGED <<refresher, covered, visible>>

Refresh(t, reuse) ==
    \/ reuse /\ Adopt(t) /\ NoFault
    \/ reuse /\ Reload(t) /\ Fault
    \/ ~reuse /\ Reload(t) /\ NoFault

\* refreshConnection settles.  Whoever has waited for it goes on; a refresh asked
\* for meanwhile is run by the one who ran this one, unless it has failed.
ReloadEnds ==
    /\ refresher # None
    /\ LET waiting == {t \in Thread : stage[t] = "waiting"}
           Move(T, to) == stage' = [t \in Thread |-> IF t \in T THEN to ELSE stage[t]]
       IN  \/ /\ visible' = visible \cup covered /\ NoFault
              /\ IF again
                 THEN Move(waiting, "refreshed") /\ covered' = Issued /\ UNCHANGED refresher
                 ELSE Move(waiting \cup {refresher}, "refreshed")
                      /\ refresher' = None /\ UNCHANGED covered
           \/ /\ Fault /\ Move(waiting \cup {refresher}, "failed")
              /\ refresher' = None /\ UNCHANGED <<covered, visible>>
    /\ again' = FALSE
    /\ UNCHANGED <<mode, notification, exit, invalidation, armed>>

-------------------------------------------------------------------------------
(* _triggerDatabaseUpdated *)

\* The caches are up to date.
Proceed(c) ==
    IF active
    THEN /\ deferred' = TRUE /\ QueueNotification(Cause(c))
         /\ stage' = [stage EXCEPT ![c] = "queued"]
         /\ UNCHANGED <<refresh, faults>>
    ELSE Refresh(c, Kind[c] = "import") /\ UNCHANGED notification

Trigger(c) ==
    /\ stage[c] = "idle" /\ Kind[c] # "mutation"
    /\ wantedGen' = IF Kind[c] = "import" THEN wantedGen ELSE wantedGen + 1
    /\ need' = [need EXCEPT ![c] = wantedGen']
    /\ IF wantedGen' > doneGen
       THEN /\ stage' = [stage EXCEPT ![c] = "clearing"]
            /\ clearing' = [clearing EXCEPT ![c] = wantedGen']
            /\ UNCHANGED <<notification, refresh, faults>>
       ELSE Proceed(c) /\ UNCHANGED clearing
    /\ UNCHANGED <<mode, exit, doneGen, cleared, armed>>

\* Mutant: the generation is read when the caches have been cleared.
MutCompleted(t) == wantedGen

\* The generation that a successful _flushDictionaryCacheInvalidation acknowledges.
Completed(t) == clearing[t]

\* The caches have been cleared, or not.
ClearEnds(t) ==
    /\ stage[t] = "clearing"
    /\ \/ /\ doneGen' = Larger(doneGen, Completed(t))
          /\ cleared' = Larger(cleared, clearing[t])
          /\ IF t = Mode
             THEN Refresh(t, exit.reuse) /\ UNCHANGED notification
             ELSE Proceed(t)
       \/ /\ Fault /\ stage' = [stage EXCEPT ![t] = "failed"]
          /\ UNCHANGED <<notification, refresh, doneGen, cleared>>
    /\ UNCHANGED <<mode, exit, wantedGen, clearing, need, armed>>

\* _sendApplicationDatabaseUpdated.  A mutation is announced by its page.
Announce(c) ==
    /\ stage[c] = "refreshed"
    /\ stage' = [stage EXCEPT ![c] = IF Kind[c] = "mutation" THEN "ended" ELSE "announced"]
    /\ UNCHANGED <<mode, notification, exit, invalidation, refresh, armed, faults>>

\* The catch: the obligation is kept.
Retain(c) ==
    /\ stage[c] = "failed"
    /\ deferred' = TRUE /\ QueueNotification(Cause(c)) /\ Rearm
    /\ IF Kind[c] = "mutation"
       THEN wantedGen' = wantedGen + 1 /\ need' = [need EXCEPT ![c] = wantedGen + 1]
       ELSE UNCHANGED <<wantedGen, need>>
    /\ stage' = [stage EXCEPT ![c] = "queued"]
    /\ UNCHANGED <<mode, exit, doneGen, clearing, cleared, refresh, faults>>

\* _refreshDictionaryDatabaseAfterCommittedMutation; mutations run one at a time.
Mutate(c) ==
    /\ stage[c] = "idle" /\ Kind[c] = "mutation"
    /\ \A d \in Change : Kind[d] = "mutation" => stage[d] \in {"idle", "queued", "announced", "ended"}
    /\ IF active
       THEN /\ deferred' = TRUE /\ stage' = [stage EXCEPT ![c] = "ended"]
            /\ UNCHANGED <<pending, queuedGen, refresh, faults>>
       ELSE Refresh(c, FALSE) /\ UNCHANGED notification
    /\ UNCHANGED <<mode, exit, invalidation, armed>>

\* _completeOwnedDictionaryImport: while its session is there the backend owes it the
\* announcement (_dictionaryImportOwnerPublications).
Owe(c) ==
    /\ stage[c] = "idle" /\ Kind[c] = "import" /\ By[c] \in owners
    /\ stage' = [stage EXCEPT ![c] = "owed"]
    /\ UNCHANGED <<mode, notification, exit, invalidation, refresh, armed, faults>>

-------------------------------------------------------------------------------
(* _setDictionaryImportMode *)

Ask(what, s) == requests' = Append(requests, [what |-> what, session |-> s])

\* A page opens a session and ends it, or disappears.
Join(s) ==
    /\ session[s] = "out" /\ session' = [session EXCEPT ![s] = "in"] /\ Ask("enter", s)
    /\ UNCHANGED <<stage, active, owners, notification, exit, invalidation, refresh, armed, faults>>

Leave(s) ==
    /\ session[s] = "in" /\ session' = [session EXCEPT ![s] = "gone"] /\ Ask("release", s)
    /\ UNCHANGED <<stage, active, owners, notification, exit, invalidation, refresh, armed, faults>>

\* The timer of _scheduleDictionaryRefreshRetry; in import mode it is set again.
TimerFires ==
    /\ armed /\ ~active /\ armed' = FALSE /\ Ask("flush", None)
    /\ UNCHANGED <<stage, active, owners, session, notification, exit, invalidation, refresh, faults>>

\* _flushPendingDictionaryRefreshBeforeLookup
Lookup ==
    /\ ~active /\ stage[Mode] = "idle" /\ requests = <<>> /\ HasDeferred
    /\ Ask("flush", None)
    /\ UNCHANGED <<stage, active, owners, session, notification, exit, invalidation, refresh, armed, faults>>

Go(to) == stage' = [stage EXCEPT ![Mode] = to]

\* Leave import mode, unless there is nothing to do.
BeginExit ==
    IF ~active /\ ~HasDeferred
    THEN Go("idle") /\ UNCHANGED <<active, exit>>
    ELSE active' = FALSE /\ exit' = [exit EXCEPT !.had = HasDeferred] /\ Go("opening")

Enter(s) ==
    /\ owners' = owners \cup {s} /\ active' = TRUE
    /\ Go(IF active THEN "idle" ELSE "entering")
    /\ UNCHANGED <<notification, exit>>

\* Mutant: what was owed goes with the session.
MutOwed(s) == {}

\* _dictionaryImportOwnerPublications of session s
Owed(s) == {c \in Change : stage[c] = "owed" /\ By[c] = s}

\* The announcements owed to a session are queued; its operations are cancelled.
Release(s) ==
    LET owed == Owed(s) IN
    /\ owners' = owners \ {s}
    /\ IF owed # {}
       THEN deferred' = TRUE /\ QueueNotification("import")
       ELSE UNCHANGED notification
    /\ stage' = [t \in Thread |-> IF t \in owed THEN "queued"
                                  ELSE IF t = Mode THEN "cancelling" ELSE stage[t]]
    /\ UNCHANGED <<active, exit>>

\* The next transition, when the last one has ended.
Transition ==
    /\ stage[Mode] = "idle" /\ requests # <<>>
    /\ requests' = Tail(requests)
    /\ LET r == Head(requests) IN
         \/ r.what = "enter" /\ Enter(r.session)
         \/ r.what = "release" /\ r.session \in owners /\ Release(r.session)
         \/ r.what = "flush" /\ owners = {} /\ BeginExit /\ UNCHANGED <<owners, notification>>
         \/ /\ \/ r.what = "release" /\ r.session \notin owners
               \/ r.what = "flush" /\ owners # {}
            /\ UNCHANGED <<stage, active, owners, exit, notification>>
    /\ UNCHANGED <<session, invalidation, refresh, armed, faults>>

Entered ==
    /\ stage[Mode] = "entering" /\ Go("idle")
    /\ UNCHANGED <<mode, notification, exit, invalidation, refresh, armed, faults>>

CancelEnds ==
    /\ stage[Mode] = "cancelling"
    /\ IF owners = {} THEN BeginExit ELSE Go("idle") /\ UNCHANGED <<active, exit>>
    /\ UNCHANGED <<owners, session, requests, notification, invalidation, refresh, armed, faults>>

\* _ensureDictionaryDatabaseReady settles.
Opened ==
    /\ stage[Mode] = "opening"
    /\ \/ /\ deferred' = FALSE /\ UNCHANGED <<pending, queuedGen>>
          /\ exit' = [exit EXCEPT !.gen = queuedGen, !.reuse = (pending = "import")]
          /\ IF wantedGen > doneGen
             THEN /\ Go("clearing") /\ clearing' = [clearing EXCEPT ![Mode] = wantedGen]
                  /\ UNCHANGED <<refresh, faults>>
             ELSE Refresh(Mode, exit'.reuse) /\ UNCHANGED clearing
       \/ /\ Fault /\ Go("failed")
          /\ UNCHANGED <<notification, exit, clearing, refresh>>
    /\ UNCHANGED <<mode, wantedGen, doneGen, need, cleared, armed>>

ExitFails ==
    /\ stage[Mode] = "failed" /\ Go("idle")
    /\ deferred' = (deferred \/ exit.had \/ pending # "none") /\ Rearm
    /\ UNCHANGED <<mode, pending, queuedGen, exit, invalidation, refresh, faults>>

\* Nothing has been queued since the refresh was prepared.
UpToDate == queuedGen = exit.gen

ExitEnds ==
    /\ stage[Mode] = "refreshed"
    /\ IF UpToDate
       THEN /\ stage' = [t \in Thread |-> IF t \in Queued THEN "announced"
                                          ELSE IF t = Mode THEN "idle" ELSE stage[t]]
            /\ pending' = "none" /\ armed' = FALSE /\ UNCHANGED <<deferred, queuedGen>>
       ELSE /\ Go("idle")
            /\ deferred' = TRUE /\ Rearm /\ UNCHANGED <<pending, queuedGen>>
    /\ UNCHANGED <<mode, exit, invalidation, refresh, faults>>

-------------------------------------------------------------------------------

\* Steps of the code that is running.
Step(c) == ClearEnds(c) \/ Announce(c) \/ Retain(c)
ModeStep == Transition \/ Entered \/ CancelEnds \/ Opened \/ ClearEnds(Mode) \/ ExitFails \/ ExitEnds

Next ==
    \/ \E c \in Change : Trigger(c) \/ Mutate(c) \/ Owe(c) \/ Step(c)
    \/ ReloadEnds \/ ModeStep \/ TimerFires \/ Lookup
    \/ \E s \in Session : Join(s) \/ Leave(s)

Spec == Init /\ [][Next]_vars

\* Calls settle, the timer fires, and pages that import go away in the end.
FairSpec ==
    /\ Spec
    /\ \A c \in Change : WF_vars(Step(c))
    /\ WF_vars(ReloadEnds) /\ WF_vars(ModeStep) /\ WF_vars(TimerFires)
    /\ \A s \in Session : WF_vars(Leave(s))

-------------------------------------------------------------------------------
(* Properties *)

Stages == {"idle", "owed", "clearing", "refreshing", "waiting", "refreshed",
           "failed", "queued", "announced", "ended"}
ModeStages == {"idle", "entering", "cancelling", "opening", "clearing", "refreshing",
               "waiting", "refreshed", "failed"}
Request == [what : {"enter", "release"}, session : Session] \cup [what : {"flush"}, session : {None}]

StageOK ==
    /\ stage \in [Thread -> Stages \cup ModeStages]
    /\ stage[Mode] \in ModeStages /\ \A c \in Change : stage[c] \in Stages
ModeOK ==
    /\ active \in BOOLEAN /\ owners \subseteq Session
    /\ session \in [Session -> {"out", "in", "gone"}] /\ requests \in Seq(Request)
NotificationOK ==
    /\ deferred \in BOOLEAN /\ pending \in {"none", "import", "other"} /\ queuedGen \in Nat
    /\ exit \in [had : BOOLEAN, reuse : BOOLEAN, gen : Nat]
InvalidationOK ==
    /\ wantedGen \in Nat /\ doneGen \in Nat /\ clearing \in [Thread -> Nat]
    /\ need \in [Change -> Nat] /\ cleared \in Nat
RefreshOK ==
    /\ refresher \in Thread \cup {None} /\ again \in BOOLEAN
    /\ covered \subseteq Change /\ visible \subseteq Change
    /\ armed \in BOOLEAN /\ faults \in Nat
TypeOK == StageOK /\ ModeOK /\ NotificationOK /\ InvalidationOK /\ RefreshOK

FlushAsked == \E n \in DOMAIN requests : requests[n].what = "flush"
Exiting == {"opening", "clearing", "refreshing", "waiting", "refreshed", "failed"}

\* Import mode, its owners and the transition agree, and so do the thread that
\* refreshes and its stage.
ModeShape ==
    /\ (owners # {} \/ stage[Mode] = "entering") => active
    /\ stage[Mode] \in Exiting => ~active
    /\ refresher # None => stage[refresher] = "refreshing"

\* What is queued is remembered, and an import session, the timer, a request or a
\* transition under way will take it up.
Remembered ==
    /\ Queued # {} <=> pending # "none"
    /\ Queued # {} => active \/ armed \/ FlushAsked \/ stage[Mode] # "idle"

\* Which generation each change has to wait for, and how far invalidation has come.
Generations ==
    /\ doneGen = cleared /\ cleared <= wantedGen /\ exit.gen <= queuedGen
    /\ \A t \in Thread : clearing[t] <= wantedGen
    /\ \A c \in Change :
         /\ need[c] <= wantedGen
         /\ stage[c] = "clearing" => need[c] <= clearing[c]
         /\ stage[c] \notin {"clearing", "failed", "queued"} => need[c] <= cleared

\* What an exit that is up to date announces at its end has been invalidated.
ExitCovers ==
    queuedGen = exit.gen =>
        /\ stage[Mode] = "clearing" => \A c \in Queued : need[c] <= clearing[Mode]
        /\ stage[Mode] \in {"refreshing", "waiting", "refreshed"} =>
             \A c \in Queued : need[c] <= cleared

NotificationInv == TypeOK /\ ModeShape /\ Remembered /\ Generations /\ ExitCovers

Settled(c) == stage[c] \in {"announced", "ended"}

\* A change that could not be announced is remembered as pending, and somebody is
\* bound to try again: a session that will end, the timer, or a transition
\* (_scheduleDictionaryRefreshRetry, the catch blocks of both callers).
ObligationKept ==
    /\ Queued # {} <=> pending # "none"
    /\ Queued # {} => active \/ armed \/ requests # <<>> \/ stage[Mode] # "idle"

\* No change is announced before the caches that were there at its time are gone,
\* whichever flush succeeded or failed meanwhile ("an older successful RPC cannot
\* acknowledge a newer failed one", _flushDictionaryCacheInvalidation).
InvalidatedFirst == \A c \in Change : stage[c] = "announced" => need[c] <= cleared

\* Nothing is under way that a lookup waits for (_awaitDictionaryRefreshSettled), and
\* nothing is left to be tried again.
Quiet ==
    /\ refresher = None /\ stage[Mode] = "idle" /\ requests = <<>>
    /\ ~HasDeferred /\ ~armed /\ \A t \in Thread : stage[t] # "failed"

\* When all is quiet, lookups see every change that was announced or acknowledged:
\* the refresh or its recovery is never lost
\* (_refreshDictionaryDatabaseAfterCommittedMutation).
RefreshRetained == Quiet => \A c \in Change : Settled(c) => c \in visible

\* Every change is announced in the end, whatever fails and whoever disappears.
EveryChangeAnnounced == \A c \in Change : stage[c] # "idle" ~> Settled(c)
=============================================================================
