------------------------- MODULE IndexRepairProofs -------------------------
(***************************************************************************)
(* That the store of lookup indexes keeps its invariant: repairs have the     *)
(* store for themselves and announce nothing that is not under way, lookups   *)
(* are answered from the containers in use, and dictionaries are condemned    *)
(* only for cause and pardoned only by the mutations that write them anew.    *)
(***************************************************************************)
EXTENDS IndexRepair, TLAPS

-------------------------------------------------------------------------------
(* What the operators of the store do *)

\* No call and no repair waits to resume.
LEMMA QuietFacts ==
    ASSUME Quiet
    PROVE  /\ \A c \in Call : phase[c] \notin {"resumed", "repaired", "unrepaired"}
           /\ \A c \in Call : phase[c] = "reloading" => load[c].at \notin {"yes", "no"}
           /\ \A d \in Dict : repair[d] # "rebuilt"
BY DEF Quiet, Resuming

\* Every loader is about a dictionary.
LEMMA OnDict ==
    /\ \A l \in Loader : On(l) \in Dict
    /\ \A c \in Call : c \in Loader /\ On(c) = Of[c]
    /\ \A d \in Dict : d \in Loader /\ On(d) = d
BY CallAssumption DEF On, Loader

\* Generations are stamps.
LEMMA StampTypes ==
    ASSUME TypeOK
    PROVE  /\ \A d \in Dict : Now(d) \in Stamp
           /\ \A s \in Stamp : After(s) \in Stamp /\ After(s) # s
BY DEF TypeOK, StoreType, Now, After, Stamp

\* The loads are states of loads.
LEMMA LoadTypes ==
    ASSUME TypeOK
    PROVE  /\ load \in [Loader -> LoadState]
           /\ NoLoad \in LoadState
           /\ \A r \in LoadState, at \in {"none", "open", "joined", "read", "yes", "no"} :
                  [r EXCEPT !.at = at] \in LoadState /\ [r EXCEPT !.at = at].at = at
BY DEF TypeOK, LoadType, LoadState, NoLoad, Stamp

\* A load that begins.
LEMMA StartedFacts ==
    ASSUME TypeOK, NEW l \in Loader, NEW d \in Dict, Started(l, d)
    PROVE  /\ load' \in [Loader -> LoadState]
           /\ \A k \in Loader \ {l} : load'[k] = load[k]
           /\ load'[l].at \in {"no", "yes", "open", "joined"}
           /\ load'[l].at = "open" =>
                  /\ ~Condemned(d) /\ served[d] = 0 /\ shard[d] # 0
                  /\ load'[l].stamp = Now(d) /\ load'[l].from = shard[d]
           /\ load'[l].at = "joined" => registered[d] # Nobody /\ load'[l].owner = registered[d]
           /\ registered' = registered \/ registered' = [registered EXCEPT ![d] = l]
           /\ failure' \in [Dict -> {"none", "transient", "lasting"}]
           /\ load'[l].at # "yes" => UNCHANGED status
           /\ load'[l].at = "yes" =>
                  /\ ~Condemned(d) /\ health' = [health EXCEPT ![d] = "available"]
                  /\ backoff' = backoff \ {d}
<1> DEFINE fresh == [at |-> IF registered[d] = Nobody THEN "open" ELSE "joined", stamp |-> Now(d),
                     from |-> shard[d], saw |-> "none", owner |-> registered[d]]
<1> DEFINE no == \/ health[d] = "reimportRequired"
                 \/ served[d] = 0 /\ registered[d] = Nobody /\ (~directory \/ shard[d] = 0)
<1> DEFINE new == IF no THEN [NoLoad EXCEPT !.at = "no"]
                  ELSE IF served[d] # 0 THEN [NoLoad EXCEPT !.at = "yes"] ELSE fresh
<1>1. load' = [load EXCEPT ![l] = new]
  BY DEF Started, Start
<1>2. fresh \in LoadState
  BY StampTypes DEF TypeOK, StoreType, LoadType, LoadState
<1>3. new \in LoadState
  BY <1>2, LoadTypes
<1>4. load' \in [Loader -> LoadState] /\ load'[l] = new /\ \A k \in Loader \ {l} : load'[k] = load[k]
  BY <1>1, <1>3, LoadTypes
<1>5. /\ no => new.at = "no"
      /\ ~no /\ served[d] # 0 => new.at = "yes"
      /\ ~no /\ served[d] = 0 => new = fresh
  BY LoadTypes
<1>6. /\ new.at \in {"no", "yes", "open", "joined"}
      /\ new.at = "open" =>
             /\ ~Condemned(d) /\ served[d] = 0 /\ shard[d] # 0
             /\ new.stamp = Now(d) /\ new.from = shard[d]
      /\ new.at = "joined" => registered[d] # Nobody /\ new.owner = registered[d]
      /\ new.at = "yes" => ~Condemned(d)
  BY <1>5 DEF Condemned
<1>7. registered' = registered \/ registered' = [registered EXCEPT ![d] = l]
  BY DEF Started
<1>8. failure' \in [Dict -> {"none", "transient", "lasting"}]
  BY DEF Started, TypeOK, StoreType
<1>9. /\ load'[l].at # "yes" => UNCHANGED status
      /\ load'[l].at = "yes" => health' = [health EXCEPT ![d] = "available"] /\ backoff' = backoff \ {d}
  BY DEF Started, Becomes
<1> QED
  BY <1>4, <1>6, <1>7, <1>8, <1>9

\* A load that ends: its waiters end with it, as they began, for the same dictionary.
LEMMA EndedFacts ==
    ASSUME StoreInv, NEW l \in Loader, NEW at \in {"yes", "no"}, Ended(l, at)
    PROVE  /\ load' \in [Loader -> LoadState]
           /\ load'[l].at = at
           /\ \A k \in Loader : load'[k] = load[k] \/ (load'[k].at = at /\ On(k) = On(l))
<1>1. \A k \in Loader : load[k].at = "joined" /\ load[k].owner = l => On(k) = On(l)
  BY DEF StoreInv, LoadShape
<1>2. TypeOK
  BY DEF StoreInv
<1>3. [NoLoad EXCEPT !.at = at] \in LoadState /\ [NoLoad EXCEPT !.at = at].at = at
  BY <1>2, LoadTypes
<1>4. load' \in [Loader -> LoadState]
  BY <1>2, <1>3, LoadTypes DEF Ended
<1>5. load'[l].at = at
  BY <1>3 DEF Ended
<1>6. \A k \in Loader : load'[k] = load[k] \/ (load'[k].at = at /\ On(k) = On(l))
  BY <1>1, <1>3 DEF Ended
<1> QED
  BY <1>4, <1>5, <1>6

\* A dictionary whose lookups are invalidated.
LEMMA InvalidateFacts ==
    ASSUME TypeOK, NEW D, D \subseteq Dict, Invalidate(D)
    PROVE  /\ epoch' = epoch /\ gen' \in [Dict -> Nat] /\ served' \in [Dict -> Nat]
           /\ failure' \in [Dict -> {"none", "transient", "lasting"}]
           /\ registered' \in [Dict -> Loader \cup {Nobody}]
           /\ \A d \in Dict \ D : Now(d)' = Now(d) /\ gen'[d] = gen[d] /\ served'[d] = served[d]
           /\ \A d \in D : Now(d)' = After(Now(d)) /\ gen'[d] = gen[d] + 1 /\ served'[d] = 0
           /\ \A d \in Dict : registered'[d] \in {registered[d], Nobody}
BY DEF Invalidate, TypeOK, StoreType, LoadType, Now, After

\* A repair that settles leaves its place in the order to the next one, and tells the
\* calls that wait for it.
LEMMA SettlesFacts ==
    ASSUME StoreInv, NEW d \in Dict, NEW ok \in BOOLEAN, NEW stamp, NEW h \in Health,
           repair[d] # "none", Head(tail) = d, Settles(d, ok, stamp, h)
    PROVE  /\ RepairType' /\ CallType' /\ health' \in [Dict -> Health]
           /\ repair' = [repair EXCEPT ![d] = "none"]
           /\ \A e \in Dict \ {d} :
                  /\ repair[e] \in {"none", "queued"} /\ health'[e] = health[e]
                  /\ (\E i \in DOMAIN tail : tail[i] = e) => \E i \in DOMAIN tail' : tail'[i] = e
           /\ cancelled' = cancelled \ {d}
           /\ health'[d] \in {h, "repairPending"}
           /\ h = "reimportRequired" => health'[d] = h
           /\ d \in cancelled /\ stamp = Now(d) /\ h # "reimportRequired" => health'[d] = "repairPending"
           /\ \A c \in Call : \/ phase'[c] = phase[c] /\ (phase[c] = "repairing" => Of[c] # d)
                              \/ /\ Of[c] = d /\ phase[c] = "awaiting" /\ phase'[c] = "resumed"
                              \/ /\ Of[c] = d /\ phase[c] = "repairing"
                                 /\ phase'[c] = IF ok THEN "repaired" ELSE "unrepaired"
           /\ UNCHANGED <<begun, reload, seen>>
<1>1. tail \in Seq(Dict) /\ tail # <<>> /\ tail' = Tail(tail)
  BY DEF StoreInv, TypeOK, RepairType, RepairShape, Settles
<1>2. tail' \in Seq(Dict)
  BY <1>1
<1>3. ASSUME NEW e \in Dict \ {d}, NEW i \in DOMAIN tail, tail[i] = e
      PROVE  \E j \in DOMAIN tail' : tail'[j] = e
  <2>1. tail[1] = d /\ i # 1 /\ i \in 1..Len(tail)
    BY <1>1, <1>3
  <2>2. i - 1 \in DOMAIN tail' /\ tail'[i - 1] = tail[i]
    BY <1>1, <2>1
  <2> QED
    BY <1>3, <2>2
<1>4. repair' = [repair EXCEPT ![d] = "none"] /\ cancelled' = cancelled \ {d} /\ UNCHANGED <<begun, reload, seen>>
  BY DEF Settles
<1>5. RepairType'
  BY <1>2, <1>4 DEF RepairType, StoreInv, TypeOK
<1>6. CallType'
  BY DEF CallType, StoreInv, TypeOK, Settles
<1>7. /\ health' \in [Dict -> Health] /\ \A e \in Dict \ {d} : health'[e] = health[e]
      /\ health'[d] \in {h, "repairPending"}
      /\ h = "reimportRequired" => health'[d] = h
      /\ d \in cancelled /\ stamp = Now(d) /\ h # "reimportRequired" => health'[d] = "repairPending"
  BY DEF Settles, StoreInv, TypeOK, StoreType, Health
<1>8. \A e \in Dict \ {d} : repair[e] \in {"none", "queued"}
  BY DEF StoreInv, TypeOK, RepairType, RepairShape, Repairing, Rebuilding
<1>9. \A c \in Call : \/ phase'[c] = phase[c] /\ (phase[c] = "repairing" => Of[c] # d)
                      \/ /\ Of[c] = d /\ phase[c] = "awaiting" /\ phase'[c] = "resumed"
                      \/ /\ Of[c] = d /\ phase[c] = "repairing"
                         /\ phase'[c] = IF ok THEN "repaired" ELSE "unrepaired"
  BY DEF Settles
<1> QED
  BY <1>3, <1>4, <1>5, <1>6, <1>7, <1>8, <1>9

\* No generation that was over becomes the present one again, so a load that may still
\* publish is of the container in use, whatever was invalidated meanwhile.
LEMMA LoadsKept ==
    ASSUME StoreInv, NEW D \in SUBSET Dict, epoch' = epoch,
           \A d \in D : gen'[d] = gen[d] + 1,
           \A d \in Dict \ D : gen'[d] = gen[d] /\ shard'[d] = shard[d] /\ (d \in deleting' => d \in deleting),
           \A d \in Dict : registered'[d] \in {registered[d], Nobody},
           \A l \in Loader : load'[l] = load[l] \/ load'[l].at \in {"none", "yes", "no"},
           \A c \in Call : phase'[c] = "repaired" => Of[c] \notin deleting'
    PROVE  LoadShape'
<1>1. ASSUME NEW d \in Dict, registered'[d] # Nobody PROVE On(registered'[d]) = d
  BY <1>1 DEF StoreInv, LoadShape
<1>2. ASSUME NEW l \in Loader, load'[l].at = "joined"
      PROVE  load'[l].owner \in Loader /\ On(load'[l].owner) = On(l)
  BY <1>2 DEF StoreInv, LoadShape
<1>3. ASSUME NEW l \in Loader, load'[l].at \in {"open", "read"}
      PROVE  /\ load'[l].stamp[1] <= epoch'
             /\ load'[l].stamp[1] = epoch' => load'[l].stamp[2] <= gen'[On(l)]
             /\ load'[l].stamp = Now(On(l))' =>
                    load'[l].from = shard'[On(l)] /\ shard'[On(l)] # 0 /\ On(l) \notin deleting'
  <2> DEFINE d == On(l)
  <2>1. d \in Dict /\ load'[l] = load[l] /\ load[l].at \in {"open", "read"}
    BY <1>3, OnDict
  <2>2. /\ load[l].stamp[1] <= epoch /\ (load[l].stamp[1] = epoch => load[l].stamp[2] <= gen[d])
        /\ load[l].stamp = Now(d) => load[l].from = shard[d] /\ shard[d] # 0 /\ d \notin deleting
    BY <2>1 DEF StoreInv, LoadShape
  <2>3. load[l].stamp \in Nat \X Nat /\ epoch \in Nat /\ gen[d] \in Nat
    BY <2>1, LoadTypes DEF StoreInv, TypeOK, StoreType, LoadState, Stamp
  <2>4. CASE d \in D
    <3>1. gen'[d] = gen[d] + 1
      BY <2>4
    <3>2. load[l].stamp[1] = epoch => load[l].stamp[2] < gen'[d]
      BY <2>2, <2>3, <3>1
    <3>3. load[l].stamp # Now(d)'
      BY <2>3, <3>1, <3>2 DEF Now
    <3> QED
      BY <2>1, <2>2, <2>3, <3>2, <3>3
  <2>5. CASE d \notin D
    BY <2>1, <2>2, <2>5 DEF Now
  <2> QED
    BY <2>4, <2>5
<1> QED
  BY <1>1, <1>2, <1>3 DEF LoadShape

\* A load that begins is of the container in use, or waits for one of the same dictionary.
LEMMA StartedLoads ==
    ASSUME StoreInv, NEW l \in Loader, NEW d \in Dict, On(l) = d, Started(l, d), d \notin deleting,
           UNCHANGED <<shard, deleting, epoch, gen>>,
           \A c \in Call : phase'[c] = "repaired" => phase[c] = "repaired"
    PROVE  LoadType' /\ LoadShape'
<1>1. TypeOK
  BY DEF StoreInv
<1>2. /\ load' \in [Loader -> LoadState]
      /\ \A k \in Loader \ {l} : load'[k] = load[k]
      /\ load'[l].at = "open" => shard[d] # 0 /\ load'[l].stamp = Now(d) /\ load'[l].from = shard[d]
      /\ load'[l].at = "joined" => registered[d] # Nobody /\ load'[l].owner = registered[d]
      /\ load'[l].at # "read"
      /\ registered' = registered \/ registered' = [registered EXCEPT ![d] = l]
  BY <1>1, StartedFacts
<1>3. LoadType'
  BY <1>1, <1>2 DEF TypeOK, LoadType
<1>4. \A e \in Dict : registered'[e] # Nobody => On(registered'[e]) = e
  BY <1>2 DEF StoreInv, TypeOK, LoadType, LoadShape
<1>5. \A k \in Loader : load'[k].at = "joined" => load'[k].owner \in Loader /\ On(load'[k].owner) = On(k)
  BY <1>1, <1>2 DEF StoreInv, TypeOK, LoadType, LoadShape
<1>6. ASSUME NEW k \in Loader, load'[k].at \in {"open", "read"}
      PROVE  /\ load'[k].stamp[1] <= epoch
             /\ load'[k].stamp[1] = epoch => load'[k].stamp[2] <= gen[On(k)]
             /\ load'[k].stamp = Now(On(k)) =>
                    load'[k].from = shard[On(k)] /\ shard[On(k)] # 0 /\ On(k) \notin deleting
  <2>1. CASE k = l
    <3>1. epoch \in Nat /\ gen[d] \in Nat
      BY <1>1 DEF TypeOK, StoreType
    <3> QED
      BY <1>2, <1>6, <2>1, <3>1 DEF Now
  <2>2. CASE k # l
    BY <1>2, <1>6, <2>2 DEF StoreInv, LoadShape
  <2> QED
    BY <2>1, <2>2
<1>7. \A c \in Call : phase'[c] = "repaired" => Of[c] \notin deleting
  BY DEF StoreInv, LoadShape
<1>8. \A e \in Dict : Now(e)' = Now(e)
  BY DEF Now
<1> QED
  BY <1>3, <1>4, <1>5, <1>6, <1>7, <1>8, OnDict DEF LoadShape

\* A repair that settles disturbs no other one, nor what these and the mutations count on.
LEMMA SettledRepairs ==
    ASSUME StoreInv, NEW d \in Dict, NEW ok \in BOOLEAN, NEW stamp, NEW h \in Health,
           repair[d] # "none", Head(tail) = d, Settles(d, ok, stamp, h),
           UNCHANGED <<files, owners, epoch, turns, clashed>>,
           \A e \in Dict \ {d} : gen'[e] = gen[e],
           \A c \in Call : load'[c] = load[c],
           health'[d] # "repairing" \/ TakenOver(d)'
    PROVE  /\ RepairsAlone' /\ QueueShape' /\ SessionShape' /\ RepairShape' /\ RepairsHeld'
           /\ \A c \in Call : phase'[c] = "repaired" => Of[c] \notin deleting'
<1>1. ~importing /\ stage \in {"none", "draining"} /\ d \notin deleting
  BY DEF StoreInv, RepairsAlone, RepairShape
<1>2. RepairsAlone' /\ QueueShape' /\ SessionShape'
  BY <1>1 DEF StoreInv, RepairsAlone, QueueShape, SessionShape, Queued, files, owners, turns
<1>3. /\ repair' = [repair EXCEPT ![d] = "none"]
      /\ \A e \in Dict \ {d} :
             /\ repair[e] \in {"none", "queued"} /\ health'[e] = health[e]
             /\ (\E i \in DOMAIN tail : tail[i] = e) => \E i \in DOMAIN tail' : tail'[i] = e
      /\ cancelled' = cancelled \ {d}
      /\ \A c \in Call : \/ phase'[c] = phase[c] /\ (phase[c] = "repairing" => Of[c] # d)
                         \/ /\ Of[c] = d /\ phase[c] = "awaiting" /\ phase'[c] = "resumed"
                         \/ /\ Of[c] = d /\ phase[c] = "repairing"
                            /\ phase'[c] = IF ok THEN "repaired" ELSE "unrepaired"
      /\ UNCHANGED <<begun, reload, seen>>
  BY SettlesFacts
<1>4. repair \in [Dict -> {"none", "queued", "reading", "writing", "closing", "closed", "rebuilt", "loading"}]
  BY DEF StoreInv, TypeOK, RepairType
<1>5. \A e \in Dict \ {d} : Now(e)' = Now(e) /\ Condemned(e)' = Condemned(e)
  BY <1>3 DEF Now, Condemned
<1>6. ASSUME NEW e \in Dict, repair'[e] # "none"
      PROVE  /\ e # d /\ repair'[e] = "queued" /\ repair[e] = "queued"
             /\ \E i \in DOMAIN tail' : tail'[i] = e
             /\ e \notin deleting'
             /\ stage' = "draining" => e \in cancelled'
             /\ begun'[e] = Now(e)' \/ Condemned(e)'
             /\ e \in reload' \/ \E c \in Call : Of[c] = e /\ phase'[c] = "repairing" /\ seen'[c] = begun'[e]
  <2>1. e # d /\ repair'[e] = "queued" /\ repair[e] = "queued"
    BY <1>3, <1>4, <1>6
  <2>2. /\ \E i \in DOMAIN tail : tail[i] = e
        /\ e \notin deleting /\ (stage = "draining" => e \in cancelled)
        /\ begun[e] = Now(e) \/ Condemned(e)
        /\ e \in reload \/ \E c \in Call : Of[c] = e /\ phase[c] = "repairing" /\ seen[c] = begun[e]
    BY <2>1 DEF StoreInv, RepairShape
  <2>3. \A c \in Call : Of[c] = e => phase'[c] = phase[c]
    BY <1>3, <2>1
  <2> QED
    BY <1>3, <1>5, <2>1, <2>2, <2>3 DEF owners, turns
<1>7. RepairShape'
  BY <1>6 DEF RepairShape, Repairing, Rebuilding
<1>8. ASSUME NEW e \in Dict, e # d, health'[e] = "repairing", ~Abandoned(e)'
      PROVE  e \in session' \/ TakenOver(e)'
  <2>1. e \in session \/ TakenOver(e)
    BY <1>3, <1>5, <1>8 DEF StoreInv, RepairsHeld, Repairing, Rebuilding, Abandoned, turns
  <2>2. \A c \in Call : Of[c] = e => phase'[c] = phase[c] /\ seen'[c] = seen[c] /\ load'[c] = load[c]
    BY <1>3, <1>8
  <2> QED
    BY <1>5, <1>8, <2>1, <2>2 DEF TakenOver, owners
<1>9. RepairsHeld'
  BY <1>8 DEF RepairsHeld
<1>10. \A c \in Call : phase'[c] = "repaired" => Of[c] \notin deleting'
  BY <1>1, <1>3 DEF StoreInv, LoadShape, owners
<1> QED
  BY <1>2, <1>7, <1>9, <1>10

-------------------------------------------------------------------------------
(* Calls of ensureDictionariesLoaded *)

\* A step of a call that waits for no repair disturbs no repair and no mutation, unless it
\* gives up what it has taken over.
LEMMA CallSteps ==
    ASSUME StoreInv, NEW c \in Call, phase[c] # "repairing",
           UNCHANGED <<files, owners, epoch, gen, served, turns, repairs, clashed>>,
           \A b \in Call \ {c} : phase'[b] = phase[b] /\ seen'[b] = seen[b] /\ load'[b] = load[b],
           \A e \in Dict : load'[e] = load[e],
           \A e \in Dict \ {Of[c]} : health'[e] = health[e],
           \/ health'[Of[c]] = health[Of[c]]
           \/ ~Condemned(Of[c]) /\ health'[Of[c]] \notin {"repairing", "reimportRequired"},
           \/ health'[Of[c]] # "repairing" \/ TakenOver(Of[c])'
           \/ ~(\/ phase[c] = "repaired" /\ After(seen[c]) = Now(Of[c])
                \/ phase[c] = "reloading" /\ seen[c] = Now(Of[c]) /\ load[c].at # "yes")
    PROVE  RepairsAlone' /\ ServedCurrent' /\ QueueShape' /\ SessionShape' /\ RepairShape' /\ RepairsHeld'
<1>1. UNCHANGED <<disk, shard, created, deleting, importing, session, epoch, gen, served, queue, asked, stage,
                  repair, tail, cancelled, begun, reload, clashed>>
  BY DEF files, owners, turns, repairs
<1>2. \A e \in Dict : /\ Now(e)' = Now(e) /\ Condemned(e)' = Condemned(e)
                      /\ health'[e] = "repairing" => health[e] = "repairing"
  BY <1>1 DEF Now, Condemned
<1>3. RepairsAlone' /\ ServedCurrent'
  BY <1>1 DEF StoreInv, RepairsAlone, ServedCurrent
<1>4. QueueShape'
  <2>1. \A d \in Delete : d \in Dict
    BY BoundAssumption
  <2> QED
    BY <1>1, <1>2, <2>1 DEF StoreInv, QueueShape, Queued
<1>5. SessionShape'
  BY <1>1, <1>2 DEF StoreInv, SessionShape, Queued
<1>6. RepairShape'
  <2>1. \A d \in Dict, b \in Call :
            phase[b] = "repairing" => phase'[b] = "repairing" /\ seen'[b] = seen[b]
    OBVIOUS
  <2>2. \A d \in Dict :
        /\ repair'[d] # "none" => /\ \E i \in DOMAIN tail' : tail'[i] = d
                                  /\ d \notin deleting' /\ (stage' = "draining" => d \in cancelled')
        /\ repair'[d] \in Repairing => tail' # <<>> /\ Head(tail') = d /\ (Condemned(d)' => d \in clashed')
    BY <1>1, <1>2 DEF StoreInv, RepairShape
  <2>3. \A d \in Dict : repair'[d] \in Rebuilding \cup {"queued"} =>
               /\ begun'[d] = Now(d)' \/ Condemned(d)'
               /\ d \in reload' \/ \E b \in Call : Of[b] = d /\ phase'[b] = "repairing" /\ seen'[b] = begun'[d]
    BY <1>1, <1>2, <2>1 DEF StoreInv, RepairShape
  <2>4. \A d \in Dict :
        /\ repair'[d] \in {"rebuilt", "loading"} => After(begun'[d]) = Now(d)' \/ Condemned(d)'
        /\ repair'[d] = "loading" /\ health'[d] = "repairing" => load'[d].at # "yes"
    BY <1>1, <1>2 DEF StoreInv, RepairShape
  <2> QED
    BY <2>2, <2>3, <2>4 DEF RepairShape, After, Repairing, Rebuilding
<1>7. ASSUME NEW e \in Dict, health'[e] = "repairing", ~Abandoned(e)',
                   repair'[e] \notin Repairing, e \notin session'
      PROVE  TakenOver(e)'
  <2>1. TakenOver(e)
    BY <1>1, <1>2, <1>7 DEF StoreInv, RepairsHeld, Abandoned
  <2>2. PICK b \in Call : /\ Of[b] = e
                          /\ \/ phase[b] = "repaired" /\ After(seen[b]) = Now(e)
                             \/ phase[b] = "reloading" /\ seen[b] = Now(e) /\ load[b].at # "yes"
    BY <2>1 DEF TakenOver
  <2>3. CASE b = c
    BY <1>7, <2>2, <2>3
  <2>4. CASE b # c
    BY <1>2, <2>2, <2>4 DEF TakenOver, After
  <2> QED
    BY <2>3, <2>4
<1>8. RepairsHeld'
  BY <1>7 DEF RepairsHeld, Repairing, Rebuilding
<1> QED
  BY <1>3, <1>4, <1>5, <1>6, <1>8

\* A call begins: it relies on no generation yet.
LEMMA BeginsStep ==
    ASSUME StoreInv, NEW c \in Call, Begins(c)
    PROVE  StoreInv'
<1> DEFINE d == Of[c]
<1>1. /\ UNCHANGED <<files, owners, lookup, turns, repairs, load, clashed, faults>>
      /\ seen' = [seen EXCEPT ![c] = <<epoch, 0>>]
  BY DEF Begins
<1>2. d \in Dict
  BY CallAssumption
<1>3. phase[c] = "none" /\ \E p \in {"done", "resumed", "awaiting"} : phase' = [phase EXCEPT ![c] = p]
  BY DEF Begins, Moves
<1>4. /\ health' \in [Dict -> Health] /\ backoff' \subseteq Dict
      /\ \A e \in Dict \ {d} : health'[e] = health[e]
      /\ health'[d] = health[d] \/ (~Condemned(d) /\ health'[d] \notin {"repairing", "reimportRequired"})
  BY <1>2 DEF Begins, Becomes, status, StoreInv, TypeOK, StoreType, Health, Condemned
<1>5. TypeOK'
  <2>1. StoreType'
    BY <1>1, <1>4 DEF StoreInv, TypeOK, StoreType, files, owners, lookup
  <2>2. TurnType' /\ RepairType' /\ LoadType'
    BY <1>1 DEF StoreInv, TypeOK, TurnType, RepairType, LoadType, turns, repairs, lookup
  <2>3. CallType'
    BY <1>1, <1>3 DEF StoreInv, TypeOK, StoreType, CallType, Stamp
  <2> QED
    BY <2>1, <2>2, <2>3 DEF TypeOK
<1>6. RepairsAlone' /\ ServedCurrent' /\ QueueShape' /\ SessionShape' /\ RepairShape' /\ RepairsHeld'
  <2>1. \A b \in Call \ {c} : phase'[b] = phase[b] /\ seen'[b] = seen[b] /\ load'[b] = load[b]
    BY <1>1, <1>3 DEF StoreInv, TypeOK, CallType
  <2>2. \A e \in Dict : load'[e] = load[e]
    BY <1>1
  <2> QED
    BY <1>1, <1>3, <1>4, <2>1, <2>2, CallSteps DEF lookup
<1>7. LoadShape'
  <2>1. \A b \in Call : phase'[b] = "repaired" => phase[b] = "repaired"
    BY <1>3 DEF StoreInv, TypeOK, CallType
  <2> QED
    BY <1>1, <2>1 DEF StoreInv, LoadShape, Now, lookup, files, owners
<1> QED
  BY <1>5, <1>6, <1>7 DEF StoreInv

\* A call loads the index, unless there is nothing to do.
LEMMA LoadsStep ==
    ASSUME StoreInv, NEW c \in Call, Loads(c)
    PROVE  StoreInv'
<1> DEFINE d == Of[c]
<1>1. /\ UNCHANGED <<files, owners, epoch, gen, served, turns, repairs, clashed, faults>>
      /\ phase[c] = "resumed" /\ d \in Dict /\ c \in Loader /\ On(c) = d /\ c \notin Dict
  BY CallAssumption, OnDict DEF Loads, lookup
<1>2. TypeOK
  BY DEF StoreInv
<1>3. /\ TypeOK' /\ LoadShape'
      /\ \A b \in Call \ {c} : phase'[b] = phase[b] /\ seen'[b] = seen[b]
      /\ \A k \in Loader \ {c} : load'[k] = load[k]
      /\ \A e \in Dict \ {d} : health'[e] = health[e]
      /\ health'[d] = health[d] \/ (~Condemned(d) /\ health'[d] \notin {"repairing", "reimportRequired"})
  <2>1. CASE Skipped(c)
    <3>1. phase' = [phase EXCEPT ![c] = "done"] /\ UNCHANGED <<seen, load, lookup, status>>
      BY <2>1 DEF Loads, Moves
    <3>2. TypeOK'
      BY <1>1, <1>2, <3>1 DEF TypeOK, StoreType, TurnType, RepairType, LoadType, CallType, files,
         owners, lookup, status, turns, repairs
    <3>3. \A b \in Call : phase'[b] = "repaired" => phase[b] = "repaired"
      BY <3>1, <1>2 DEF TypeOK, CallType
    <3>4. LoadShape'
      BY <1>1, <3>1, <3>3 DEF StoreInv, LoadShape, Now, lookup, files, owners
    <3> QED
      BY <3>1, <3>2, <3>4 DEF status
  <2>2. CASE ~Skipped(c)
    <3>1. /\ phase' = [phase EXCEPT ![c] = "loading"] /\ seen' = [seen EXCEPT ![c] = Now(d)]
          /\ Started(c, d) /\ d \notin deleting /\ UNCHANGED <<shard, deleting, epoch, gen>>
      BY <1>1, <2>2 DEF Loads, Moves, Skipped, files, owners
    <3>2. \A b \in Call : phase'[b] = "repaired" => phase[b] = "repaired"
      BY <3>1, <1>2 DEF TypeOK, CallType
    <3>3. LoadType' /\ LoadShape'
      BY <1>1, <3>1, <3>2, StartedLoads
    <3>4. /\ \A k \in Loader \ {c} : load'[k] = load[k]
          /\ failure' \in [Dict -> {"none", "transient", "lasting"}]
          /\ \/ UNCHANGED status
             \/ ~Condemned(d) /\ health' = [health EXCEPT ![d] = "available"] /\ backoff' = backoff \ {d}
      BY <1>1, <1>2, <3>1, StartedFacts
    <3>5. /\ health' \in [Dict -> Health] /\ backoff' \subseteq Dict
          /\ \A e \in Dict \ {d} : health'[e] = health[e]
          /\ health'[d] = health[d] \/ (~Condemned(d) /\ health'[d] \notin {"repairing", "reimportRequired"})
      BY <1>1, <1>2, <3>4 DEF TypeOK, StoreType, status, Health
    <3>6. StoreType' /\ TurnType' /\ RepairType'
      BY <1>1, <1>2, <3>4, <3>5 DEF TypeOK, StoreType, TurnType, RepairType, files, owners, turns,
         repairs
    <3>7. CallType'
      BY <1>1, <1>2, <3>1, StampTypes DEF TypeOK, CallType
    <3> QED
      BY <1>2, <3>1, <3>3, <3>4, <3>5, <3>6, <3>7 DEF TypeOK, CallType
  <2> QED
    BY <2>1, <2>2
<1>4. RepairsAlone' /\ ServedCurrent' /\ QueueShape' /\ SessionShape' /\ RepairShape' /\ RepairsHeld'
  <2>1. \A b \in Call \ {c} : phase'[b] = phase[b] /\ seen'[b] = seen[b] /\ load'[b] = load[b]
    BY <1>3, OnDict
  <2>2. \A e \in Dict : e \in Loader /\ e # c
    BY <1>1, OnDict
  <2>3. \A e \in Dict : load'[e] = load[e]
    BY <1>3, <2>2
  <2> QED
    BY <1>1, <1>3, <2>1, <2>3, CallSteps
<1> QED
  BY <1>3, <1>4 DEF StoreInv

\* A call whose repair has ended relies on the generation it published.
LEMMA RepairSeenStep ==
    ASSUME StoreInv, NEW c \in Call, RepairSeen(c)
    PROVE  StoreInv'
<1> DEFINE d == Of[c]
<1>1. /\ UNCHANGED <<files, owners, epoch, gen, served, turns, repairs, clashed, faults>>
      /\ phase[c] \in {"repaired", "unrepaired"} /\ d \in Dict /\ c \in Loader /\ On(c) = d /\ c \notin Dict
  BY CallAssumption, OnDict DEF RepairSeen, lookup
<1>2. TypeOK
  BY DEF StoreInv
<1>3. /\ TypeOK' /\ LoadShape'
      /\ \A b \in Call \ {c} : phase'[b] = phase[b] /\ seen'[b] = seen[b]
      /\ \A k \in Loader \ {c} : load'[k] = load[k]
      /\ \A e \in Dict \ {d} : health'[e] = health[e]
      /\ health'[d] = health[d] \/ (~Condemned(d) /\ health'[d] \notin {"repairing", "reimportRequired"})
      /\ health'[d] # "repairing" \/ TakenOver(d)' \/ ~(phase[c] = "repaired" /\ After(seen[c]) = Now(d))
  <2>1. CASE phase[c] = "repaired" /\ Current(d, After(seen[c]))
    <3>1. /\ phase' = [phase EXCEPT ![c] = "reloading"] /\ seen' = [seen EXCEPT ![c] = After(seen[c])]
          /\ Started(c, d) /\ UNCHANGED <<shard, deleting, epoch, gen>>
      BY <1>1, <2>1 DEF RepairSeen, Moves, files, owners
    <3>2. d \notin deleting
      BY <2>1 DEF StoreInv, LoadShape
    <3>3. \A b \in Call : phase'[b] = "repaired" => phase[b] = "repaired"
      BY <3>1, <1>2 DEF TypeOK, CallType
    <3>4. LoadType' /\ LoadShape'
      BY <1>1, <3>1, <3>2, <3>3, StartedLoads
    <3>5. /\ \A k \in Loader \ {c} : load'[k] = load[k]
          /\ failure' \in [Dict -> {"none", "transient", "lasting"}]
          /\ \/ UNCHANGED status
             \/ ~Condemned(d) /\ health' = [health EXCEPT ![d] = "available"] /\ backoff' = backoff \ {d}
          /\ load'[c].at = "yes" => health' = [health EXCEPT ![d] = "available"]
      BY <1>1, <1>2, <3>1, StartedFacts
    <3>6. /\ health' \in [Dict -> Health] /\ backoff' \subseteq Dict
          /\ \A e \in Dict \ {d} : health'[e] = health[e]
          /\ health'[d] = health[d] \/ (~Condemned(d) /\ health'[d] \notin {"repairing", "reimportRequired"})
          /\ load'[c].at = "yes" => health'[d] # "repairing"
      BY <1>1, <1>2, <3>5 DEF TypeOK, StoreType, status, Health
    <3>7. StoreType' /\ TurnType' /\ RepairType'
      BY <1>1, <1>2, <3>5, <3>6 DEF TypeOK, StoreType, TurnType, RepairType, files, owners, turns,
         repairs
    <3>8. CallType'
      BY <1>1, <1>2, <3>1, StampTypes DEF TypeOK, CallType
    <3>9. health'[d] # "repairing" \/ TakenOver(d)'
      <4>1. phase'[c] = "reloading" /\ seen'[c] = Now(d)
        BY <1>2, <2>1, <3>1 DEF TypeOK, CallType, Current
      <4> QED
        BY <3>1, <3>6, <4>1 DEF TakenOver, Now
    <3> QED
      BY <1>2, <3>1, <3>4, <3>5, <3>6, <3>7, <3>8, <3>9 DEF TypeOK, CallType
  <2>2. CASE ~(phase[c] = "repaired" /\ Current(d, After(seen[c])))
    <3>1. /\ phase' = [phase EXCEPT ![c] = "done"] /\ UNCHANGED <<seen, load, lookup>>
          /\ IF phase[c] = "unrepaired" /\ Current(d, seen[c])
             THEN Becomes(d, "temporarilyUnavailable") ELSE UNCHANGED status
      BY <2>2 DEF RepairSeen, Moves
    <3>2. /\ health' \in [Dict -> Health] /\ backoff' \subseteq Dict
          /\ \A e \in Dict \ {d} : health'[e] = health[e]
          /\ health'[d] = health[d] \/ (~Condemned(d) /\ health'[d] \notin {"repairing", "reimportRequired"})
      BY <1>1, <1>2, <3>1 DEF Becomes, Current, status, TypeOK, StoreType, Health, Condemned
    <3>3. TypeOK'
      BY <1>1, <1>2, <3>1, <3>2 DEF TypeOK, StoreType, TurnType, RepairType, LoadType, CallType,
         files, owners, lookup, turns, repairs
    <3>4. \A b \in Call : phase'[b] = "repaired" => phase[b] = "repaired"
      BY <3>1, <1>2 DEF TypeOK, CallType
    <3>5. LoadShape'
      BY <1>1, <3>1, <3>4 DEF StoreInv, LoadShape, Now, lookup, files, owners
    <3>6. health'[d] # "repairing" \/ ~(phase[c] = "repaired" /\ After(seen[c]) = Now(d))
      BY <2>2, <3>1, <3>2 DEF Current, status
    <3> QED
      BY <3>1, <3>2, <3>3, <3>5, <3>6
  <2> QED
    BY <2>1, <2>2
<1>4. RepairsAlone' /\ ServedCurrent' /\ QueueShape' /\ SessionShape' /\ RepairShape' /\ RepairsHeld'
  <2>1. \A b \in Call \ {c} : phase'[b] = phase[b] /\ seen'[b] = seen[b] /\ load'[b] = load[b]
    BY <1>3, OnDict
  <2>2. \A e \in Dict : e \in Loader /\ e # c
    BY <1>1, OnDict
  <2>3. \A e \in Dict : load'[e] = load[e]
    BY <1>3, <2>2
  <2>4. \/ health'[d] # "repairing" \/ TakenOver(d)'
        \/ ~(\/ phase[c] = "repaired" /\ After(seen[c]) = Now(d)
             \/ phase[c] = "reloading" /\ seen[c] = Now(d) /\ load[c].at # "yes")
    BY <1>1, <1>3
  <2> QED
    BY <1>1, <1>3, <2>1, <2>3, <2>4, CallSteps
<1> QED
  BY <1>3, <1>4 DEF StoreInv

\* A call that has loaded what was rebuilt is over.
LEMMA ReloadedStep ==
    ASSUME StoreInv, NEW c \in Call, Reloaded(c)
    PROVE  StoreInv'
<1> DEFINE d == Of[c]
<1>1. /\ UNCHANGED <<files, owners, lookup, seen, turns, repairs, clashed, faults>>
      /\ phase[c] = "reloading" /\ d \in Dict /\ c \in Loader /\ c \notin Dict
      /\ load[c].at \in {"yes", "no"} /\ load' = [load EXCEPT ![c] = NoLoad]
      /\ phase' = [phase EXCEPT ![c] = "done"]
  BY CallAssumption, OnDict DEF Reloaded, Moves
<1>2. TypeOK
  BY DEF StoreInv
<1>3. /\ health' \in [Dict -> Health] /\ backoff' \subseteq Dict
      /\ \A e \in Dict \ {d} : health'[e] = health[e]
      /\ health'[d] = health[d] \/ (~Condemned(d) /\ health'[d] \notin {"repairing", "reimportRequired"})
      /\ health'[d] # "repairing" \/ ~(seen[c] = Now(d) /\ load[c].at # "yes")
  BY <1>1, <1>2 DEF Reloaded, Becomes, Current, status, TypeOK, StoreType, Health, Condemned
<1>4. load' \in [Loader -> LoadState] /\ load'[c] = NoLoad /\ \A k \in Loader \ {c} : load'[k] = load[k]
  BY <1>1, <1>2, LoadTypes
<1>5. TypeOK'
  <2>1. StoreType' /\ TurnType' /\ RepairType'
    BY <1>1, <1>2, <1>3 DEF TypeOK, StoreType, TurnType, RepairType, files, owners, turns, repairs,
       lookup
  <2>2. LoadType' /\ CallType'
    BY <1>1, <1>2, <1>4 DEF TypeOK, LoadType, CallType, lookup
  <2> QED
    BY <2>1, <2>2 DEF TypeOK
<1>6. RepairsAlone' /\ ServedCurrent' /\ QueueShape' /\ SessionShape' /\ RepairShape' /\ RepairsHeld'
  <2>1. \A b \in Call \ {c} : phase'[b] = phase[b] /\ seen'[b] = seen[b] /\ load'[b] = load[b]
    BY <1>1, <1>2, <1>4, OnDict DEF TypeOK, CallType
  <2>2. \A e \in Dict : load'[e] = load[e]
    BY <1>1, <1>4, OnDict
  <2> QED
    BY <1>1, <1>3, <2>1, <2>2, CallSteps DEF lookup
<1>7. LoadShape'
  <2>1. \A b \in Call : phase'[b] = "repaired" => Of[b] \notin deleting'
    BY <1>1, <1>2 DEF TypeOK, CallType, StoreInv, LoadShape, owners
  <2>2. \A k \in Loader : load'[k] = load[k] \/ load'[k].at \in {"none", "yes", "no"}
    BY <1>4 DEF NoLoad
  <2>3. \A e \in Dict \ {} : gen'[e] = gen[e] /\ shard'[e] = shard[e] /\ (e \in deleting' => e \in deleting)
    BY <1>1 DEF lookup, files, owners
  <2>4. epoch' = epoch /\ \A e \in Dict : registered'[e] \in {registered[e], Nobody}
    BY <1>1 DEF lookup
  <2>5. {} \in SUBSET Dict /\ \A e \in {} : gen'[e] = gen[e] + 1
    OBVIOUS
  <2> QED
    BY <2>1, <2>2, <2>3, <2>4, <2>5, LoadsKept
<1> QED
  BY <1>5, <1>6, <1>7 DEF StoreInv

\* The mutations and repairs that are under way see nothing of a repair that is queued
\* behind them.
LEMMA EnqueueFacts ==
    ASSUME TypeOK, NEW d \in Dict, NEW c \in Call, Enqueue(d, c \in Background), repair[d] = "none"
    PROVE  /\ RepairType' /\ repair' = [repair EXCEPT ![d] = "queued"]
           /\ \A e \in Dict : (\E i \in DOMAIN tail : tail[i] = e) => \E i \in DOMAIN tail' : tail'[i] = e
           /\ \E i \in DOMAIN tail' : tail'[i] = d
           /\ tail # <<>> => tail' # <<>> /\ Head(tail') = Head(tail)
           /\ begun'[d] = Now(d) /\ \A e \in Dict \ {d} : begun'[e] = begun[e] /\ (e \in reload => e \in reload')
           /\ c \in Background => d \in reload'
           /\ cancelled' = cancelled
<1>1. tail \in Seq(Dict) /\ tail' = Append(tail, d)
  BY DEF TypeOK, RepairType, Enqueue
<1>2. /\ tail' \in Seq(Dict)
      /\ \A i \in DOMAIN tail : i \in DOMAIN tail' /\ tail'[i] = tail[i]
      /\ Len(tail) + 1 \in DOMAIN tail' /\ tail'[Len(tail) + 1] = d
      /\ tail # <<>> => tail' # <<>> /\ Head(tail') = Head(tail)
  BY <1>1
<1>3. /\ repair' = [repair EXCEPT ![d] = "queued"] /\ begun' = [begun EXCEPT ![d] = Now(d)] /\ cancelled' = cancelled
      /\ reload' = IF c \in Background THEN reload \cup {d} ELSE reload \ {d}
  BY DEF Enqueue
<1>4. begun' \in [Dict -> Stamp] /\ begun'[d] = Now(d) /\ \A e \in Dict \ {d} : begun'[e] = begun[e]
  BY <1>3, StampTypes DEF TypeOK, RepairType
<1>5. RepairType'
  BY <1>2, <1>3, <1>4 DEF TypeOK, RepairType
<1> QED
  BY <1>2, <1>3, <1>4, <1>5

\* What a call makes of a load that has ended, and the repair it may queue.
LEMMA LoadedStep ==
    ASSUME StoreInv, NEW c \in Call, Loaded(c)
    PROVE  StoreInv'
<1> DEFINE d == Of[c]
<1>1. /\ UNCHANGED <<files, owners, lookup, seen, turns, clashed, faults>>
      /\ phase[c] = "loading" /\ d \in Dict /\ c \in Loader /\ c \notin Dict
      /\ load[c].at \in {"yes", "no"} /\ load' = [load EXCEPT ![c] = NoLoad]
      /\ \E p \in {"done", "repairing"} : phase' = [phase EXCEPT ![c] = p]
  BY CallAssumption, OnDict DEF Loaded, Moves
<1>2. TypeOK
  BY DEF StoreInv
<1>3. /\ health' \in [Dict -> Health] /\ backoff' \subseteq Dict
      /\ \A e \in Dict \ {d} : health'[e] = health[e]
      /\ health'[d] = health[d] \/ (~Condemned(d) /\ health'[d] \notin {"repairing", "reimportRequired"})
  BY <1>1, <1>2 DEF Loaded, Becomes, Current, status, TypeOK, StoreType, Health, Condemned
<1>4. load' \in [Loader -> LoadState] /\ load'[c] = NoLoad /\ \A k \in Loader \ {c} : load'[k] = load[k]
  BY <1>1, <1>2, LoadTypes
<1>5. StoreType' /\ TurnType' /\ LoadType' /\ CallType'
  BY <1>1, <1>2, <1>3, <1>4 DEF TypeOK, StoreType, TurnType, LoadType, CallType, files, owners,
     turns, lookup
<1>6. /\ \A b \in Call \ {c} : phase'[b] = phase[b] /\ seen'[b] = seen[b] /\ load'[b] = load[b]
      /\ \A e \in Dict : load'[e] = load[e]
      /\ phase'[c] \in {"done", "repairing"}
  BY <1>1, <1>2, <1>4, OnDict DEF TypeOK, CallType
<1>7. LoadShape'
  <2>1. \A b \in Call : phase'[b] = "repaired" => Of[b] \notin deleting'
    BY <1>1, <1>6 DEF StoreInv, LoadShape, owners
  <2>2. \A k \in Loader : load'[k] = load[k] \/ load'[k].at \in {"none", "yes", "no"}
    BY <1>4 DEF NoLoad
  <2>3. \A e \in Dict \ {} : gen'[e] = gen[e] /\ shard'[e] = shard[e] /\ (e \in deleting' => e \in deleting)
    BY <1>1 DEF lookup, files, owners
  <2>4. epoch' = epoch /\ \A e \in Dict : registered'[e] \in {registered[e], Nobody}
    BY <1>1 DEF lookup
  <2>5. {} \in SUBSET Dict /\ \A e \in {} : gen'[e] = gen[e] + 1
    OBVIOUS
  <2> QED
    BY <2>1, <2>2, <2>3, <2>4, <2>5, LoadsKept
<1>8. CASE UNCHANGED repairs
  <2>1. RepairsAlone' /\ ServedCurrent' /\ QueueShape' /\ SessionShape' /\ RepairShape' /\ RepairsHeld'
    BY <1>1, <1>3, <1>6, <1>8, CallSteps DEF lookup
  <2>2. RepairType'
    BY <1>2, <1>8 DEF TypeOK, RepairType, repairs
  <2> QED
    BY <1>5, <1>7, <2>1, <2>2 DEF StoreInv, TypeOK
<1>9. CASE ~UNCHANGED repairs
  <2>1. /\ Enqueue(d, c \in Background) /\ Current(d, seen[c]) /\ ~Barred(d) /\ repair[d] = "none"
        /\ phase' = [phase EXCEPT ![c] = IF c \in Background THEN "done" ELSE "repairing"]
        /\ health' = [health EXCEPT ![d] = "repairPending"]
    BY <1>9 DEF Loaded, Moves, Becomes
  <2>2. /\ seen[c] = Now(d) /\ ~Condemned(d)
        /\ d \notin deleting /\ ~importing /\ stage = "none"
    BY <2>1 DEF Current, Barred, Mutating, Condemned
  <2>3. UNCHANGED <<disk, shard, created, deleting, importing, session, epoch, gen, served, queue, asked, stage,
                    seen, clashed>>
    BY <1>1 DEF files, owners, turns, lookup
  <2>4. /\ RepairType' /\ repair' = [repair EXCEPT ![d] = "queued"]
        /\ \A e \in Dict : (\E i \in DOMAIN tail : tail[i] = e) => \E i \in DOMAIN tail' : tail'[i] = e
        /\ \E i \in DOMAIN tail' : tail'[i] = d
        /\ tail # <<>> => tail' # <<>> /\ Head(tail') = Head(tail)
        /\ begun'[d] = Now(d) /\ \A e \in Dict \ {d} : begun'[e] = begun[e] /\ (e \in reload => e \in reload')
        /\ c \in Background => d \in reload'
        /\ cancelled' = cancelled
    BY <1>1, <1>2, <2>1, EnqueueFacts
  <2>5. \A e \in Dict \ {d} : repair'[e] = repair[e]
    BY <2>4
  <2>6. repair'[d] = "queued" /\ health'[d] = "repairPending"
    <3>1. d \in Dict /\ DOMAIN repair = Dict /\ health \in [Dict -> Health]
      BY <1>1, <1>2 DEF TypeOK, RepairType, StoreType
    <3> QED
      BY <2>1, <2>4, <3>1
  <2>7. \A e \in Dict : Now(e)' = Now(e) /\ Condemned(e)' = Condemned(e)
    BY <1>3, <2>2, <2>3, <2>6 DEF Now, Condemned
  <2>8. RepairsAlone' /\ ServedCurrent' /\ QueueShape' /\ SessionShape'
    <3>1. RepairsAlone'
      BY <2>2, <2>3 DEF RepairsAlone
    <3>2. ServedCurrent'
      BY <2>2, <2>3 DEF StoreInv, ServedCurrent
    <3>3. QueueShape'
      BY <2>2, <2>3 DEF StoreInv, QueueShape, Queued
    <3>4. SessionShape'
      BY <2>2, <2>3, <2>7 DEF StoreInv, SessionShape, Queued
    <3> QED
      BY <3>1, <3>2, <3>3, <3>4
  <2>9. RepairShape'
    <3>1. ASSUME NEW e \in Dict, e # d
          PROVE  /\ repair'[e] # "none" =>
                        /\ \E i \in DOMAIN tail' : tail'[i] = e
                        /\ e \notin deleting' /\ (stage' = "draining" => e \in cancelled')
                 /\ repair'[e] \in Repairing => tail' # <<>> /\ Head(tail') = e /\ (Condemned(e)' => e \in clashed')
                 /\ repair'[e] \in {"rebuilt", "loading"} => After(begun'[e]) = Now(e)' \/ Condemned(e)'
                 /\ repair'[e] = "loading" /\ health'[e] = "repairing" => load'[e].at # "yes"
      BY <1>3, <1>6, <2>3, <2>4, <2>5, <2>7, <3>1 DEF StoreInv, RepairShape
    <3>2. ASSUME NEW e \in Dict, e # d, repair'[e] \in Rebuilding \cup {"queued"}
          PROVE  /\ begun'[e] = Now(e)' \/ Condemned(e)'
                 /\ e \in reload' \/ \E b \in Call : Of[b] = e /\ phase'[b] = "repairing" /\ seen'[b] = begun'[e]
      <4>1. /\ begun[e] = Now(e) \/ Condemned(e)
            /\ e \in reload \/ \E b \in Call : Of[b] = e /\ phase[b] = "repairing" /\ seen[b] = begun[e]
        BY <2>5, <3>2 DEF StoreInv, RepairShape
      <4> QED
        BY <1>6, <2>3, <2>4, <2>7, <3>2, <4>1
    <3>3. /\ \E i \in DOMAIN tail' : tail'[i] = d
          /\ d \notin deleting' /\ stage' # "draining"
          /\ begun'[d] = Now(d)'
          /\ d \in reload' \/ (phase'[c] = "repairing" /\ seen'[c] = begun'[d])
      BY <1>1, <1>2, <2>1, <2>2, <2>3, <2>4, <2>7 DEF TypeOK, CallType
    <3> QED
      BY <2>6, <3>1, <3>2, <3>3 DEF RepairShape, Repairing, Rebuilding, After
  <2>10. RepairsHeld'
    <3>1. ASSUME NEW e \in Dict, health'[e] = "repairing", ~Abandoned(e)',
                   repair'[e] \notin Repairing, e \notin session'
          PROVE  TakenOver(e)'
      <4>1. e # d
        BY <2>6, <3>1
      <4>2. TakenOver(e)
        BY <1>3, <2>3, <2>5, <2>7, <3>1, <4>1 DEF StoreInv, RepairsHeld, Abandoned
      <4> QED
        BY <1>1, <1>6, <2>3, <2>7, <4>1, <4>2 DEF TakenOver, After
    <3> QED
      BY <3>1 DEF RepairsHeld, Repairing, Rebuilding
  <2> QED
    BY <1>5, <1>7, <2>4, <2>8, <2>9, <2>10 DEF StoreInv, TypeOK
<1> QED
  BY <1>8, <1>9

-------------------------------------------------------------------------------
(* Loads *)

\* Reading a container changes what a load has seen, and nothing else.
LEMMA ReadStep ==
    ASSUME StoreInv, NEW l \in Loader, Read(l)
    PROVE  StoreInv'
<1>1. /\ UNCHANGED <<files, owners, lookup, status, turns, repairs, calls, clashed, faults>>
      /\ load[l].at = "open" /\ load' = [load EXCEPT ![l].at = "read", ![l].saw = disk[On(l)]]
  BY DEF Read
<1>2. TypeOK /\ On(l) \in Dict
  BY OnDict DEF StoreInv
<1>3. /\ load' \in [Loader -> LoadState] /\ load'[l].at = "read"
      /\ load'[l].stamp = load[l].stamp /\ load'[l].from = load[l].from
      /\ \A k \in Loader \ {l} : load'[k] = load[k]
  <2>1. load[l] \in LoadState /\ disk[On(l)] \in {"none", "partial", "good", "stale", "damaged"}
    BY <1>2 DEF TypeOK, LoadType, StoreType
  <2>2. PICK new \in LoadState :
            /\ new.at = "read" /\ new.stamp = load[l].stamp /\ new.from = load[l].from
            /\ load' = [load EXCEPT ![l] = new]
    <3> DEFINE new == [load[l] EXCEPT !.at = "read", !.saw = disk[On(l)]]
    <3>1. new \in LoadState /\ new.at = "read" /\ new.stamp = load[l].stamp /\ new.from = load[l].from
      BY <2>1 DEF LoadState
    <3>2. load' = [load EXCEPT ![l] = new]
      BY <1>1, <1>2, <2>1 DEF TypeOK, LoadType
    <3> QED
      BY <3>1, <3>2
  <2> QED
    BY <1>2, <2>2 DEF TypeOK, LoadType
<1>4. TypeOK'
  BY <1>1, <1>2, <1>3 DEF TypeOK, StoreType, TurnType, RepairType, LoadType, CallType, files,
     owners, lookup, status, turns, repairs, calls
<1>5. RepairsAlone' /\ ServedCurrent' /\ QueueShape' /\ SessionShape'
  BY <1>1 DEF StoreInv, RepairsAlone, ServedCurrent, QueueShape, SessionShape, Queued, Condemned,
     files, owners, lookup, status, turns, repairs
<1>6. RepairShape' /\ RepairsHeld'
  <2>1. \A k \in Loader : load'[k].at = "yes" => load[k].at = "yes"
    BY <1>3
  <2>2. RepairShape'
    <3>1. UNCHANGED <<deleting, epoch, gen, stage, repair, tail, cancelled, begun, reload, health, phase,
                      seen, clashed>>
      BY <1>1 DEF owners, lookup, status, turns, repairs, calls
    <3>2. \A e \in Dict : /\ Now(e)' = Now(e) /\ Condemned(e)' = Condemned(e)
                          /\ load'[e].at = "yes" => load[e].at = "yes"
      BY <2>1, <3>1, OnDict DEF Now, Condemned
    <3> QED
      BY <3>1, <3>2 DEF StoreInv, RepairShape, After, Repairing, Rebuilding
  <2>3. \A e \in Dict : TakenOver(e) => TakenOver(e)'
    BY <1>1, <2>1, OnDict DEF TakenOver, Now, After, lookup, calls
  <2>4. RepairsHeld'
    BY <1>1, <2>3 DEF StoreInv, RepairsHeld, Abandoned, Now, Repairing, Rebuilding, owners, lookup,
       status, turns, repairs
  <2> QED
    BY <2>2, <2>4
<1>7. LoadShape'
  BY <1>1, <1>3 DEF StoreInv, LoadShape, Now, files, owners, lookup, calls
<1> QED
  BY <1>4, <1>5, <1>6, <1>7 DEF StoreInv

\* A load publishes what it has read only while its generation is the present one.
LEMMA FinishStep ==
    ASSUME StoreInv, NEW l \in Loader, Finish(l)
    PROVE  StoreInv'
<1> DEFINE d == On(l)
<1>1. /\ UNCHANGED <<files, owners, turns, repairs, calls>> /\ Quiet /\ load[l].at = "read"
      /\ d \in Dict /\ TypeOK /\ epoch' = epoch
  BY OnDict DEF Finish, Invalidate, StoreInv
<1>2. UNCHANGED <<disk, shard, created, deleting, importing, session, epoch, queue, asked, stage, repair, tail,
                  cancelled, begun, reload, phase, seen>>
  BY <1>1 DEF files, owners, turns, repairs, calls
<1> DEFINE Ends(at, D) ==
        /\ Ended(l, at)
        /\ gen' \in [Dict -> Nat] /\ served' \in [Dict -> Nat]
        /\ registered' \in [Dict -> Loader \cup {Nobody}]
        /\ \A e \in Dict : registered'[e] \in {registered[e], Nobody}
        /\ failure' \in [Dict -> {"none", "transient", "lasting"}]
        /\ \A e \in D : gen'[e] = gen[e] + 1 /\ health'[e] = "reimportRequired" /\ e \in clashed' /\ served'[e] = 0
        /\ \A e \in Dict \ D : gen'[e] = gen[e]
        /\ \A e \in Dict \ D : served'[e] = served[e] \/ (at = "yes" /\ e = d /\ served'[e] = load[l].from)
        /\ \A e \in Dict \ D : \/ health'[e] = health[e]
                               \/ ~Condemned(e) /\ at = "yes" /\ e = d /\ health'[e] = "available"
        /\ D # {} => \E e \in D : served[e] # 0
        /\ health' \in [Dict -> Health] /\ backoff' \subseteq Dict
        /\ clashed' \subseteq Dict /\ clashed \subseteq clashed'
        /\ at = "yes" => D = {} /\ health'[d] = "available" /\ Publishable(l, d) /\ Same(l, d)
        /\ faults' \in Nat
<1>3. PICK at \in {"yes", "no"}, D \in SUBSET Dict : Ends(at, D)
  <2>1. load[l].from \in Nat
    BY <1>1, LoadTypes DEF LoadState
  <2>2. ASSUME UNCHANGED <<epoch, gen, served, status, clashed>>, Ended(l, "no"), registered' = Unregistered(l, d),
               failure' \in [Dict -> {"none", "transient", "lasting"}], faults' \in Nat
        PROVE  Ends("no", {})
    BY <1>1, <2>2 DEF TypeOK, StoreType, LoadType, status, Unregistered
  <2>3. ASSUME Fault, Ended(l, "no"),
               NEW e \in Dict \ {d}, served[e] # 0, Invalidate({d, e}), clashed' = clashed \cup {d, e},
               health' = [health EXCEPT ![d] = "reimportRequired", ![e] = "reimportRequired"],
               backoff' = backoff \ {d, e}
        PROVE  Ends("no", {d, e})
    <3>1. {d, e} \subseteq Dict
      BY <1>1
    <3>2. /\ gen' \in [Dict -> Nat] /\ served' \in [Dict -> Nat]
          /\ failure' \in [Dict -> {"none", "transient", "lasting"}]
          /\ registered' \in [Dict -> Loader \cup {Nobody}]
          /\ \A x \in Dict \ {d, e} : gen'[x] = gen[x] /\ served'[x] = served[x]
          /\ \A x \in {d, e} : gen'[x] = gen[x] + 1 /\ served'[x] = 0
          /\ \A x \in Dict : registered'[x] \in {registered[x], Nobody}
      BY <1>1, <2>3, <3>1, InvalidateFacts
    <3>3. /\ health' \in [Dict -> Health] /\ \A x \in Dict \ {d, e} : health'[x] = health[x]
          /\ \A x \in {d, e} : health'[x] = "reimportRequired" /\ x \in clashed'
      BY <1>1, <2>3 DEF TypeOK, StoreType, Health
    <3>4. faults' \in Nat /\ backoff' \subseteq Dict /\ clashed' \subseteq Dict /\ clashed \subseteq clashed'
      BY <1>1, <2>3 DEF Fault, TypeOK, StoreType
    <3> QED
      BY <2>3, <3>2, <3>3, <3>4
  <2>4. ASSUME Publishable(l, d), Same(l, d), Ended(l, "yes"), registered' = Unregistered(l, d),
               served' = [served EXCEPT ![d] = load[l].from], failure' = [failure EXCEPT ![d] = "none"],
               Becomes(d, "available"), UNCHANGED <<epoch, gen, clashed, faults>>
        PROVE  Ends("yes", {})
    <3>1. /\ gen' \in [Dict -> Nat] /\ served' \in [Dict -> Nat]
          /\ \A e \in Dict : gen'[e] = gen[e] /\ (served'[e] = served[e] \/ (e = d /\ served'[e] = load[l].from))
      BY <1>1, <2>1, <2>4 DEF TypeOK, StoreType
    <3>2. /\ registered' \in [Dict -> Loader \cup {Nobody}]
          /\ \A e \in Dict : registered'[e] \in {registered[e], Nobody}
          /\ failure' \in [Dict -> {"none", "transient", "lasting"}]
      BY <1>1, <2>4 DEF TypeOK, StoreType, LoadType, Unregistered
    <3>3. /\ health' \in [Dict -> Health] /\ backoff' \subseteq Dict /\ health'[d] = "available" /\ ~Condemned(d)
          /\ \A e \in Dict : e # d => health'[e] = health[e]
      BY <1>1, <2>4 DEF TypeOK, StoreType, Becomes, Publishable, Current, Condemned, Health
    <3>4. clashed' \subseteq Dict /\ clashed \subseteq clashed' /\ faults' \in Nat
      BY <1>1, <2>4 DEF TypeOK, StoreType
    <3> QED
      BY <2>4, <3>1, <3>2, <3>3, <3>4
  <2>5. \/ /\ UNCHANGED <<epoch, gen, served, status, clashed>> /\ Ended(l, "no") /\ registered' = Unregistered(l, d)
           /\ failure' \in [Dict -> {"none", "transient", "lasting"}] /\ faults' \in Nat
        \/ /\ Fault /\ Ended(l, "no")
           /\ \E e \in Dict \ {d} :
                /\ served[e] # 0 /\ Invalidate({d, e}) /\ clashed' = clashed \cup {d, e}
                /\ health' = [health EXCEPT ![d] = "reimportRequired", ![e] = "reimportRequired"]
                /\ backoff' = backoff \ {d, e}
        \/ /\ Publishable(l, d) /\ Same(l, d)
           /\ Ended(l, "yes") /\ registered' = Unregistered(l, d)
           /\ served' = [served EXCEPT ![d] = load[l].from] /\ failure' = [failure EXCEPT ![d] = "none"]
           /\ Becomes(d, "available") /\ UNCHANGED <<epoch, gen, clashed, faults>>
    <3>1. failure \in [Dict -> {"none", "transient", "lasting"}] /\ faults \in Nat
      BY <1>1 DEF TypeOK, StoreType
    <3>2. \/ /\ Ended(l, "no") /\ registered' = Unregistered(l, d)
             /\ UNCHANGED <<epoch, gen, served, status, clashed>>
             /\ \/ UNCHANGED failure
                \/ failure' = [failure EXCEPT ![d] = "lasting"]
                \/ failure' = [failure EXCEPT ![d] = "transient"]
             /\ UNCHANGED faults \/ faults' = faults + 1
          \/ /\ Fault /\ Ended(l, "no")
             /\ \E e \in Dict \ {d} :
                  /\ served[e] # 0 /\ Invalidate({d, e}) /\ clashed' = clashed \cup {d, e}
                  /\ health' = [health EXCEPT ![d] = "reimportRequired", ![e] = "reimportRequired"]
                  /\ backoff' = backoff \ {d, e}
          \/ /\ Publishable(l, d) /\ Same(l, d)
             /\ Ended(l, "yes") /\ registered' = Unregistered(l, d)
             /\ served' = [served EXCEPT ![d] = load[l].from] /\ failure' = [failure EXCEPT ![d] = "none"]
             /\ Becomes(d, "available") /\ UNCHANGED <<epoch, gen, clashed, faults>>
      BY Zenon DEF Finish, Fault
    <3>3. ASSUME \/ UNCHANGED failure
                 \/ failure' = [failure EXCEPT ![d] = "lasting"]
                 \/ failure' = [failure EXCEPT ![d] = "transient"]
          PROVE  failure' \in [Dict -> {"none", "transient", "lasting"}]
      BY <3>1, <3>3
    <3>4. ASSUME UNCHANGED faults \/ faults' = faults + 1 PROVE faults' \in Nat
      BY <3>1, <3>4
    <3> QED
      BY <3>2, <3>3, <3>4, Zenon
  <2>6. CASE /\ UNCHANGED <<epoch, gen, served, status, clashed>>
             /\ Ended(l, "no") /\ registered' = Unregistered(l, d)
             /\ failure' \in [Dict -> {"none", "transient", "lasting"}] /\ faults' \in Nat
    <3>1. Ends("no", {})
      BY <2>2, <2>6
    <3> HIDE DEF Ends
    <3> QED
      BY <3>1
  <2>7. CASE /\ Fault /\ Ended(l, "no")
             /\ \E e \in Dict \ {d} :
                  /\ served[e] # 0 /\ Invalidate({d, e}) /\ clashed' = clashed \cup {d, e}
                  /\ health' = [health EXCEPT ![d] = "reimportRequired", ![e] = "reimportRequired"]
                  /\ backoff' = backoff \ {d, e}
    <3>1. \E e \in Dict : Ends("no", {d, e})
      <4> HIDE DEF Ends
      <4> QED
        BY <2>3, <2>7
    <3> HIDE DEF Ends
    <3> QED
      BY <1>1, <3>1
  <2>8. CASE /\ Publishable(l, d) /\ Same(l, d)
             /\ Ended(l, "yes") /\ registered' = Unregistered(l, d)
             /\ served' = [served EXCEPT ![d] = load[l].from] /\ failure' = [failure EXCEPT ![d] = "none"]
             /\ Becomes(d, "available") /\ UNCHANGED <<epoch, gen, clashed, faults>>
    <3>1. Ends("yes", {})
      BY <2>4, <2>8
    <3> HIDE DEF Ends
    <3> QED
      BY <3>1
  <2> HIDE DEF Ends
  <2> QED
    BY <2>5, <2>6, <2>7, <2>8
<1>4. /\ load' \in [Loader -> LoadState] /\ load'[l].at = at
      /\ \A k \in Loader : load'[k] = load[k] \/ (load'[k].at = at /\ On(k) = d)
  BY <1>3, EndedFacts
<1>5. TypeOK'
  <2>1. StoreType'
    BY <1>1, <1>3 DEF TypeOK, StoreType, files, owners
  <2>2. TurnType' /\ RepairType' /\ LoadType' /\ CallType'
    BY <1>1, <1>3, <1>4 DEF TypeOK, TurnType, RepairType, LoadType, CallType, turns, repairs, calls
  <2> QED
    BY <2>1, <2>2 DEF TypeOK
<1>6. \A e \in Dict \ D : Now(e)' = Now(e) /\ Condemned(e)' = Condemned(e)
  BY <1>2, <1>3 DEF Now, Condemned
<1>7. \A e \in D : Condemned(e)'
  BY <1>3 DEF Condemned
<1>8. LoadShape'
  <2>1. \A b \in Call : phase'[b] = "repaired" => Of[b] \notin deleting'
    BY <1>2 DEF StoreInv, LoadShape
  <2>2. \A k \in Loader : load'[k] = load[k] \/ load'[k].at \in {"none", "yes", "no"}
    BY <1>4
  <2>3. \A e \in Dict \ D : gen'[e] = gen[e] /\ shard'[e] = shard[e] /\ (e \in deleting' => e \in deleting)
    BY <1>2, <1>3
  <2>4. \A e \in D : gen'[e] = gen[e] + 1
    BY <1>3
  <2>5. \A e \in Dict : registered'[e] \in {registered[e], Nobody}
    BY <1>3
  <2> QED
    BY <1>1, <2>1, <2>2, <2>3, <2>4, <2>5, LoadsKept
<1>9. RepairsAlone' /\ QueueShape'
  <2>1. \A e \in Delete : e \in Dict /\ (health[e] # "repairing" => health'[e] # "repairing")
    BY <1>3, BoundAssumption
  <2> QED
    BY <1>2, <2>1 DEF StoreInv, RepairsAlone, QueueShape, Queued
<1>10. SessionShape'
  <2>1. stage = "preparing" => D = {}
    BY <1>3 DEF StoreInv, ServedCurrent, SessionShape
  <2> QED
    BY <1>2, <1>6, <2>1 DEF StoreInv, SessionShape, Queued
<1>11. ServedCurrent'
  <2>1. at = "yes" => load[l].from = shard[d] /\ d \notin deleting /\ session = {}
    <3>1. at = "yes" => load[l].stamp = Now(d) /\ ~importing
      BY <1>3 DEF Publishable, Current, Same
    <3> QED
      BY <1>1, <3>1 DEF StoreInv, LoadShape, SessionShape
  <2> QED
    BY <1>2, <1>3, <2>1 DEF StoreInv, ServedCurrent
<1>12. RepairShape'
  <2>1. ASSUME NEW e \in Dict
        PROVE  /\ repair'[e] # "none" =>
                    /\ \E i \in DOMAIN tail' : tail'[i] = e
                    /\ e \notin deleting' /\ (stage' = "draining" => e \in cancelled')
               /\ repair'[e] \in Repairing => tail' # <<>> /\ Head(tail') = e /\ (Condemned(e)' => e \in clashed')
               /\ repair'[e] \in Rebuilding \cup {"queued"} => begun'[e] = Now(e)' \/ Condemned(e)'
               /\ repair'[e] \in {"rebuilt", "loading"} => After(begun'[e]) = Now(e)' \/ Condemned(e)'
    BY <1>2, <1>3, <1>6, <1>7 DEF StoreInv, RepairShape, After
  <2>2. ASSUME NEW e \in Dict, repair'[e] \in Rebuilding \cup {"queued"}
        PROVE  e \in reload' \/ \E b \in Call : Of[b] = e /\ phase'[b] = "repairing" /\ seen'[b] = begun'[e]
    BY <1>2, <2>2 DEF StoreInv, RepairShape
  <2>3. ASSUME NEW e \in Dict, repair'[e] = "loading", health'[e] = "repairing"
        PROVE  load'[e].at # "yes"
    <3>1. health[e] = "repairing" /\ ~(at = "yes" /\ e = d)
      BY <1>3, <2>3
    <3>2. load[e].at # "yes"
      BY <1>2, <2>3, <3>1 DEF StoreInv, RepairShape
    <3> QED
      BY <1>4, <3>1, <3>2, OnDict
  <2> QED
    BY <2>1, <2>2, <2>3 DEF RepairShape, After, Repairing, Rebuilding
<1>13. RepairsHeld'
  <2>1. ASSUME NEW e \in Dict, health'[e] = "repairing", ~Abandoned(e)',
                   repair'[e] \notin Repairing, e \notin session'
        PROVE  TakenOver(e)'
    <3>1. e \notin D /\ health[e] = "repairing" /\ ~(at = "yes" /\ e = d)
      BY <1>3, <2>1
    <3>2. TakenOver(e)
      BY <1>2, <1>6, <2>1, <3>1 DEF StoreInv, RepairsHeld, Abandoned
    <3>3. \A c \in Call : Of[c] = e /\ load[c].at # "yes" => load'[c].at # "yes"
      BY <1>4, <3>1, OnDict
    <3> QED
      BY <1>2, <1>6, <3>1, <3>2, <3>3 DEF TakenOver, After
  <2> QED
    BY <2>1 DEF RepairsHeld, Repairing, Rebuilding
<1> QED
  BY <1>5, <1>8, <1>9, <1>10, <1>11, <1>12, <1>13 DEF StoreInv

-------------------------------------------------------------------------------
(* Repairs *)

\* A repair under way has the store for itself, or is cancelled.
LEMMA RepairFacts ==
    ASSUME StoreInv, NEW d \in Dict, repair[d] # "none"
    PROVE  /\ TypeOK /\ d \notin deleting /\ ~importing /\ session = {} /\ stage \in {"none", "draining"}
           /\ ~Owned(d) => d \in cancelled
           /\ repair[d] \in Rebuilding \cup {"queued"} => begun[d] = Now(d) \/ Condemned(d)
           /\ repair[d] \in {"rebuilt", "loading"} => After(begun[d]) = Now(d) \/ Condemned(d)
           /\ repair[d] \in Repairing => tail # <<>> /\ Head(tail) = d
           /\ health[d] \in Health
<1>1. /\ TypeOK /\ d \notin deleting /\ ~importing /\ session = {} /\ stage \in {"none", "draining"}
      /\ stage = "draining" => d \in cancelled
  BY DEF StoreInv, RepairShape, RepairsAlone, SessionShape
<1>2. ~Owned(d) => d \in cancelled
  BY <1>1 DEF Owned, Mutating
<1>3. /\ repair[d] \in Rebuilding \cup {"queued"} => begun[d] = Now(d) \/ Condemned(d)
      /\ repair[d] \in {"rebuilt", "loading"} => After(begun[d]) = Now(d) \/ Condemned(d)
      /\ repair[d] \in Repairing => tail # <<>> /\ Head(tail) = d
  BY DEF StoreInv, RepairShape
<1>4. health[d] \in Health
  BY <1>1 DEF TypeOK, StoreType
<1> QED
  BY <1>1, <1>2, <1>3, <1>4

\* A repair that gives way says so.
LEMMA GivesWay ==
    ASSUME StoreInv, NEW d \in Dict, repair[d] # "none", Head(tail) = d, NEW stamp, NEW ok \in BOOLEAN,
           stamp = Now(d) \/ Condemned(d), ~(Owned(d) /\ Current(d, stamp)), Settles(d, ok, stamp, health[d])
    PROVE  health'[d] # "repairing"
<1>1. (~Owned(d) => d \in cancelled) /\ health[d] \in Health
  BY RepairFacts
<1>2. /\ health'[d] \in {health[d], "repairPending"}
      /\ health[d] = "reimportRequired" => health'[d] = health[d]
      /\ d \in cancelled /\ stamp = Now(d) /\ health[d] # "reimportRequired" => health'[d] = "repairPending"
  BY <1>1, SettlesFacts
<1> QED
  BY <1>1, <1>2 DEF Current, Condemned

\* No other repair announces itself when one settles.
LEMMA SettledHealth ==
    ASSUME StoreInv, NEW d \in Dict, NEW ok \in BOOLEAN, NEW stamp, NEW h \in Health \ {"repairing"},
           repair[d] # "none", Head(tail) = d, Settles(d, ok, stamp, h)
    PROVE  health'[d] # "repairing"
BY DEF Settles, StoreInv, TypeOK, StoreType

\* What is left to show of a repair that settles.
LEMMA SettledStep ==
    ASSUME StoreInv, NEW d \in Dict, NEW ok \in BOOLEAN, NEW stamp, NEW h \in Health,
           repair[d] # "none", Head(tail) = d, Settles(d, ok, stamp, h),
           UNCHANGED <<files, owners, turns, clashed, epoch>>,
           \A e \in Dict \ {d} : gen'[e] = gen[e], gen' \in [Dict -> Nat], gen'[d] \in {gen[d], gen[d] + 1},
           \A e \in Dict : served'[e] \in {served[e], 0}, served' \in [Dict -> Nat],
           failure' \in [Dict -> {"none", "transient", "lasting"}], backoff' \subseteq Dict, faults' \in Nat,
           registered' \in [Dict -> Loader \cup {Nobody}], load' \in [Loader -> LoadState],
           \A e \in Dict : registered'[e] \in {registered[e], Nobody},
           \A l \in Loader : load'[l] = load[l] \/ (l = d /\ load'[l].at = "none"),
           health'[d] # "repairing" \/ TakenOver(d)'
    PROVE  StoreInv'
<1>1. RepairType' /\ CallType' /\ health' \in [Dict -> Health]
  BY SettlesFacts
<1>2. TypeOK'
  <2>1. TypeOK
    BY DEF StoreInv
  <2>2. StoreType'
    BY <1>1, <2>1 DEF TypeOK, StoreType, files, owners
  <2>3. TurnType' /\ LoadType'
    BY <2>1 DEF TypeOK, TurnType, LoadType, turns
  <2> QED
    BY <1>1, <2>2, <2>3 DEF TypeOK
<1>3. /\ RepairsAlone' /\ QueueShape' /\ SessionShape' /\ RepairShape' /\ RepairsHeld'
      /\ \A c \in Call : phase'[c] = "repaired" => Of[c] \notin deleting'
  <2>1. \A c \in Call : load'[c] = load[c]
    BY OnDict, CallAssumption
  <2> QED
    BY <2>1, SettledRepairs
<1>4. ServedCurrent'
  BY DEF StoreInv, ServedCurrent, files, owners
<1>5. LoadShape'
  <2>1. \A l \in Loader : load'[l] = load[l] \/ load'[l].at \in {"none", "yes", "no"}
    OBVIOUS
  <2>2. \A e \in Dict : shard'[e] = shard[e] /\ (e \in deleting' => e \in deleting)
    BY DEF files, owners
  <2>3. CASE gen'[d] = gen[d]
    <3>1. \A e \in Dict \ {} : gen'[e] = gen[e]
      BY <2>3
    <3>2. {} \in SUBSET Dict /\ \A e \in {} : gen'[e] = gen[e] + 1
      OBVIOUS
    <3> QED
      BY <1>3, <2>1, <2>2, <3>1, <3>2, LoadsKept
  <2>4. CASE gen'[d] = gen[d] + 1
    <3>1. {d} \in SUBSET Dict /\ \A e \in {d} : gen'[e] = gen[e] + 1
      BY <2>4
    <3> QED
      BY <1>3, <2>1, <2>2, <3>1, LoadsKept
  <2> QED
    BY <2>3, <2>4
<1> QED
  BY <1>2, <1>3, <1>4, <1>5 DEF StoreInv

\* What a repair leaves alone when it settles without publishing anything.
LEMMA SettledQuietly ==
    ASSUME StoreInv, NEW d \in Dict, NEW ok \in BOOLEAN, NEW stamp, NEW h \in Health,
           repair[d] # "none", Head(tail) = d, Settles(d, ok, stamp, h),
           UNCHANGED <<files, owners, lookup, turns, load, clashed>>, backoff' \subseteq Dict, faults' \in Nat,
           health'[d] # "repairing" \/ TakenOver(d)'
    PROVE  StoreInv'
<1>1. UNCHANGED <<epoch, gen, served, failure, registered, load>>
  BY DEF lookup
<1>2. /\ gen \in [Dict -> Nat] /\ served \in [Dict -> Nat] /\ failure \in [Dict -> {"none", "transient", "lasting"}]
      /\ registered \in [Dict -> Loader \cup {Nobody}] /\ load \in [Loader -> LoadState]
  BY DEF StoreInv, TypeOK, StoreType, LoadType
<1> QED
  BY <1>1, <1>2, SettledStep

\* A repair gives way.
LEMMA SupersededStep ==
    ASSUME StoreInv, NEW d \in Dict, Superseded(d)
    PROVE  StoreInv'
<1>1. /\ repair[d] \in {"queued", "reading", "writing", "closed"} /\ Head(tail) = d
      /\ ~(Owned(d) /\ Current(d, begun[d])) /\ Settles(d, FALSE, begun[d], health[d])
      /\ UNCHANGED <<files, owners, lookup, backoff, turns, load, clashed, faults>>
  BY DEF Superseded
<1>2. (begun[d] = Now(d) \/ Condemned(d)) /\ health[d] \in Health
  BY <1>1, RepairFacts DEF Rebuilding
<1>3. health'[d] # "repairing"
  BY <1>1, <1>2, GivesWay
<1>4. backoff' \subseteq Dict /\ faults' \in Nat
  BY <1>1 DEF StoreInv, TypeOK, StoreType
<1> QED
  BY <1>1, <1>2, <1>3, <1>4, SettledQuietly

\* A step of a repair that has the store for itself.
LEMMA RepairSteps ==
    ASSUME StoreInv, NEW d \in Dict, repair[d] # "none", Head(tail) = d, tail # <<>>,
           NEW r \in Repairing, repair' = [repair EXCEPT ![d] = r],
           UNCHANGED <<shard, created, owners, epoch, turns, clashed, tail, cancelled, begun, reload, calls>>,
           \A e \in Dict \ {d} : gen'[e] = gen[e] /\ health'[e] = health[e],
           r \in Rebuilding => repair[d] \in Rebuilding \cup {"queued"} /\ gen'[d] = gen[d],
           r \in {"rebuilt", "loading"} => After(begun[d]) = Now(d)',
           \A c \in Call : load'[c] = load[c],
           ~Condemned(d), health'[d] # "reimportRequired",
           r = "loading" /\ health'[d] = "repairing" => load'[d].at # "yes"
    PROVE  RepairsAlone' /\ QueueShape' /\ SessionShape' /\ RepairShape' /\ RepairsHeld'
<1>1. UNCHANGED <<deleting, importing, session, epoch, queue, asked, stage, phase, seen>>
  BY DEF owners, turns, calls
<1>2. ~importing /\ stage \in {"none", "draining"}
  BY RepairFacts
<1>3. RepairsAlone' /\ QueueShape' /\ SessionShape'
  BY <1>1, <1>2 DEF StoreInv, RepairsAlone, QueueShape, SessionShape, Queued
<1>4. repair'[d] = r /\ \A e \in Dict \ {d} : repair'[e] = repair[e]
  BY DEF StoreInv, TypeOK, RepairType
<1>5. \A e \in Dict \ {d} : Now(e)' = Now(e) /\ Condemned(e)' = Condemned(e)
  BY DEF Now, Condemned
<1>6. ~Condemned(d)' /\ (gen'[d] = gen[d] => Now(d)' = Now(d))
  BY DEF Condemned, Now
<1>7. \A e \in Dict \ {d} : repair[e] \in {"none", "queued"}
  BY DEF StoreInv, TypeOK, RepairType, RepairShape, Repairing, Rebuilding
<1>8. RepairShape'
  <2>1. ASSUME NEW e \in Dict, repair'[e] # "none"
        PROVE  /\ \E i \in DOMAIN tail' : tail'[i] = e
               /\ e \notin deleting' /\ (stage' = "draining" => e \in cancelled')
    BY <1>1, <1>4, <2>1 DEF StoreInv, RepairShape
  <2>2. ASSUME NEW e \in Dict, repair'[e] \in Rebuilding \cup {"queued"}
        PROVE  /\ begun'[e] = Now(e)' \/ Condemned(e)'
               /\ e \in reload' \/ \E c \in Call : Of[c] = e /\ phase'[c] = "repairing" /\ seen'[c] = begun'[e]
    <3>1. repair[e] \in Rebuilding \cup {"queued"} /\ Now(e)' = Now(e) /\ (Condemned(e) => Condemned(e)')
      <4>1. CASE e = d
        <5>1. r \in Rebuilding
          BY <1>4, <2>2, <4>1 DEF Repairing, Rebuilding
        <5> QED
          BY <1>6, <4>1, <5>1
      <4>2. CASE e # d
        BY <1>4, <1>5, <2>2, <4>2
      <4> QED
        BY <4>1, <4>2
    <3> QED
      BY <1>1, <3>1 DEF StoreInv, RepairShape
  <2>3. ASSUME NEW e \in Dict, repair'[e] \in Repairing
        PROVE  e = d
    BY <1>4, <1>7, <2>3 DEF Repairing, Rebuilding
  <2> QED
    BY <1>4, <1>6, <2>1, <2>2, <2>3 DEF RepairShape, After, Repairing, Rebuilding
<1>9. RepairsHeld'
  <2>1. ASSUME NEW e \in Dict, health'[e] = "repairing", ~Abandoned(e)',
                   repair'[e] \notin Repairing, e \notin session'
        PROVE  TakenOver(e)'
    <3>1. e # d
      BY <1>4, <2>1
    <3>2. TakenOver(e)
      BY <1>1, <1>4, <1>5, <2>1, <3>1 DEF StoreInv, RepairsHeld, Abandoned
    <3> QED
      BY <1>1, <1>5, <3>1, <3>2 DEF TakenOver, After
  <2> QED
    BY <2>1 DEF RepairsHeld, Repairing, Rebuilding
<1> QED
  BY <1>3, <1>8, <1>9

\* A repair announces itself, or finds no container.
LEMMA RepairBeginsStep ==
    ASSUME StoreInv, NEW d \in Dict, RepairBegins(d)
    PROVE  StoreInv'
<1>1. /\ repair[d] = "queued" /\ Head(tail) = d /\ Current(d, begun[d])
      /\ UNCHANGED <<files, owners, lookup, backoff, turns, load, clashed, faults>>
      /\ IF shard[d] = 0 THEN Settles(d, FALSE, begun[d], "reimportRequired")
         ELSE /\ repair' = [repair EXCEPT ![d] = "reading"] /\ health' = [health EXCEPT ![d] = "repairing"]
              /\ UNCHANGED <<tail, cancelled, begun, reload, calls>>
  BY DEF RepairBegins, Proceeds
<1>2. TypeOK
  BY DEF StoreInv
<1>3. CASE shard[d] = 0
  <2>1. Settles(d, FALSE, begun[d], "reimportRequired") /\ "reimportRequired" \in Health \ {"repairing"}
    BY <1>1, <1>3 DEF Health
  <2>2. health'[d] # "repairing"
    BY <1>1, <2>1, SettledHealth
  <2>3. backoff' \subseteq Dict /\ faults' \in Nat
    BY <1>1, <1>2 DEF TypeOK, StoreType
  <2> QED
    BY <1>1, <2>1, <2>2, <2>3, SettledQuietly
<1>4. CASE shard[d] # 0
  <2>1. /\ repair' = [repair EXCEPT ![d] = "reading"] /\ health' = [health EXCEPT ![d] = "repairing"]
        /\ UNCHANGED <<tail, cancelled, begun, reload, calls>>
    BY <1>1, <1>4
  <2>2. TypeOK'
    BY <1>1, <1>2, <2>1 DEF TypeOK, StoreType, TurnType, RepairType, LoadType, CallType, Health,
       files, owners, lookup, turns, calls
  <2>3. health'[d] = "repairing" /\ \A e \in Dict \ {d} : health'[e] = health[e]
    BY <1>2, <2>1 DEF TypeOK, StoreType
  <2>4. tail # <<>>
    <3>1. \E i \in DOMAIN tail : tail[i] = d
      BY <1>1 DEF StoreInv, RepairShape
    <3> QED
      BY <1>2, <3>1 DEF TypeOK, RepairType
  <2>5. RepairsAlone' /\ QueueShape' /\ SessionShape' /\ RepairShape' /\ RepairsHeld'
    <3>1. "reading" \in Repairing /\ "reading" \notin {"rebuilt", "loading"} /\ ~Condemned(d)
      BY <1>1 DEF Repairing, Rebuilding, Current, Condemned
    <3>2. UNCHANGED <<shard, created, owners, epoch, gen, turns, clashed, load>>
      BY <1>1 DEF files, lookup
    <3> QED
      BY <1>1, <2>1, <2>3, <2>4, <3>1, <3>2, RepairSteps
  <2>6. ServedCurrent'
    BY <1>1 DEF StoreInv, ServedCurrent, files, owners, lookup
  <2>7. LoadShape'
    BY <1>1, <2>1 DEF StoreInv, LoadShape, Now, files, owners, lookup, calls
  <2> QED
    BY <2>2, <2>5, <2>6, <2>7 DEF StoreInv
<1> QED
  BY <1>3, <1>4

\* A repair reads the container, or condemns the dictionary.
LEMMA RepairReadsStep ==
    ASSUME StoreInv, NEW d \in Dict, RepairReads(d)
    PROVE  StoreInv'
<1>1. /\ repair[d] = "reading" /\ Head(tail) = d /\ Current(d, begun[d])
      /\ UNCHANGED <<files, owners, turns, load, clashed, faults>>
  BY DEF RepairReads, Proceeds
<1>2. TypeOK /\ tail # <<>>
  BY <1>1, RepairFacts DEF Repairing, Rebuilding
<1>3. CASE /\ repair' = [repair EXCEPT ![d] = "writing"]
           /\ UNCHANGED <<lookup, status, tail, cancelled, begun, reload, calls>>
  <2>1. TypeOK'
    BY <1>1, <1>2, <1>3 DEF TypeOK, StoreType, TurnType, RepairType, LoadType, CallType, files,
       owners, lookup, status, turns, calls
  <2>2. RepairsAlone' /\ QueueShape' /\ SessionShape' /\ RepairShape' /\ RepairsHeld'
    <3>1. "writing" \in Repairing /\ "writing" \notin {"rebuilt", "loading"} /\ repair[d] \in Rebuilding
          /\ ~Condemned(d) /\ health[d] # "reimportRequired"
      BY <1>1 DEF Repairing, Rebuilding, Current, Condemned
    <3>2. UNCHANGED <<shard, created, owners, epoch, gen, turns, clashed, load, health>>
      BY <1>1, <1>3 DEF files, lookup, status
    <3> QED
      BY <1>1, <1>2, <1>3, <3>1, <3>2, RepairSteps
  <2>3. ServedCurrent'
    BY <1>1, <1>3 DEF StoreInv, ServedCurrent, files, owners, lookup
  <2>4. LoadShape'
    BY <1>1, <1>3 DEF StoreInv, LoadShape, Now, files, owners, lookup, calls
  <2> QED
    BY <2>1, <2>2, <2>3, <2>4 DEF StoreInv
<1>4. CASE Invalidate({d}) /\ backoff' = backoff \ {d} /\ Settles(d, FALSE, begun[d], "reimportRequired")
  <2>1. "reimportRequired" \in Health \ {"repairing"} /\ {d} \subseteq Dict
    BY DEF Health
  <2>2. health'[d] # "repairing"
    BY <1>1, <1>4, <2>1, SettledHealth
  <2>3. /\ epoch' = epoch /\ gen' \in [Dict -> Nat] /\ served' \in [Dict -> Nat]
        /\ failure' \in [Dict -> {"none", "transient", "lasting"}]
        /\ registered' \in [Dict -> Loader \cup {Nobody}]
        /\ \A e \in Dict \ {d} : gen'[e] = gen[e] /\ served'[e] = served[e]
        /\ gen'[d] = gen[d] + 1 /\ served'[d] = 0
        /\ \A e \in Dict : registered'[e] \in {registered[e], Nobody}
    BY <1>2, <1>4, <2>1, InvalidateFacts
  <2>4. load' \in [Loader -> LoadState] /\ backoff' \subseteq Dict /\ faults' \in Nat
    BY <1>1, <1>2, <1>4 DEF TypeOK, StoreType, LoadType
  <2> QED
    BY <1>1, <1>4, <2>1, <2>2, <2>3, <2>4, SettledStep
<1> QED
  BY <1>3, <1>4 DEF RepairReads

\* A repair that fails is put off.
LEMMA RepairFailsStep ==
    ASSUME StoreInv, NEW d \in Dict, RepairFails(d)
    PROVE  StoreInv'
<1>1. /\ repair[d] \in {"reading", "writing"} /\ Head(tail) = d /\ Fault /\ backoff' = backoff \cup {d}
      /\ Settles(d, FALSE, begun[d], "temporarilyUnavailable")
      /\ "temporarilyUnavailable" \in Health \ {"repairing"}
      /\ UNCHANGED <<files, owners, lookup, turns, load, clashed>>
  BY DEF RepairFails, Proceeds, Health
<1>2. health'[d] # "repairing"
  BY <1>1, SettledHealth
<1>3. backoff' \subseteq Dict /\ faults' \in Nat
  BY <1>1 DEF StoreInv, TypeOK, StoreType, Fault
<1> QED
  BY <1>1, <1>2, <1>3, SettledQuietly

\* A repair closes the container only for the generation it began with.
LEMMA RepairClosesStep ==
    ASSUME StoreInv, NEW d \in Dict, RepairCloses(d)
    PROVE  StoreInv'
<1>1. /\ repair[d] = "writing" /\ Head(tail) = d /\ Current(d, begun[d])
      /\ repair' = [repair EXCEPT ![d] = "closing"]
      /\ UNCHANGED <<files, owners, lookup, status, turns, tail, cancelled, begun, reload, calls, load,
                     clashed, faults>>
  BY DEF RepairCloses, Proceeds
<1>2. TypeOK /\ tail # <<>>
  BY <1>1, RepairFacts DEF Repairing, Rebuilding
<1>3. TypeOK'
  BY <1>1, <1>2 DEF TypeOK, StoreType, TurnType, RepairType, LoadType, CallType, files, owners,
     lookup, status, turns, calls
<1>4. RepairsAlone' /\ QueueShape' /\ SessionShape' /\ RepairShape' /\ RepairsHeld'
  <2>1. /\ "closing" \in Repairing /\ "closing" \notin {"rebuilt", "loading"} /\ repair[d] \in Rebuilding
        /\ ~Condemned(d) /\ health[d] # "reimportRequired"
    BY <1>1 DEF Repairing, Rebuilding, Current, Condemned
  <2>2. UNCHANGED <<shard, created, owners, epoch, gen, turns, clashed, load, health>>
    BY <1>1 DEF files, lookup, status
  <2> QED
    BY <1>1, <1>2, <2>1, <2>2, RepairSteps
<1>5. ServedCurrent'
  BY <1>1 DEF StoreInv, ServedCurrent, files, owners, lookup
<1>6. LoadShape'
  BY <1>1 DEF StoreInv, LoadShape, Now, files, owners, lookup, calls
<1> QED
  BY <1>3, <1>4, <1>5, <1>6 DEF StoreInv

\* Also a repair whose dictionary is condemned meanwhile closes its container.
LEMMA RepairClosedStep ==
    ASSUME StoreInv, NEW d \in Dict, RepairClosed(d)
    PROVE  StoreInv'
<1>1. /\ repair[d] = "closing"
      /\ disk' = [disk EXCEPT ![d] = "good"] /\ repair' = [repair EXCEPT ![d] = "closed"]
      /\ UNCHANGED <<shard, shards, directory, created, owners, lookup, status, turns, tail, cancelled, begun,
                     reload, calls, load, clashed, faults>>
  BY DEF RepairClosed
<1>2. TypeOK
  BY DEF StoreInv
<1>3. TypeOK'
  BY <1>1, <1>2 DEF TypeOK, StoreType, TurnType, RepairType, LoadType, CallType, owners, lookup,
     status, turns, calls
<1>4. UNCHANGED <<shard, created, deleting, importing, session, epoch, gen, served, queue, asked, stage, health,
                  phase, seen, load, clashed>>
  BY <1>1 DEF owners, lookup, status, turns, calls
<1>5. \A e \in Dict : /\ repair'[e] = IF e = d THEN "closed" ELSE repair[e]
                      /\ Now(e)' = Now(e) /\ Condemned(e)' = Condemned(e)
  BY <1>1, <1>2, <1>4 DEF TypeOK, RepairType, Now, Condemned
<1>6. RepairsAlone' /\ ServedCurrent' /\ QueueShape' /\ SessionShape'
  <2>1. ~importing /\ stage \in {"none", "draining"}
    BY <1>1, RepairFacts
  <2> QED
    BY <1>4, <2>1 DEF StoreInv, RepairsAlone, ServedCurrent, QueueShape, SessionShape, Queued
<1>7. RepairShape'
  <2>1. ASSUME NEW e \in Dict
        PROVE  /\ repair'[e] # "none" <=> repair[e] # "none"
               /\ repair'[e] \in Repairing <=> repair[e] \in Repairing
               /\ repair'[e] \in Rebuilding \cup {"queued"} <=> repair[e] \in Rebuilding \cup {"queued"}
               /\ repair'[e] \in {"rebuilt", "loading"} => repair[e] = repair'[e]
    BY <1>1, <1>5 DEF Repairing, Rebuilding
  <2> QED
    BY <1>1, <1>4, <1>5, <2>1 DEF StoreInv, RepairShape, After, Repairing, Rebuilding
<1>8. RepairsHeld'
  <2>1. \A e \in Dict : TakenOver(e) => TakenOver(e)'
    BY <1>4, <1>5 DEF TakenOver, After
  <2> QED
    BY <1>4, <1>5, <2>1 DEF StoreInv, RepairsHeld, Abandoned, Repairing, Rebuilding
<1>9. LoadShape'
  BY <1>1, <1>4 DEF StoreInv, LoadShape, Now, lookup
<1> QED
  BY <1>3, <1>6, <1>7, <1>8, <1>9 DEF StoreInv

\* A repair publishes a generation, and leaves it to whoever loads the index next.
LEMMA RepairedStep ==
    ASSUME StoreInv, NEW d \in Dict, Repaired(d)
    PROVE  StoreInv'
<1>1. /\ repair[d] = "closed" /\ Head(tail) = d /\ Current(d, begun[d]) /\ Invalidate({d})
      /\ UNCHANGED <<files, owners, backoff, turns, load, clashed, faults>>
  BY DEF Repaired, Proceeds
<1>2. TypeOK /\ tail # <<>> /\ health[d] \in Health /\ ~Condemned(d) /\ begun[d] = Now(d)
  BY <1>1, RepairFacts DEF Repairing, Rebuilding, Current, Condemned
<1>3. /\ epoch' = epoch /\ gen' \in [Dict -> Nat] /\ served' \in [Dict -> Nat]
      /\ failure' \in [Dict -> {"none", "transient", "lasting"}]
      /\ registered' \in [Dict -> Loader \cup {Nobody}]
      /\ \A e \in Dict \ {d} : gen'[e] = gen[e] /\ served'[e] = served[e]
      /\ gen'[d] = gen[d] + 1 /\ served'[d] = 0 /\ Now(d)' = After(Now(d))
      /\ \A e \in Dict : registered'[e] \in {registered[e], Nobody}
  <2>1. {d} \subseteq Dict
    OBVIOUS
  <2> QED
    BY <1>1, <1>2, <2>1, InvalidateFacts
<1>4. load' \in [Loader -> LoadState] /\ backoff' \subseteq Dict /\ faults' \in Nat
  BY <1>1, <1>2 DEF TypeOK, StoreType, LoadType
<1>5. CASE d \in reload
  <2>1. repair' = [repair EXCEPT ![d] = "rebuilt"] /\ UNCHANGED <<tail, cancelled, begun, reload, calls, health>>
    BY <1>5 DEF Repaired
  <2>2. TypeOK'
    BY <1>1, <1>2, <1>3, <2>1 DEF TypeOK, StoreType, TurnType, RepairType, LoadType, CallType,
       files, owners, turns, calls
  <2>3. RepairsAlone' /\ QueueShape' /\ SessionShape' /\ RepairShape' /\ RepairsHeld'
    <3>1. /\ "rebuilt" \in Repairing /\ "rebuilt" \notin Rebuilding /\ health[d] # "reimportRequired"
          /\ After(begun[d]) = Now(d)'
      BY <1>2, <1>3 DEF Repairing, Rebuilding, Condemned
    <3>2. UNCHANGED <<shard, created, owners, turns, clashed, load>>
      BY <1>1 DEF files
    <3> QED
      BY <1>1, <1>2, <1>3, <2>1, <3>1, <3>2, RepairSteps
  <2>4. ServedCurrent'
    BY <1>1, <1>3 DEF StoreInv, ServedCurrent, files, owners
  <2>5. LoadShape'
    <3>1. \A c \in Call : phase'[c] = "repaired" => Of[c] \notin deleting'
      BY <1>1, <2>1 DEF StoreInv, LoadShape, owners, calls
    <3>2. {d} \in SUBSET Dict /\ \A e \in {d} : gen'[e] = gen[e] + 1
      BY <1>3
    <3>3. \A e \in Dict \ {d} : gen'[e] = gen[e] /\ shard'[e] = shard[e] /\ (e \in deleting' => e \in deleting)
      BY <1>1, <1>3 DEF files, owners
    <3>4. \A l \in Loader : load'[l] = load[l]
      BY <1>1
    <3> QED
      BY <1>3, <3>1, <3>2, <3>3, <3>4, LoadsKept
  <2> QED
    BY <2>2, <2>3, <2>4, <2>5 DEF StoreInv
<1>6. CASE d \notin reload
  <2>1. Settles(d, TRUE, After(begun[d]), health[d])
    BY <1>6 DEF Repaired
  <2>2. PICK c \in Call : Of[c] = d /\ phase[c] = "repairing" /\ seen[c] = begun[d]
    BY <1>1, <1>6 DEF StoreInv, RepairShape, Rebuilding
  <2>3. phase'[c] = "repaired" /\ seen'[c] = seen[c]
    BY <1>1, <1>2, <2>1, <2>2, SettlesFacts
  <2>4. After(seen'[c]) = Now(d)'
    BY <1>2, <1>3, <2>2, <2>3
  <2>5. TakenOver(d)'
    BY <2>2, <2>3, <2>4 DEF TakenOver, After
  <2> QED
    BY <1>1, <1>2, <1>3, <1>4, <2>1, <2>5, SettledStep
<1> QED
  BY <1>5, <1>6

\* A repair loads the index itself.
LEMMA RepairLoadsStep ==
    ASSUME StoreInv, NEW d \in Dict, RepairLoads(d)
    PROVE  StoreInv'
<1>1. repair[d] = "rebuilt" /\ UNCHANGED <<files, owners, turns, clashed, faults>> /\ d \in Loader /\ On(d) = d
  BY OnDict DEF RepairLoads
<1>2. /\ TypeOK /\ tail # <<>> /\ Head(tail) = d /\ health[d] \in Health /\ d \notin deleting
      /\ After(begun[d]) = Now(d) \/ Condemned(d)
  BY <1>1, RepairFacts DEF Repairing
<1>3. CASE Owned(d) /\ Current(d, After(begun[d]))
  <2>1. /\ Started(d, d) /\ repair' = [repair EXCEPT ![d] = "loading"]
        /\ UNCHANGED <<epoch, gen, served, tail, cancelled, begun, reload, calls>>
    BY <1>3 DEF RepairLoads
  <2>2. ~Condemned(d) /\ After(begun[d]) = Now(d)
    BY <1>3 DEF Current, Condemned
  <2>3. LoadType' /\ LoadShape'
    <3>1. UNCHANGED <<shard, deleting, epoch, gen>> /\ \A c \in Call : phase'[c] = "repaired" => phase[c] = "repaired"
      BY <1>1, <2>1 DEF files, owners, calls
    <3> QED
      BY <1>1, <1>2, <2>1, <3>1, StartedLoads
  <2>4. /\ \A k \in Loader \ {d} : load'[k] = load[k]
        /\ failure' \in [Dict -> {"none", "transient", "lasting"}]
        /\ load'[d].at # "yes" => UNCHANGED status
        /\ load'[d].at = "yes" => health' = [health EXCEPT ![d] = "available"] /\ backoff' = backoff \ {d}
    BY <1>1, <1>2, <2>1, StartedFacts
  <2>5. /\ health' \in [Dict -> Health] /\ backoff' \subseteq Dict
        /\ \A e \in Dict \ {d} : health'[e] = health[e]
        /\ health'[d] # "reimportRequired" /\ (load'[d].at = "yes" => health'[d] # "repairing")
    BY <1>2, <2>2, <2>4 DEF TypeOK, StoreType, Health, Condemned, status
  <2>6. TypeOK'
    BY <1>1, <1>2, <2>1, <2>3, <2>4, <2>5 DEF TypeOK, StoreType, TurnType, RepairType, CallType,
       files, owners, turns, calls
  <2>7. RepairsAlone' /\ QueueShape' /\ SessionShape' /\ RepairShape' /\ RepairsHeld'
    <3>1. "loading" \in Repairing /\ "loading" \notin Rebuilding /\ After(begun[d]) = Now(d)'
      BY <2>1, <2>2 DEF Repairing, Rebuilding, Now
    <3>2. UNCHANGED <<shard, created, owners, turns, clashed>>
      BY <1>1 DEF files
    <3>3. \A c \in Call : load'[c] = load[c]
      BY <2>4, OnDict, CallAssumption
    <3>4. repair[d] # "none" /\ \A e \in Dict \ {d} : gen'[e] = gen[e] /\ health'[e] = health[e]
      BY <1>1, <2>1, <2>5
    <3> QED
      BY <1>2, <2>1, <2>2, <2>5, <3>1, <3>2, <3>3, <3>4, RepairSteps
  <2>8. ServedCurrent'
    BY <1>1, <2>1 DEF StoreInv, ServedCurrent, files, owners
  <2> QED
    BY <2>3, <2>6, <2>7, <2>8 DEF StoreInv
<1>4. CASE ~(Owned(d) /\ Current(d, After(begun[d])))
  <2>1. Settles(d, FALSE, After(begun[d]), health[d]) /\ UNCHANGED <<lookup, backoff, load>>
    BY <1>4 DEF RepairLoads
  <2>2. health'[d] # "repairing"
    BY <1>1, <1>2, <1>4, <2>1, GivesWay
  <2>3. backoff' \subseteq Dict /\ faults' \in Nat
    BY <1>1, <1>2, <2>1 DEF TypeOK, StoreType
  <2> QED
    BY <1>1, <1>2, <2>1, <2>2, <2>3, SettledQuietly
<1> QED
  BY <1>3, <1>4

\* A repair that has loaded the index is over.
LEMMA RepairLoadedStep ==
    ASSUME StoreInv, NEW d \in Dict, RepairLoaded(d)
    PROVE  StoreInv'
<1>1. /\ repair[d] = "loading" /\ load[d].at \in {"yes", "no"} /\ load' = [load EXCEPT ![d] = NoLoad]
      /\ UNCHANGED <<files, owners, lookup, turns, clashed, faults>> /\ d \in Loader
  BY OnDict DEF RepairLoaded
<1>2. /\ TypeOK /\ tail # <<>> /\ Head(tail) = d /\ health[d] \in Health
      /\ After(begun[d]) = Now(d) \/ Condemned(d)
  BY <1>1, RepairFacts DEF Repairing
<1>3. PICK h \in Health, ok \in BOOLEAN :
          /\ Settles(d, ok, After(begun[d]), h) /\ health'[d] # "repairing" /\ backoff' \subseteq Dict
  <2>1. backoff \subseteq Dict
    BY <1>2 DEF TypeOK, StoreType
  <2>2. CASE load[d].at = "no" /\ Owned(d) /\ Current(d, After(begun[d]))
    <3>1. /\ Settles(d, FALSE, After(begun[d]), "temporarilyUnavailable") /\ backoff' = backoff \cup {d}
          /\ "temporarilyUnavailable" \in Health \ {"repairing"}
      BY <2>2 DEF RepairLoaded, Health
    <3>2. health'[d] # "repairing"
      BY <1>1, <1>2, <3>1, SettledHealth
    <3> QED
      BY <2>1, <3>1, <3>2
  <2>3. CASE ~(load[d].at = "no" /\ Owned(d) /\ Current(d, After(begun[d])))
    <3> DEFINE ok == load[d].at = "yes" /\ Owned(d) /\ Current(d, After(begun[d]))
    <3>1. Settles(d, ok, After(begun[d]), health[d]) /\ UNCHANGED backoff
      BY <2>3 DEF RepairLoaded
    <3>2. ok \in BOOLEAN
      OBVIOUS
    <3> HIDE DEF ok
    <3>3. CASE Owned(d) /\ Current(d, After(begun[d]))
      <4>1. health[d] # "repairing"
        BY <1>1, <2>3, <3>3 DEF StoreInv, RepairShape
      <4> QED
        BY <1>1, <1>2, <2>1, <3>1, <3>2, <4>1, SettlesFacts
    <3>4. CASE ~(Owned(d) /\ Current(d, After(begun[d])))
      <4>1. health'[d] # "repairing"
        BY <1>1, <1>2, <3>1, <3>2, <3>4, GivesWay
      <4> QED
        BY <1>2, <2>1, <3>1, <3>2, <4>1
    <3> QED
      BY <3>3, <3>4
  <2> QED
    BY <2>2, <2>3
<1>4. /\ gen \in [Dict -> Nat] /\ served \in [Dict -> Nat] /\ failure \in [Dict -> {"none", "transient", "lasting"}]
      /\ registered \in [Dict -> Loader \cup {Nobody}] /\ faults \in Nat
  BY <1>2 DEF TypeOK, StoreType, LoadType
<1>5. /\ load' \in [Loader -> LoadState]
      /\ \A l \in Loader : load'[l] = load[l] \/ (l = d /\ load'[l].at = "none")
  BY <1>1, <1>2, LoadTypes DEF NoLoad
<1>6. /\ UNCHANGED <<epoch, gen, served, failure, registered, faults>>
      /\ UNCHANGED <<files, owners, turns, clashed, epoch>>
  BY <1>1 DEF lookup
<1>7. /\ \A e \in Dict \ {d} : gen'[e] = gen[e]
      /\ gen' \in [Dict -> Nat] /\ gen'[d] \in {gen[d], gen[d] + 1}
      /\ \A e \in Dict : served'[e] \in {served[e], 0}
      /\ served' \in [Dict -> Nat] /\ failure' \in [Dict -> {"none", "transient", "lasting"}] /\ faults' \in Nat
      /\ registered' \in [Dict -> Loader \cup {Nobody}]
      /\ \A e \in Dict : registered'[e] \in {registered[e], Nobody}
  BY <1>4, <1>6
<1>8. repair[d] # "none"
  BY <1>1
<1>9. health'[d] # "repairing" \/ TakenOver(d)'
  BY <1>3
<1> DEFINE stamp == After(begun[d])
<1>10. Settles(d, ok, stamp, h)
  BY <1>3
<1> HIDE DEF stamp
<1> QED
  BY <1>2, <1>3, <1>5, <1>6, <1>7, <1>8, <1>9, <1>10, SettledStep

\* A retry falls due.
LEMMA RetryDueStep ==
    ASSUME StoreInv, NEW d \in Dict, RetryDue(d)
    PROVE  StoreInv'
<1>1. /\ backoff' = backoff \ {d}
      /\ UNCHANGED <<files, owners, lookup, health, turns, repairs, calls, load, clashed, faults>>
  BY DEF RetryDue
<1>2. TypeOK'
  BY <1>1 DEF StoreInv, TypeOK, StoreType, TurnType, RepairType, LoadType, CallType, files, owners,
     lookup, turns, repairs, calls
<1>3. RepairsAlone' /\ ServedCurrent' /\ QueueShape' /\ SessionShape'
  BY <1>1 DEF StoreInv, RepairsAlone, ServedCurrent, QueueShape, SessionShape, Queued, Condemned,
     files, owners, lookup, turns, repairs
<1>4. RepairShape'
  BY <1>1 DEF StoreInv, RepairShape, Condemned, Now, owners, lookup, turns, repairs, calls
<1>5. LoadShape'
  BY <1>1 DEF StoreInv, LoadShape, Now, files, owners, lookup, calls
<1>6. RepairsHeld'
  BY <1>1 DEF StoreInv, RepairsHeld, TakenOver, Abandoned, Now, owners, lookup, turns, repairs,
     calls
<1> QED
  BY <1>2, <1>3, <1>4, <1>5, <1>6 DEF StoreInv

-------------------------------------------------------------------------------
(* Storage mutations *)

\* A mutation that runs has the store for itself.
LEMMA NoRepairs ==
    ASSUME StoreInv, \A d \in Dict : repair[d] = "none", UNCHANGED repairs
    PROVE  RepairsAlone' /\ RepairShape' /\ RepairType'
<1>1. \A d \in Dict : repair'[d] = "none"
  BY DEF repairs
<1>2. RepairsAlone' /\ RepairShape'
  BY <1>1 DEF RepairsAlone, RepairShape, Repairing, Rebuilding
<1>3. RepairType'
  BY DEF StoreInv, TypeOK, RepairType, repairs
<1> QED
  BY <1>2, <1>3

\* The first mutation has its turn.
LEMMA HeadFacts ==
    ASSUME StoreInv, stage # "none"
    PROVE  /\ queue # <<>> /\ queue \in Seq(Mutation) /\ Head(queue) \in Mutation /\ Head(queue) \in asked
           /\ Queued(Head(queue))
<1>1. queue # <<>> /\ queue \in Seq(Mutation) /\ \A i \in DOMAIN queue : queue[i] \in asked
  BY DEF StoreInv, TypeOK, TurnType, QueueShape
<1>2. 1 \in DOMAIN queue /\ queue[1] = Head(queue)
  BY <1>1
<1> QED
  BY <1>1, <1>2 DEF Queued

\* Its turn is over: the others keep their order.
LEMMA OverFacts ==
    ASSUME StoreInv, stage # "none", Over
    PROVE  /\ TurnType'
           /\ \A i \in DOMAIN queue' : queue'[i] \in asked'
           /\ \A i, j \in DOMAIN queue' : queue'[i] = queue'[j] => i = j
           /\ \A m \in Mutation : Queued(m)' => Queued(m) /\ m # Head(queue)
           /\ stage' = "none" /\ asked' = asked
<1>1. queue # <<>> /\ queue \in Seq(Mutation)
  BY HeadFacts
<1>2. /\ \A i \in DOMAIN queue : queue[i] \in asked
      /\ \A i, j \in DOMAIN queue : queue[i] = queue[j] => i = j
      /\ asked \subseteq Mutation
  BY DEF StoreInv, TypeOK, TurnType, QueueShape
<1>3. queue' = Tail(queue) /\ stage' = "none" /\ asked' = asked
  BY DEF Over
<1>4. /\ queue' \in Seq(Mutation) /\ queue[1] = Head(queue) /\ 1 \in DOMAIN queue
      /\ \A i \in DOMAIN queue' : i \in Nat /\ i >= 1 /\ i + 1 \in DOMAIN queue /\ queue'[i] = queue[i + 1]
  BY <1>1, <1>3
<1>5. \A i \in DOMAIN queue' : queue'[i] \in asked'
  BY <1>2, <1>3, <1>4
<1>6. ASSUME NEW i \in DOMAIN queue', NEW j \in DOMAIN queue', queue'[i] = queue'[j] PROVE i = j
  <2>1. i + 1 = j + 1
    BY <1>2, <1>4, <1>6
  <2> QED
    BY <1>4, <2>1
<1>7. ASSUME NEW m \in Mutation, NEW i \in DOMAIN queue', queue'[i] = m
      PROVE  Queued(m) /\ m # Head(queue)
  <2>1. i + 1 \in DOMAIN queue /\ queue[i + 1] = m /\ i + 1 # 1
    BY <1>4, <1>7
  <2> QED
    BY <1>2, <1>4, <2>1 DEF Queued
<1>8. TurnType'
  BY <1>2, <1>3, <1>4 DEF TurnType
<1> QED
  BY <1>3, <1>5, <1>6, <1>7, <1>8 DEF Queued

\* A mutation is queued behind the others.
LEMMA AskStep ==
    ASSUME StoreInv, NEW m \in Mutation, Ask(m)
    PROVE  StoreInv'
<1>1. /\ m \notin asked /\ queue' = Append(queue, m) /\ asked' = asked \cup {m}
      /\ UNCHANGED <<files, owners, lookup, status, stage, repairs, calls, load, clashed, faults>>
  BY DEF Ask
<1>2. TypeOK
  BY DEF StoreInv
<1>3. /\ queue' \in Seq(Mutation)
      /\ \A i \in DOMAIN queue : i \in DOMAIN queue' /\ queue'[i] = queue[i]
      /\ \A i \in DOMAIN queue' : i \in DOMAIN queue \/ (i = Len(queue) + 1 /\ queue'[i] = m)
      /\ queue # <<>> => queue' # <<>> /\ Head(queue') = Head(queue)
  BY <1>1, <1>2 DEF TypeOK, TurnType
<1>4. TypeOK'
  BY <1>1, <1>2, <1>3 DEF TypeOK, StoreType, TurnType, RepairType, LoadType, CallType, files,
     owners, lookup, status, repairs, calls
<1>5. \A x \in asked : Queued(x)' <=> Queued(x)
  <2>1. \A i \in DOMAIN queue' : queue'[i] \in asked => i \in DOMAIN queue
    BY <1>1, <1>3
  <2> QED
    BY <1>3, <2>1 DEF Queued
<1>6. QueueShape'
  <2>1. \A i \in DOMAIN queue' : queue'[i] \in asked'
    BY <1>1, <1>3 DEF StoreInv, QueueShape
  <2>2. ASSUME NEW i \in DOMAIN queue', NEW j \in DOMAIN queue', queue'[i] = queue'[j] PROVE i = j
    <3>1. \A k \in DOMAIN queue : queue'[k] # m
      BY <1>1, <1>3 DEF StoreInv, QueueShape
    <3> QED
      BY <1>3, <2>2, <3>1 DEF StoreInv, QueueShape
  <2>3. UNCHANGED <<stage, health, epoch>>
    BY <1>1 DEF lookup, status
  <2> QED
    BY <1>1, <1>3, <1>5, <2>1, <2>2, <2>3 DEF StoreInv, QueueShape, Restoring
<1>7. SessionShape'
  BY <1>1, <1>5 DEF StoreInv, SessionShape, Condemned, files, owners, status
<1>8. RepairsAlone' /\ ServedCurrent'
  BY <1>1 DEF StoreInv, RepairsAlone, ServedCurrent, files, owners, lookup, repairs
<1>9. RepairShape'
  BY <1>1 DEF StoreInv, RepairShape, Condemned, Now, owners, lookup, status, repairs, calls
<1>10. LoadShape'
  BY <1>1 DEF StoreInv, LoadShape, Now, files, owners, lookup, calls
<1>11. RepairsHeld'
  BY <1>1 DEF StoreInv, RepairsHeld, TakenOver, Abandoned, Now, owners, lookup, status, repairs,
     calls
<1> QED
  BY <1>4, <1>6, <1>7, <1>8, <1>9, <1>10, <1>11 DEF StoreInv

\* The turn of a mutation cancels the repairs.
LEMMA TurnStep ==
    ASSUME StoreInv, Turn
    PROVE  StoreInv'
<1>1. /\ stage = "none" /\ queue # <<>> /\ stage' = "draining" /\ cancelled' = {d \in Dict : repair[d] # "none"}
      /\ UNCHANGED <<files, owners, lookup, status, queue, asked, repair, tail, begun, reload, calls, load,
                     clashed, faults>>
  BY DEF Turn
<1>2. TypeOK'
  BY <1>1 DEF StoreInv, TypeOK, StoreType, TurnType, RepairType, LoadType, CallType, files, owners,
     lookup, status, calls
<1>3. RepairsAlone' /\ ServedCurrent' /\ SessionShape'
  BY <1>1 DEF StoreInv, RepairsAlone, ServedCurrent, SessionShape, Queued, files, owners, lookup
<1>4. QueueShape'
  BY <1>1 DEF StoreInv, QueueShape, Restoring, Queued, lookup
<1>5. RepairShape'
  <2>1. UNCHANGED <<deleting, epoch, gen, health, phase, seen>>
    BY <1>1 DEF owners, lookup, status, calls
  <2>2. \A e \in Dict : Now(e)' = Now(e) /\ Condemned(e)' = Condemned(e)
    BY <2>1 DEF Now, Condemned
  <2> QED
    BY <1>1, <2>1, <2>2 DEF StoreInv, RepairShape, After, Repairing, Rebuilding
<1>6. LoadShape'
  BY <1>1 DEF StoreInv, LoadShape, Now, files, owners, lookup, calls
<1>7. RepairsHeld'
  BY <1>1 DEF StoreInv, RepairsHeld, TakenOver, Abandoned, Now, owners, lookup, status, calls
<1> QED
  BY <1>2, <1>3, <1>4, <1>5, <1>6, <1>7 DEF StoreInv

\* A mutation runs once the repairs have ended.
LEMMA RunsStep ==
    ASSUME StoreInv, Runs
    PROVE  StoreInv'
<1> DEFINE m == Head(queue)
<1>1. /\ Quiet /\ stage = "draining" /\ (\A d \in Dict : repair[d] = "none")
      /\ UNCHANGED <<files, repairs, calls, load, clashed, faults>>
  BY DEF Runs, Drained
<1>2. TypeOK /\ queue # <<>> /\ m \in Mutation /\ m \in asked /\ Queued(m)
  BY <1>1, HeadFacts DEF StoreInv
<1>3. /\ RepairsAlone' /\ RepairShape' /\ RepairType'
  BY <1>1, NoRepairs
<1>4. \A c \in Call : phase'[c] # "repaired"
  BY <1>1, QuietFacts DEF calls
<1>5. CASE m[1] = "delete" /\ importing /\ Over /\ UNCHANGED <<deleting, importing, session, lookup, status>>
  <2>1. /\ TurnType' /\ \A i \in DOMAIN queue' : queue'[i] \in asked'
        /\ \A i, j \in DOMAIN queue' : queue'[i] = queue'[j] => i = j
        /\ \A x \in Mutation : Queued(x)' => Queued(x) /\ x # Head(queue)
        /\ stage' = "none" /\ asked' = asked
    BY <1>1, <1>5, OverFacts
  <2>2. TypeOK'
    BY <1>1, <1>2, <1>3, <1>5, <2>1 DEF TypeOK, StoreType, LoadType, CallType, files, lookup,
       status, calls
  <2>3. QueueShape' /\ SessionShape'
    <3>1. Rollback \in Mutation /\ Begin \in Mutation
      BY DEF Mutation
    <3> QED
      BY <1>1, <1>5, <2>1, <3>1 DEF StoreInv, QueueShape, Restoring, SessionShape, files, lookup
  <2>4. ServedCurrent' /\ LoadShape'
    BY <1>1, <1>5 DEF StoreInv, ServedCurrent, LoadShape, Now, files, lookup, calls
  <2>5. RepairsHeld'
    BY <1>1, <1>5, <2>1 DEF StoreInv, RepairsHeld, TakenOver, Abandoned, Now, lookup, status,
       repairs, calls
  <2> QED
    BY <1>3, <2>2, <2>3, <2>4, <2>5 DEF StoreInv
<1>6. CASE /\ m[1] = "delete" /\ ~importing /\ Invalidate({m[2]}) /\ Becomes(m[2], "available")
           /\ IF directory
              THEN stage' = "deleting" /\ deleting' = deleting \cup {m[2]} /\ UNCHANGED <<queue, asked>>
              ELSE Over /\ UNCHANGED deleting
           /\ UNCHANGED <<importing, session>>
  <2>1. PICK d \in Delete : m = <<"delete", d>>
    BY <1>2, <1>6 DEF Mutation, Begin, Rollback
  <2>2. d \in Dict /\ m[2] = d /\ {d} \subseteq Dict
    BY <2>1, BoundAssumption
  <2>3. /\ epoch' = epoch /\ gen' \in [Dict -> Nat] /\ served' \in [Dict -> Nat]
        /\ failure' \in [Dict -> {"none", "transient", "lasting"}]
        /\ registered' \in [Dict -> Loader \cup {Nobody}]
        /\ \A e \in Dict \ {d} : Now(e)' = Now(e) /\ gen'[e] = gen[e] /\ served'[e] = served[e]
        /\ \A e \in {d} : gen'[e] = gen[e] + 1 /\ served'[e] = 0
        /\ \A e \in Dict : registered'[e] \in {registered[e], Nobody}
    BY <1>2, <1>6, <2>2, InvalidateFacts
  <2>4. /\ health' = [health EXCEPT ![d] = "available"] /\ backoff' = backoff \ {d}
    BY <1>6, <2>2 DEF Becomes
  <2>5. health' \in [Dict -> Health] /\ health'[d] = "available" /\ \A e \in Dict \ {d} : health'[e] = health[e]
    BY <1>2, <2>2, <2>4 DEF TypeOK, StoreType, Health
  <2>6. ASSUME ~directory
        PROVE  /\ TypeOK' /\ QueueShape' /\ SessionShape' /\ deleting' \in {deleting, deleting \cup {d}}
               /\ stage' # "restoring"
    <3>1. /\ Over /\ UNCHANGED <<deleting, importing, session>>
      BY <1>6, <2>6
    <3>2. /\ TurnType' /\ \A i \in DOMAIN queue' : queue'[i] \in asked'
          /\ \A i, j \in DOMAIN queue' : queue'[i] = queue'[j] => i = j
          /\ \A x \in Mutation : Queued(x)' => Queued(x) /\ x # Head(queue)
          /\ stage' = "none" /\ asked' = asked
      BY <1>1, <3>1, OverFacts
    <3>3. TypeOK' /\ QueueShape' /\ SessionShape'
      <4>1. Rollback \in Mutation /\ Begin \in Mutation
        BY DEF Mutation
      <4>2. QueueShape' /\ SessionShape'
        BY <1>1, <2>3, <3>1, <3>2, <4>1 DEF StoreInv, QueueShape, Restoring, SessionShape, files
      <4>3. StoreType'
        BY <1>1, <1>2, <2>3, <2>4, <2>5, <3>1 DEF TypeOK, StoreType, files
      <4>4. LoadType' /\ CallType'
        BY <1>1, <1>2, <2>3 DEF TypeOK, LoadType, CallType, calls
      <4> QED
        BY <1>3, <3>2, <4>2, <4>3, <4>4 DEF TypeOK
    <3> QED
      BY <3>1, <3>2, <3>3
  <2>7. ASSUME directory
        PROVE  /\ TypeOK' /\ QueueShape' /\ SessionShape' /\ deleting' \in {deleting, deleting \cup {d}}
               /\ stage' # "restoring"
    <3>1. /\ stage' = "deleting" /\ deleting' = deleting \cup {m[2]} /\ UNCHANGED <<queue, asked>>
          /\ UNCHANGED <<importing, session>>
      BY <1>6, <2>7
    <3>2. TypeOK'
      <4>1. StoreType'
        BY <1>1, <1>2, <2>2, <2>3, <2>4, <2>5, <3>1 DEF TypeOK, StoreType, files
      <4>2. TurnType' /\ LoadType' /\ CallType'
        BY <1>1, <1>2, <2>3, <3>1 DEF TypeOK, TurnType, LoadType, CallType, calls
      <4> QED
        BY <1>3, <4>1, <4>2 DEF TypeOK
    <3>3. \E x \in Delete : Head(queue') = <<"delete", x>> /\ health'[x] # "repairing"
      BY <2>1, <2>5, <3>1
    <3>4. /\ UNCHANGED <<queue, asked, epoch, importing, session, created>>
          /\ queue # <<>> /\ session = {} /\ stage' = "deleting"
      BY <1>1, <1>2, <1>6, <2>3, <3>1 DEF StoreInv, SessionShape, files
    <3>5. QueueShape'
      BY <1>1, <3>3, <3>4 DEF StoreInv, QueueShape, Queued, Restoring
    <3>6. SessionShape'
      BY <1>6, <3>4 DEF StoreInv, SessionShape, Queued
    <3> QED
      BY <2>2, <3>1, <3>2, <3>5, <3>6
  <2>8. /\ TypeOK' /\ QueueShape' /\ SessionShape' /\ deleting' \in {deleting, deleting \cup {d}}
        /\ stage' # "restoring"
    BY <2>6, <2>7
  <2>9. ServedCurrent'
    BY <1>1, <1>6, <2>2, <2>3, <2>8 DEF StoreInv, ServedCurrent, files
  <2>10. LoadShape'
    <3>1. \A e \in Dict \ {d} : gen'[e] = gen[e] /\ shard'[e] = shard[e] /\ (e \in deleting' => e \in deleting)
      BY <1>1, <2>2, <2>3, <2>8 DEF files
    <3>2. \A l \in Loader : load'[l] = load[l]
      BY <1>1
    <3>3. {d} \in SUBSET Dict /\ \A c \in Call : phase'[c] = "repaired" => Of[c] \notin deleting'
      BY <1>4, <2>2
    <3> QED
      BY <2>3, <3>1, <3>2, <3>3, LoadsKept
  <2>11. RepairsHeld'
    <3>1. ASSUME NEW e \in Dict, health'[e] = "repairing", ~Abandoned(e)' PROVE e \in session' \/ TakenOver(e)'
      <4>1. e # d /\ health[e] = "repairing" /\ Now(e)' = Now(e) /\ ~Abandoned(e)
        BY <1>1, <2>3, <2>5, <3>1 DEF Abandoned
      <4>2. e \in session \/ TakenOver(e)
        BY <1>1, <4>1 DEF StoreInv, RepairsHeld, Repairing, Rebuilding
      <4> QED
        BY <1>1, <1>6, <4>1, <4>2 DEF TakenOver, After, calls
    <3> QED
      BY <3>1 DEF RepairsHeld
  <2> QED
    BY <1>3, <2>8, <2>9, <2>10, <2>11 DEF StoreInv
<1>7. CASE m = Begin /\ importing' = TRUE /\ session' = {} /\ Over /\ UNCHANGED <<deleting, lookup, status>>
  <2>1. /\ TurnType' /\ \A i \in DOMAIN queue' : queue'[i] \in asked'
        /\ \A i, j \in DOMAIN queue' : queue'[i] = queue'[j] => i = j
        /\ \A x \in Mutation : Queued(x)' => Queued(x) /\ x # Head(queue)
        /\ stage' = "none" /\ asked' = asked
    BY <1>1, <1>7, OverFacts
  <2>2. TypeOK'
    BY <1>1, <1>2, <1>3, <1>7, <2>1 DEF TypeOK, StoreType, LoadType, CallType, files, lookup,
       status, calls
  <2>3. created = {} /\ session = {}
    BY <1>2, <1>7 DEF StoreInv, SessionShape
  <2>4. QueueShape' /\ SessionShape'
    <3>1. Rollback \in Mutation /\ Begin \in Mutation
      BY DEF Mutation
    <3> QED
      BY <1>1, <1>2, <1>7, <2>1, <2>3, <3>1 DEF StoreInv, QueueShape, Restoring, SessionShape, files, lookup
  <2>5. ServedCurrent' /\ LoadShape'
    BY <1>1, <1>7 DEF StoreInv, ServedCurrent, LoadShape, Now, files, lookup, calls
  <2>6. RepairsHeld'
    BY <1>1, <1>7, <2>1, <2>3 DEF StoreInv, RepairsHeld, TakenOver, Abandoned, Now, lookup,
       status, repairs, calls
  <2>7. RepairsAlone'
    BY <1>3
  <2> QED
    BY <1>3, <2>2, <2>4, <2>5, <2>6 DEF StoreInv
<1>8. CASE /\ m = Rollback /\ importing' = FALSE /\ session' = {} /\ stage' = "restoring"
           /\ UNCHANGED <<queue, asked, deleting, lookup, status>>
  <2>1. TypeOK'
    BY <1>1, <1>2, <1>3, <1>8 DEF TypeOK, StoreType, TurnType, LoadType, CallType, files, lookup,
       status, calls
  <2>2. epoch = 0
    BY <1>1, <1>2, <1>8 DEF StoreInv, QueueShape, Restoring
  <2>3. QueueShape' /\ SessionShape'
    BY <1>1, <1>2, <1>8, <2>2 DEF StoreInv, QueueShape, SessionShape, Queued, Restoring, files, lookup
  <2>4. ServedCurrent' /\ LoadShape'
    BY <1>1, <1>8 DEF StoreInv, ServedCurrent, LoadShape, Now, files, lookup, calls
  <2>5. RepairsHeld'
    BY <1>8 DEF RepairsHeld, Abandoned
  <2> QED
    BY <1>3, <2>1, <2>3, <2>4, <2>5 DEF StoreInv
<1> QED
  BY <1>5, <1>6, <1>7, <1>8 DEF Runs

\* A deletion ends.
LEMMA DeletedStep ==
    ASSUME StoreInv, Deleted
    PROVE  StoreInv'
<1> DEFINE d == Head(queue)[2]
<1>1. /\ Quiet /\ stage = "deleting" /\ Over /\ Invalidate({d}) /\ shard' = [shard EXCEPT ![d] = 0]
      /\ disk' \in {disk, [disk EXCEPT ![d] = "none"]} /\ deleting' \in {deleting, deleting \ {d}}
      /\ faults' = faults \/ faults' = faults + 1
      /\ UNCHANGED <<shards, directory, created, importing, session, status, repairs, calls, load, clashed>>
  BY DEF Deleted, Fault
<1>2. d \in Dict /\ health[d] # "repairing" /\ TypeOK
  <2>1. \E x \in Delete : Head(queue) = <<"delete", x>> /\ health[x] # "repairing"
    BY <1>1 DEF StoreInv, QueueShape
  <2> QED
    BY <2>1, BoundAssumption DEF StoreInv
<1> HIDE DEF d
<1>3. (\A e \in Dict : repair[e] = "none") /\ ~importing /\ session = {}
  BY <1>1 DEF StoreInv, RepairsAlone, SessionShape
<1>4. RepairsAlone' /\ RepairShape' /\ RepairType'
  BY <1>1, <1>3, NoRepairs
<1>5. /\ epoch' = epoch /\ gen' \in [Dict -> Nat] /\ served' \in [Dict -> Nat]
      /\ failure' \in [Dict -> {"none", "transient", "lasting"}]
      /\ registered' \in [Dict -> Loader \cup {Nobody}]
      /\ \A e \in Dict \ {d} : Now(e)' = Now(e) /\ gen'[e] = gen[e] /\ served'[e] = served[e]
      /\ \A e \in {d} : gen'[e] = gen[e] + 1 /\ served'[e] = 0
      /\ \A e \in Dict : registered'[e] \in {registered[e], Nobody}
  <2>1. {d} \subseteq Dict
    BY <1>2
  <2> QED
    BY <1>1, <1>2, <2>1, InvalidateFacts
<1>6. /\ TurnType' /\ \A i \in DOMAIN queue' : queue'[i] \in asked'
      /\ \A i, j \in DOMAIN queue' : queue'[i] = queue'[j] => i = j
      /\ \A x \in Mutation : Queued(x)' => Queued(x) /\ x # Head(queue)
      /\ stage' = "none" /\ asked' = asked
  BY <1>1, OverFacts
<1>7. TypeOK'
  <2>1. disk' \in [Dict -> {"none", "partial", "good", "stale", "damaged"}] /\ shard' \in [Dict -> Nat]
    BY <1>1, <1>2 DEF TypeOK, StoreType
  <2>2. StoreType'
    BY <1>1, <1>2, <1>5, <2>1 DEF TypeOK, StoreType, status
  <2>3. LoadType' /\ CallType'
    BY <1>1, <1>2, <1>5 DEF TypeOK, LoadType, CallType, calls
  <2> QED
    BY <1>4, <1>6, <2>2, <2>3 DEF TypeOK
<1>8. QueueShape' /\ SessionShape'
  <2>1. Rollback \in Mutation /\ Begin \in Mutation
    BY DEF Mutation
  <2> QED
    BY <1>1, <1>3, <1>5, <1>6, <2>1 DEF StoreInv, QueueShape, Restoring, SessionShape
<1>9. \A e \in Dict \ {d} : shard'[e] = shard[e] /\ (e \in deleting' => e \in deleting)
  BY <1>1, <1>2 DEF TypeOK, StoreType
<1>10. ServedCurrent'
  BY <1>1, <1>5, <1>9 DEF StoreInv, ServedCurrent
<1>11. LoadShape'
  <2>1. {d} \in SUBSET Dict
    BY <1>2
  <2>2. \A c \in Call : phase'[c] = "repaired" => Of[c] \notin deleting'
    BY <1>1 DEF StoreInv, LoadShape, calls
  <2>3. \A l \in Loader : load'[l] = load[l]
    BY <1>1
  <2> QED
    BY <1>5, <1>9, <2>1, <2>2, <2>3, LoadsKept
<1>12. RepairsHeld'
  <2>1. ASSUME NEW e \in Dict, health'[e] = "repairing", ~Abandoned(e)' PROVE TakenOver(e)'
    <3>1. e # d /\ health[e] = "repairing" /\ Now(e)' = Now(e) /\ ~Abandoned(e)
      BY <1>1, <1>2, <1>5, <1>6, <2>1 DEF Abandoned, status
    <3>2. TakenOver(e)
      BY <1>3, <3>1 DEF StoreInv, RepairsHeld, Repairing, Rebuilding
    <3> QED
      BY <1>1, <3>1, <3>2 DEF TakenOver, After, calls
  <2> QED
    BY <2>1 DEF RepairsHeld
<1> QED
  BY <1>4, <1>7, <1>8, <1>10, <1>11, <1>12 DEF StoreInv

\* When all lookups are invalidated, every load under way is of an earlier generation.
LEMMA AllInvalidated ==
    ASSUME StoreInv, InvalidateAll, UNCHANGED <<owners, calls, load>>
    PROVE  /\ epoch' \in Nat /\ epoch' # 0 /\ gen' \in [Dict -> Nat] /\ served' \in [Dict -> Nat]
           /\ failure' \in [Dict -> {"none", "transient", "lasting"}] /\ backoff' = {}
           /\ LoadType' /\ LoadShape' /\ ServedCurrent'
<1>1. /\ epoch' = epoch + 1 /\ gen' = [d \in Dict |-> 0] /\ served' = [d \in Dict |-> 0] /\ backoff' = {}
      /\ failure' = [d \in Dict |-> "none"] /\ registered' = [d \in Dict |-> Nobody]
  BY DEF InvalidateAll
<1>2. TypeOK /\ epoch \in Nat
  BY DEF StoreInv, TypeOK, StoreType
<1>3. LoadType' /\ ServedCurrent'
  BY <1>1, <1>2 DEF TypeOK, LoadType, ServedCurrent
<1>4. LoadShape'
  <2>1. ASSUME NEW l \in Loader, load'[l].at \in {"open", "read"}
        PROVE  /\ load'[l].stamp[1] <= epoch' /\ load'[l].stamp[1] # epoch'
               /\ load'[l].stamp # Now(On(l))'
    <3>1. load'[l] = load[l] /\ load[l].stamp[1] <= epoch
      BY <2>1 DEF StoreInv, LoadShape
    <3>2. load[l].stamp \in Nat \X Nat
      BY <1>2, LoadTypes DEF TypeOK, LoadState, Stamp
    <3>3. load'[l].stamp[1] < epoch'
      BY <1>1, <1>2, <3>1, <3>2
    <3> QED
      BY <1>1, <1>2, <3>1, <3>2, <3>3 DEF Now
  <2> QED
    BY <1>1, <2>1 DEF StoreInv, LoadShape, owners, calls
<1> QED
  BY <1>1, <1>2, <1>3, <1>4

\* A rollback gives up the writes of the import: what it leaves is of the first
\* generation, and has to be forgotten or invalidated before it counts again.
LEMMA AbandonsStep ==
    ASSUME StoreInv, Abandons
    PROVE  StoreInv'
<1>1. /\ stage = "restoring" /\ stage' = "checking" /\ InvalidateAll
      /\ UNCHANGED <<files, owners, health, queue, asked, repairs, calls, load, clashed, faults>>
  BY DEF Abandons
<1>2. TypeOK /\ Head(queue) = Rollback /\ queue # <<>> /\ Rollback \in asked /\ Queued(Rollback)
  BY <1>1, HeadFacts DEF StoreInv, QueueShape, Restoring
<1>3. epoch = 0 /\ epoch' = 1 /\ \A d \in Dict : gen'[d] = 0
  BY <1>1, <1>2 DEF StoreInv, QueueShape, InvalidateAll
<1>4. (\A e \in Dict : repair[e] = "none") /\ ~importing
  BY <1>1 DEF StoreInv, RepairsAlone, SessionShape
<1>5. RepairsAlone' /\ RepairShape' /\ RepairType'
  BY <1>1, <1>4, NoRepairs
<1>6. /\ epoch' \in Nat /\ gen' \in [Dict -> Nat] /\ served' \in [Dict -> Nat]
      /\ failure' \in [Dict -> {"none", "transient", "lasting"}] /\ backoff' = {}
      /\ LoadType' /\ LoadShape' /\ ServedCurrent'
  BY <1>1, AllInvalidated
<1>7. TypeOK'
  <2>1. StoreType'
    BY <1>1, <1>2, <1>6 DEF TypeOK, StoreType, files, owners
  <2>2. TurnType' /\ CallType'
    BY <1>1, <1>2 DEF TypeOK, TurnType, CallType, calls
  <2> QED
    BY <1>5, <1>6, <2>1, <2>2 DEF TypeOK
<1>8. QueueShape' /\ SessionShape'
  BY <1>1, <1>2, <1>4 DEF StoreInv, QueueShape, SessionShape, Queued, Restoring, files, owners
<1>9. RepairsHeld'
  BY <1>3 DEF RepairsHeld, Abandoned, Now
<1> QED
  BY <1>5, <1>6, <1>7, <1>8, <1>9 DEF StoreInv

\* A container that the import created is removed: nobody has loaded it.
LEMMA RemovesStep ==
    ASSUME StoreInv, NEW d \in Dict, Removes(d)
    PROVE  StoreInv'
<1>1. /\ stage \in {"checking", "removing"} /\ stage' = "removing" /\ disk' = [disk EXCEPT ![d] = "none"]
      /\ UNCHANGED <<shard, shards, directory, created, owners, lookup, status, queue, asked, repairs, calls, load,
                     clashed, faults>>
  BY DEF Removes
<1>2. TypeOK /\ Head(queue) = Rollback /\ queue # <<>>
  BY <1>1 DEF StoreInv, QueueShape, Restoring
<1>3. (\A e \in Dict : repair[e] = "none") /\ ~importing
  BY <1>1 DEF StoreInv, RepairsAlone, SessionShape
<1>4. RepairsAlone' /\ RepairShape' /\ RepairType'
  BY <1>1, <1>3, NoRepairs
<1>5. TypeOK'
  <2>1. disk' \in [Dict -> {"none", "partial", "good", "stale", "damaged"}]
    BY <1>1, <1>2 DEF TypeOK, StoreType
  <2>2. StoreType'
    BY <1>1, <1>2, <2>1 DEF TypeOK, StoreType, owners, lookup, status
  <2>3. TurnType' /\ LoadType' /\ CallType'
    BY <1>1, <1>2 DEF TypeOK, TurnType, LoadType, CallType, lookup, calls
  <2> QED
    BY <1>4, <2>2, <2>3 DEF TypeOK
<1>6. QueueShape' /\ SessionShape'
  BY <1>1, <1>2, <1>3 DEF StoreInv, QueueShape, SessionShape, Queued, Restoring, owners, lookup, status
<1>7. ServedCurrent'
  BY <1>1 DEF StoreInv, ServedCurrent, owners, lookup
<1>8. LoadShape'
  BY <1>1 DEF StoreInv, LoadShape, Now, owners, lookup, calls
<1>9. RepairsHeld'
  BY <1>1 DEF StoreInv, RepairsHeld, TakenOver, Abandoned, Now, owners, lookup, status, repairs, calls
<1> QED
  BY <1>4, <1>5, <1>6, <1>7, <1>8, <1>9 DEF StoreInv

\* A rollback forgets what the store knew: nothing is under repair any more.
LEMMA ForgetsStep ==
    ASSUME StoreInv, Forgets
    PROVE  StoreInv'
<1>1. /\ stage \in {"checking", "removing"} /\ stage' = "preparing" /\ directory' = FALSE
      /\ faults' = faults \/ faults' = faults + 1
      /\ shard' = [d \in Dict |-> 0] /\ created' = {} /\ InvalidateAll
      /\ health' = [d \in Dict |-> "available"] /\ clashed' = {}
      /\ UNCHANGED <<disk, shards, owners, queue, asked, repairs, calls, load>>
  BY DEF Forgets, Fault
<1>2. TypeOK /\ Head(queue) = Rollback /\ queue # <<>> /\ Rollback \in asked
  BY <1>1, HeadFacts DEF StoreInv, QueueShape, Restoring
<1>3. (\A e \in Dict : repair[e] = "none") /\ ~importing
  BY <1>1 DEF StoreInv, RepairsAlone, SessionShape
<1>4. RepairsAlone' /\ RepairShape' /\ RepairType'
  BY <1>1, <1>3, NoRepairs
<1>5. /\ epoch' \in Nat /\ gen' \in [Dict -> Nat] /\ served' \in [Dict -> Nat]
      /\ failure' \in [Dict -> {"none", "transient", "lasting"}] /\ backoff' = {}
      /\ LoadType' /\ LoadShape' /\ ServedCurrent'
  BY <1>1, AllInvalidated
<1>6. TypeOK'
  <2>1. faults' \in Nat /\ health' \in [Dict -> Health] /\ shard' \in [Dict -> Nat]
    BY <1>1, <1>2 DEF TypeOK, StoreType, Health
  <2>2. StoreType'
    BY <1>1, <1>2, <1>5, <2>1 DEF TypeOK, StoreType, owners
  <2>3. TurnType' /\ CallType'
    BY <1>1, <1>2 DEF TypeOK, TurnType, CallType, calls
  <2> QED
    BY <1>4, <1>5, <2>2, <2>3 DEF TypeOK
<1>7. QueueShape' /\ SessionShape'
  BY <1>1, <1>2, <1>3 DEF StoreInv, QueueShape, SessionShape, Queued, Condemned, Restoring, owners
<1>8. RepairsHeld'
  BY <1>1 DEF RepairsHeld
<1> QED
  BY <1>4, <1>5, <1>6, <1>7, <1>8 DEF StoreInv

\* A rollback that cannot restore the store is over.
LEMMA UnrestoredStep ==
    ASSUME StoreInv, Unrestored
    PROVE  StoreInv'
<1>1. /\ stage = "checking" /\ Over /\ faults' = faults + 1
      /\ UNCHANGED <<files, owners, lookup, status, repairs, calls, load, clashed>>
  BY DEF Unrestored, Fault
<1>2. TypeOK /\ Head(queue) = Rollback /\ Rollback \in asked
  BY <1>1, HeadFacts DEF StoreInv, QueueShape, Restoring
<1>3. /\ TurnType' /\ \A i \in DOMAIN queue' : queue'[i] \in asked'
      /\ \A i, j \in DOMAIN queue' : queue'[i] = queue'[j] => i = j
      /\ \A x \in Mutation : Queued(x)' => Queued(x) /\ x # Head(queue)
      /\ stage' = "none" /\ asked' = asked
  BY <1>1, OverFacts
<1>4. \A e \in Dict : repair[e] = "none"
  BY <1>1 DEF StoreInv, RepairsAlone
<1>5. RepairsAlone' /\ RepairShape' /\ RepairType'
  BY <1>1, <1>4, NoRepairs
<1>6. TypeOK'
  BY <1>1, <1>2, <1>3, <1>5 DEF TypeOK, StoreType, LoadType, CallType, files, owners, lookup,
     status, calls
<1>7. QueueShape' /\ SessionShape'
  <2>1. Rollback \in Mutation /\ Begin \in Mutation
    BY DEF Mutation
  <2> QED
    BY <1>1, <1>2, <1>3, <2>1 DEF StoreInv, QueueShape, SessionShape, Restoring, files, owners, lookup
<1>8. ServedCurrent'
  BY <1>1 DEF StoreInv, ServedCurrent, files, owners, lookup
<1>9. LoadShape'
  BY <1>1 DEF StoreInv, LoadShape, Now, files, owners, lookup, calls
<1>10. RepairsHeld'
  BY <1>1, <1>3 DEF StoreInv, RepairsHeld, TakenOver, Abandoned, Now, owners, lookup, status,
     repairs, calls
<1> QED
  BY <1>5, <1>6, <1>7, <1>8, <1>9, <1>10 DEF StoreInv

\* While the store is prepared anew, no load is of this generation; and a preparation
\* that fails leaves a store without containers.
LEMMA PreparesStep ==
    ASSUME StoreInv, Prepares
    PROVE  StoreInv'
<1>1. /\ stage = "preparing" /\ (faults' = faults \/ faults' = faults + 1)
      /\ UNCHANGED <<disk, created, owners, lookup, status, repairs, calls, load, clashed>>
  BY DEF Prepares, Fault
<1>2. /\ TypeOK /\ Head(queue) = Rollback /\ queue # <<>> /\ Rollback \in asked /\ faults' \in Nat
      /\ \A d \in Dict : shard[d] = 0 /\ ~Condemned(d)
  BY <1>1, HeadFacts DEF StoreInv, QueueShape, SessionShape, Restoring, TypeOK, StoreType
<1>3. (\A e \in Dict : repair[e] = "none") /\ ~importing
  BY <1>1 DEF StoreInv, RepairsAlone, SessionShape
<1>4. RepairsAlone' /\ RepairShape' /\ RepairType'
  BY <1>1, <1>3, NoRepairs
<1>5. ServedCurrent'
  BY <1>1, <1>2 DEF StoreInv, ServedCurrent, lookup
<1>6. LoadShape'
  <2>1. \A d \in Dict : Now(d)' = Now(d)
    BY <1>1 DEF Now, lookup
  <2>2. \A l \in Loader : load[l].at \in {"open", "read"} => load[l].stamp # Now(On(l))
    BY <1>2, OnDict DEF StoreInv, LoadShape
  <2> QED
    BY <1>1, <2>1, <2>2, OnDict DEF StoreInv, LoadShape, owners, lookup, calls
<1>7. CASE directory' = TRUE /\ UNCHANGED <<shard, shards, turns>>
  <2>1. TypeOK'
    BY <1>1, <1>2, <1>4, <1>7 DEF TypeOK, StoreType, TurnType, LoadType, CallType, owners, lookup,
       status, calls, turns
  <2>2. QueueShape' /\ SessionShape'
    BY <1>1, <1>7 DEF StoreInv, QueueShape, SessionShape, Queued, Condemned, owners, lookup, status,
       turns
  <2>3. RepairsHeld'
    BY <1>1, <1>7 DEF StoreInv, RepairsHeld, TakenOver, Abandoned, Now, owners, lookup, status,
       repairs, calls, turns
  <2> QED
    BY <1>4, <1>5, <1>6, <2>1, <2>2, <2>3 DEF StoreInv
<1>8. ASSUME Over, shards' \in Nat, shard' \in [Dict -> Nat], UNCHANGED directory
      PROVE  StoreInv'
  <2>1. /\ TurnType' /\ \A i \in DOMAIN queue' : queue'[i] \in asked'
        /\ \A i, j \in DOMAIN queue' : queue'[i] = queue'[j] => i = j
        /\ \A x \in Mutation : Queued(x)' => Queued(x) /\ x # Head(queue)
        /\ stage' = "none" /\ asked' = asked
    BY <1>1, <1>8, OverFacts
  <2>2. TypeOK'
    BY <1>1, <1>2, <1>4, <1>8, <2>1 DEF TypeOK, StoreType, LoadType, CallType, owners, lookup,
       status, calls
  <2>3. QueueShape' /\ SessionShape'
    <3>1. Rollback \in Mutation /\ Begin \in Mutation
      BY DEF Mutation
    <3> QED
      BY <1>1, <1>2, <1>3, <2>1, <3>1 DEF StoreInv, QueueShape, SessionShape, Restoring, owners, lookup
  <2>4. RepairsHeld'
    BY <1>1, <2>1 DEF StoreInv, RepairsHeld, TakenOver, Abandoned, Now, owners, lookup, status,
       repairs, calls
  <2> QED
    BY <1>4, <1>5, <1>6, <2>2, <2>3, <2>4 DEF StoreInv
<1>9. CASE /\ shards' = shards + 1 /\ Over /\ UNCHANGED directory
           /\ shard' = [d \in Dict |-> IF disk[d] = "none" \/ d \in deleting THEN 0 ELSE shards + 1]
  BY <1>2, <1>8, <1>9 DEF TypeOK, StoreType
<1>10. CASE Over /\ UNCHANGED <<shard, shards, directory>>
  BY <1>2, <1>8, <1>10 DEF TypeOK, StoreType
<1> QED
  BY <1>7, <1>9, <1>10 DEF Prepares

-------------------------------------------------------------------------------
(* The import session *)

\* An import session invalidates each dictionary it writes to.
LEMMA AppendsStep ==
    ASSUME StoreInv, NEW d \in Dict, Appends(d)
    PROVE  StoreInv'
<1>1. /\ importing /\ session' = session \cup {d} /\ Invalidate({d}) /\ backoff' = backoff \ {d}
      /\ UNCHANGED <<directory, deleting, importing, health, turns, repairs, calls, load, clashed, faults>>
      /\ \/ UNCHANGED <<disk, shard, shards, created>>
         \/ /\ shards' = shards + 1 /\ shard' = [shard EXCEPT ![d] = shards + 1]
            /\ disk' = [disk EXCEPT ![d] = "partial"] /\ created' = created \cup {d}
  BY DEF Appends
<1>2. /\ TypeOK /\ (\A e \in Dict : repair[e] = "none") /\ stage \in {"none", "draining"} /\ created \subseteq session
  BY <1>1 DEF StoreInv, RepairsAlone, SessionShape
<1>3. RepairsAlone' /\ RepairShape' /\ RepairType'
  BY <1>1, <1>2, NoRepairs
<1>4. /\ epoch' = epoch /\ gen' \in [Dict -> Nat] /\ served' \in [Dict -> Nat]
      /\ failure' \in [Dict -> {"none", "transient", "lasting"}]
      /\ registered' \in [Dict -> Loader \cup {Nobody}]
      /\ \A e \in Dict \ {d} : Now(e)' = Now(e) /\ gen'[e] = gen[e] /\ served'[e] = served[e]
      /\ \A e \in {d} : gen'[e] = gen[e] + 1 /\ served'[e] = 0
      /\ \A e \in Dict : registered'[e] \in {registered[e], Nobody}
  <2>1. {d} \subseteq Dict
    OBVIOUS
  <2> QED
    BY <1>1, <1>2, <2>1, InvalidateFacts
<1>5. /\ disk' \in [Dict -> {"none", "partial", "good", "stale", "damaged"}] /\ shard' \in [Dict -> Nat]
      /\ shards' \in Nat /\ created' \subseteq Dict /\ created' \subseteq session'
      /\ \A e \in Dict \ {d} : shard'[e] = shard[e]
  BY <1>1, <1>2 DEF TypeOK, StoreType
<1>6. TypeOK'
  <2>1. StoreType'
    BY <1>1, <1>2, <1>4, <1>5 DEF TypeOK, StoreType
  <2>2. TurnType' /\ LoadType' /\ CallType'
    BY <1>1, <1>2, <1>4 DEF TypeOK, TurnType, LoadType, CallType, turns, calls
  <2> QED
    BY <1>3, <2>1, <2>2 DEF TypeOK
<1>7. QueueShape' /\ SessionShape'
  BY <1>1, <1>2, <1>4, <1>5 DEF StoreInv, QueueShape, SessionShape, Queued, turns
<1>8. ServedCurrent'
  BY <1>1, <1>4, <1>5 DEF StoreInv, ServedCurrent
<1>9. LoadShape'
  <2>1. {d} \in SUBSET Dict
    OBVIOUS
  <2>2. \A c \in Call : phase'[c] = "repaired" => Of[c] \notin deleting'
    BY <1>1 DEF StoreInv, LoadShape, calls
  <2>3. \A l \in Loader : load'[l] = load[l]
    BY <1>1
  <2>4. \A e \in Dict \ {d} : gen'[e] = gen[e] /\ shard'[e] = shard[e] /\ (e \in deleting' => e \in deleting)
    BY <1>1, <1>4, <1>5
  <2> QED
    BY <1>4, <2>1, <2>2, <2>3, <2>4, LoadsKept
<1>10. RepairsHeld'
  <2>1. ASSUME NEW e \in Dict, health'[e] = "repairing", ~Abandoned(e)' PROVE e \in session' \/ TakenOver(e)'
    <3>1. CASE e = d
      BY <1>1, <3>1
    <3>2. CASE e # d
      <4>1. health[e] = "repairing" /\ Now(e)' = Now(e) /\ ~Abandoned(e)
        BY <1>1, <1>4, <2>1, <3>2 DEF Abandoned, turns
      <4>2. e \in session \/ TakenOver(e)
        BY <1>2, <4>1 DEF StoreInv, RepairsHeld, Repairing, Rebuilding
      <4> QED
        BY <1>1, <4>1, <4>2 DEF TakenOver, After, calls
    <3> QED
      BY <3>1, <3>2
  <2> QED
    BY <2>1 DEF RepairsHeld
<1> QED
  BY <1>3, <1>6, <1>7, <1>8, <1>9, <1>10 DEF StoreInv

\* An import session closes its containers.
LEMMA ClosesStep ==
    ASSUME StoreInv, Closes
    PROVE  StoreInv'
<1>1. /\ disk' = [d \in Dict |-> IF d \in created THEN "good" ELSE disk[d]]
      /\ UNCHANGED <<shard, shards, directory, created, owners, lookup, status, turns, repairs, calls, load,
                     clashed, faults>>
  BY DEF Closes
<1>2. TypeOK'
  BY <1>1 DEF StoreInv, TypeOK, StoreType, TurnType, RepairType, LoadType, CallType, owners, lookup,
     status, turns, repairs, calls
<1>3. RepairsAlone' /\ ServedCurrent' /\ QueueShape' /\ SessionShape'
  BY <1>1 DEF StoreInv, RepairsAlone, ServedCurrent, QueueShape, SessionShape, Queued, Condemned,
     owners, lookup, status, turns, repairs
<1>4. RepairShape'
  BY <1>1 DEF StoreInv, RepairShape, Condemned, Now, owners, lookup, status, turns, repairs, calls
<1>5. LoadShape'
  BY <1>1 DEF StoreInv, LoadShape, Now, owners, lookup, calls
<1>6. RepairsHeld'
  BY <1>1 DEF StoreInv, RepairsHeld, TakenOver, Abandoned, Now, owners, lookup, status, turns,
     repairs, calls
<1> QED
  BY <1>2, <1>3, <1>4, <1>5, <1>6 DEF StoreInv

\* An import session is over.
LEMMA EndsSessionStep ==
    ASSUME StoreInv, EndsSession
    PROVE  StoreInv'
<1>1. /\ importing /\ importing' = FALSE /\ session' = {}
      /\ health' = [d \in Dict |-> IF d \in session THEN "available" ELSE health[d]]
      /\ backoff' = backoff \ session
      /\ UNCHANGED <<files, deleting, lookup, turns, repairs, calls, load, clashed, faults>>
  BY DEF EndsSession
<1>2. /\ TypeOK /\ (\A e \in Dict : repair[e] = "none") /\ stage \in {"none", "draining"}
  BY <1>1 DEF StoreInv, RepairsAlone, SessionShape
<1>3. RepairsAlone' /\ RepairShape' /\ RepairType'
  BY <1>1, <1>2, NoRepairs
<1>4. TypeOK'
  BY <1>1, <1>2, <1>3 DEF TypeOK, StoreType, TurnType, LoadType, CallType, Health, files, lookup,
     turns, calls
<1>5. QueueShape' /\ SessionShape' /\ ServedCurrent'
  BY <1>1, <1>2 DEF StoreInv, QueueShape, SessionShape, ServedCurrent, Queued, files, lookup, turns
<1>6. LoadShape'
  BY <1>1 DEF StoreInv, LoadShape, Now, files, lookup, calls
<1>7. RepairsHeld'
  <2>1. ASSUME NEW e \in Dict, health'[e] = "repairing", ~Abandoned(e)' PROVE TakenOver(e)'
    <3>1. e \notin session /\ health[e] = "repairing" /\ ~Abandoned(e)
      BY <1>1, <2>1 DEF Abandoned, Now, lookup, turns
    <3>2. TakenOver(e)
      BY <1>2, <3>1 DEF StoreInv, RepairsHeld, Repairing, Rebuilding
    <3> QED
      BY <1>1, <3>2 DEF TakenOver, Now, After, lookup, calls
  <2> QED
    BY <2>1 DEF RepairsHeld
<1> QED
  BY <1>3, <1>4, <1>5, <1>6, <1>7 DEF StoreInv

-------------------------------------------------------------------------------
(* The store keeps its invariant *)

\* The store begins with nothing under way.
LEMMA InitStore == Init => StoreInv
<1> SUFFICES ASSUME Init PROVE StoreInv
  OBVIOUS
<1>1. TypeOK
  <2>1. StoreType
    BY BoundAssumption DEF Init, StoreType, Health
  <2>2. TurnType /\ RepairType
    BY DEF Init, TurnType, RepairType, Stamp
  <2>3. LoadType
    BY DEF Init, LoadType, LoadState, NoLoad, Stamp
  <2>4. CallType
    BY DEF Init, CallType, Stamp
  <2> QED
    BY <2>1, <2>2, <2>3, <2>4 DEF TypeOK
<1>2. RepairsAlone /\ ServedCurrent
  BY DEF Init, RepairsAlone, ServedCurrent
<1>3. QueueShape /\ SessionShape
  BY DEF Init, QueueShape, SessionShape, Queued, Restoring
<1>4. RepairShape /\ RepairsHeld
  BY DEF Init, RepairShape, RepairsHeld, Repairing, Rebuilding
<1>5. LoadShape
  BY DEF Init, LoadShape, NoLoad
<1> QED
  BY <1>1, <1>2, <1>3, <1>4, <1>5 DEF StoreInv

\* Every step keeps the invariant.
LEMMA StoreStep == StoreInv /\ [Next]_vars => StoreInv'
<1> SUFFICES ASSUME StoreInv, [Next]_vars PROVE StoreInv'
  OBVIOUS
<1>1. CASE Continuation
  BY <1>1, LoadsStep, LoadedStep, RepairSeenStep, ReloadedStep, RepairLoadsStep, RepairLoadedStep
     DEF Continuation
<1>2. ASSUME NEW c \in Call, Begins(c) PROVE StoreInv'
  BY <1>2, BeginsStep
<1>3. ASSUME NEW l \in Loader, Read(l) \/ Finish(l) PROVE StoreInv'
  BY <1>3, ReadStep, FinishStep
<1>4. ASSUME NEW d \in Dict, RepairStep(d) \/ RetryDue(d) PROVE StoreInv'
  BY <1>4, SupersededStep, RepairBeginsStep, RepairReadsStep, RepairFailsStep, RepairClosesStep,
     RepairClosedStep, RepairedStep, RetryDueStep DEF RepairStep
<1>5. ASSUME NEW m \in Mutation, Ask(m) PROVE StoreInv'
  BY <1>5, AskStep
<1>6. CASE Mutates
  BY <1>6, TurnStep, RunsStep, DeletedStep, AbandonsStep, UnrestoredStep, RemovesStep, ForgetsStep, PreparesStep
     DEF Mutates
<1>7. CASE Imports
  BY <1>7, ClosesStep, EndsSessionStep, AppendsStep DEF Imports
<1>8. CASE UNCHANGED vars
  <2>1. UNCHANGED <<files, owners, lookup, status, turns, repairs, calls, load, clashed, faults>>
    BY <1>8 DEF vars
  <2>2. TypeOK'
    BY <2>1 DEF StoreInv, TypeOK, StoreType, TurnType, RepairType, LoadType, CallType, files,
       owners, lookup, status, turns, repairs, calls
  <2>3. RepairsAlone' /\ ServedCurrent' /\ QueueShape' /\ SessionShape'
    BY <2>1 DEF StoreInv, RepairsAlone, ServedCurrent, QueueShape, SessionShape, Queued, Condemned,
       files, owners, lookup, status, turns, repairs
  <2>4. RepairShape'
    BY <2>1 DEF StoreInv, RepairShape, Condemned, Now, owners, lookup, status, turns, repairs, calls
  <2>5. LoadShape'
    BY <2>1 DEF StoreInv, LoadShape, Now, files, owners, lookup, calls
  <2>6. RepairsHeld'
    BY <2>1 DEF StoreInv, RepairsHeld, TakenOver, Abandoned, Now, owners, lookup, status, turns,
       repairs, calls
  <2> QED
    BY <2>2, <2>3, <2>4, <2>5, <2>6 DEF StoreInv
<1>9. CASE Rests
  BY <1>8, <1>9 DEF Rests
<1> QED
  BY <1>1, <1>2, <1>3, <1>4, <1>5, <1>6, <1>7, <1>8, <1>9 DEF Next, Event

\* The order of the mutations and repairs, the generations of the loads and what lookups
\* are answered from hold whatever happens.
THEOREM StoreInvariant == Spec => []StoreInv
<1> QED
  BY InitStore, StoreStep, PTL DEF Spec

\* A repair that is announced is under way, has the container for itself, and leaves
\* behind only what the store uses (_tryRepairPersistentDictionaryIndex).
THEOREM RepairsAreReal == Spec => []RepairInv
<1>1. StoreInv => RepairInv
  BY DEF StoreInv, RepairInv, RepairsReal, RepairsHeld, TakenOver, Repairing, Rebuilding
<1> QED
  BY <1>1, StoreInvariant, PTL


-------------------------------------------------------------------------------
(* Dictionaries that are condemned to be imported again *)

\* A step that lifts no sentence, and passes one only for cause.
Steady ==
    /\ UNCHANGED <<shard, created, session>> /\ asked \subseteq asked' /\ clashed \subseteq clashed'
    /\ \A d \in Dict :
        /\ Condemned(d) => Condemned(d)'
        /\ Condemned(d)' => Condemned(d) \/ shard[d] = 0 \/ disk[d] \notin {"good", "stale"} \/ d \in clashed'
        /\ disk'[d] = disk[d] \/ (Condemned(d)' => d \in clashed')

\* Such a step keeps what the sentences rest on.
LEMMA SteadySteps ==
    ASSUME CondemnedForCause, Steady
    PROVE  CondemnedForCause' /\ SentenceStands
<1>1. SentenceStands
  BY DEF Steady, SentenceStands, Condemned
<1>2. \A d \in Dict : ~Provisional(d)' => ~Provisional(d)
  BY DEF Steady, Provisional
<1>3. ASSUME NEW d \in Dict, Condemned(d)', ~Provisional(d)'
      PROVE  shard'[d] = 0 \/ disk'[d] \notin {"good", "stale"} \/ d \in clashed'
  <2>1. Condemned(d) => shard[d] = 0 \/ disk[d] \notin {"good", "stale"} \/ d \in clashed
    BY <1>2, <1>3 DEF CondemnedForCause, Condemned, Steady
  <2> QED
    BY <1>3, <2>1 DEF Steady
<1> QED
  BY <1>1, <1>3 DEF CondemnedForCause, Condemned

\* Whoever changes the health of a dictionary otherwise has seen that it is not condemned.
LEMMA SteadyHealth ==
    ASSUME UNCHANGED <<files, session, clashed>>, asked \subseteq asked',
           \A d \in Dict : health'[d] = health[d] \/ (~Condemned(d) /\ health'[d] # "reimportRequired")
    PROVE  Steady
BY DEF Steady, Condemned, files

\* A call passes no sentence.
LEMMA CallsAreSteady ==
    ASSUME StoreInv, NEW c \in Call, Begins(c) \/ Loads(c) \/ Loaded(c) \/ RepairSeen(c) \/ Reloaded(c)
    PROVE  Steady
<1> DEFINE d == Of[c]
<1>1. d \in Dict /\ c \in Loader /\ TypeOK
  BY CallAssumption, OnDict DEF StoreInv
<1>2. UNCHANGED <<files, session, clashed, asked>>
  BY DEF Begins, Loads, Loaded, RepairSeen, Reloaded, owners, lookup, turns
<1>3. ASSUME Started(c, d)
      PROVE  \A e \in Dict : health'[e] = health[e] \/ (~Condemned(e) /\ health'[e] # "reimportRequired")
  <2>1. /\ load'[c].at # "yes" => UNCHANGED status
        /\ load'[c].at = "yes" => ~Condemned(d) /\ health' = [health EXCEPT ![d] = "available"]
    BY <1>1, <1>3, StartedFacts
  <2> QED
    BY <1>1, <2>1 DEF TypeOK, StoreType, status
<1>4. ASSUME NEW h \in Health \ {"reimportRequired"}, Becomes(d, h), ~Condemned(d)
      PROVE  \A e \in Dict : health'[e] = health[e] \/ (~Condemned(e) /\ health'[e] # "reimportRequired")
  BY <1>1, <1>4 DEF Becomes, TypeOK, StoreType
<1>5. \/ Started(c, d) \/ UNCHANGED status
      \/ ~Condemned(d) /\ \E h \in Health \ {"reimportRequired"} : Becomes(d, h)
  <2>1. CASE Begins(c)
    BY <2>1 DEF Begins, Condemned, Health
  <2>2. CASE Loads(c)
    BY <2>2 DEF Loads
  <2>3. CASE Loaded(c)
    BY <2>3 DEF Loaded, Current, Condemned, Health
  <2>4. CASE RepairSeen(c)
    BY <2>4 DEF RepairSeen, Current, Condemned, Health
  <2>5. CASE Reloaded(c)
    BY <2>5 DEF Reloaded, Current, Condemned, Health
  <2> QED
    BY <2>1, <2>2, <2>3, <2>4, <2>5
<1>6. \A e \in Dict : health'[e] = health[e] \/ (~Condemned(e) /\ health'[e] # "reimportRequired")
  BY <1>3, <1>4, <1>5 DEF status
<1> QED
  BY <1>2, <1>6, SteadyHealth

\* A load condemns those whose record IDs clash, and nobody else.
LEMMA FinishIsSteady ==
    ASSUME StoreInv, NEW l \in Loader, Finish(l)
    PROVE  Steady
<1> DEFINE d == On(l)
<1>1. d \in Dict /\ TypeOK /\ UNCHANGED <<files, session, asked>>
  BY OnDict DEF Finish, StoreInv, owners, turns, Invalidate
<1>2. \/ UNCHANGED <<health, clashed>>
      \/ \E e \in Dict : /\ clashed' = clashed \cup {d, e}
                         /\ health' = [health EXCEPT ![d] = "reimportRequired", ![e] = "reimportRequired"]
      \/ UNCHANGED clashed /\ ~Condemned(d) /\ health' = [health EXCEPT ![d] = "available"]
  BY DEF Finish, status, Publishable, Current, Condemned, Becomes
<1>3. CASE UNCHANGED <<health, clashed>>
  BY <1>1, <1>3, SteadyHealth
<1>4. ASSUME NEW e \in Dict, clashed' = clashed \cup {d, e},
             health' = [health EXCEPT ![d] = "reimportRequired", ![e] = "reimportRequired"]
      PROVE  Steady
  <2>1. \A x \in Dict : health'[x] = IF x \in {d, e} THEN "reimportRequired" ELSE health[x]
    BY <1>1, <1>4 DEF TypeOK, StoreType
  <2> QED
    BY <1>1, <1>4, <2>1 DEF Steady, Condemned, files
<1>5. CASE UNCHANGED clashed /\ ~Condemned(d) /\ health' = [health EXCEPT ![d] = "available"]
  <2>1. \A x \in Dict : health'[x] = health[x] \/ (~Condemned(x) /\ health'[x] # "reimportRequired")
    BY <1>1, <1>5 DEF TypeOK, StoreType
  <2> QED
    BY <1>1, <1>5, <2>1, SteadyHealth
<1> QED
  BY <1>2, <1>3, <1>4, <1>5

\* A repair that settles changes the health of its own dictionary only.
LEMMA SettledIsSteady ==
    ASSUME StoreInv, NEW d \in Dict, NEW ok \in BOOLEAN, NEW stamp, NEW h \in Health,
           Settles(d, ok, stamp, h), UNCHANGED <<files, session, asked, clashed>>,
           Condemned(d) => h = "reimportRequired",
           h = "reimportRequired" => Condemned(d) \/ shard[d] = 0 \/ disk[d] \notin {"good", "stale"}
    PROVE  Steady
<1>1. health \in [Dict -> Health]
  BY DEF StoreInv, TypeOK, StoreType
<1>2. /\ \A e \in Dict \ {d} : health'[e] = health[e]
      /\ health'[d] \in {h, "repairPending"} /\ (h = "reimportRequired" => health'[d] = h)
  BY <1>1 DEF Settles
<1> QED
  BY <1>1, <1>2 DEF Steady, Condemned, files

\* A repair condemns a dictionary only when its container is missing or unsound.
LEMMA RepairsAreSteady ==
    ASSUME StoreInv, NEW d \in Dict, RepairStep(d) \/ RepairLoads(d) \/ RepairLoaded(d)
    PROVE  Steady
<1>1. TypeOK /\ health[d] \in Health /\ d \in Loader
  BY OnDict DEF StoreInv, TypeOK, StoreType
<1>2. ASSUME NEW ok \in BOOLEAN, NEW stamp, Settles(d, ok, stamp, health[d]),
             UNCHANGED <<files, session, asked, clashed>>
      PROVE  Steady
  <2>1. (Condemned(d) => health[d] = "reimportRequired") /\ (health[d] = "reimportRequired" => Condemned(d))
    BY DEF Condemned
  <2> QED
    BY <1>1, <1>2, <2>1, SettledIsSteady
<1>3. CASE Superseded(d)
  <2>1. Settles(d, FALSE, begun[d], health[d]) /\ UNCHANGED <<files, session, asked, clashed>>
    BY <1>3 DEF Superseded, owners, lookup, turns
  <2> QED
    BY <1>2, <2>1
<1>4. CASE RepairBegins(d)
  <2>1. ~Condemned(d) /\ UNCHANGED <<files, session, asked, clashed>>
    BY <1>4 DEF RepairBegins, Proceeds, Current, Condemned, owners, lookup, turns
  <2>2. CASE shard[d] = 0
    <3>1. Settles(d, FALSE, begun[d], "reimportRequired") /\ "reimportRequired" \in Health
      BY <1>4, <2>2 DEF RepairBegins, Health
    <3> QED
      BY <2>1, <2>2, <3>1, SettledIsSteady
  <2>3. CASE shard[d] # 0
    <3>1. health' = [health EXCEPT ![d] = "repairing"]
      BY <1>4, <2>3 DEF RepairBegins
    <3>2. \A e \in Dict : health'[e] = health[e] \/ (~Condemned(e) /\ health'[e] # "reimportRequired")
      BY <1>1, <2>1, <3>1 DEF TypeOK, StoreType
    <3> QED
      BY <2>1, <3>2, SteadyHealth
  <2> QED
    BY <2>2, <2>3
<1>5. CASE RepairReads(d)
  <2>1. /\ ~Condemned(d) /\ UNCHANGED <<files, session, asked, clashed>>
        /\ \/ UNCHANGED health
           \/ disk[d] \notin {"good", "stale"} /\ Settles(d, FALSE, begun[d], "reimportRequired")
    BY <1>5 DEF RepairReads, Proceeds, Current, Condemned, Invalidate, owners, lookup, turns, status
  <2>2. CASE UNCHANGED health
    BY <2>1, <2>2, SteadyHealth
  <2>3. CASE disk[d] \notin {"good", "stale"} /\ Settles(d, FALSE, begun[d], "reimportRequired")
    <3>1. "reimportRequired" \in Health
      BY DEF Health
    <3> QED
      BY <2>1, <2>3, <3>1, SettledIsSteady
  <2> QED
    BY <2>1, <2>2, <2>3
<1>6. CASE RepairFails(d)
  <2>1. /\ ~Condemned(d) /\ UNCHANGED <<files, session, asked, clashed>>
        /\ Settles(d, FALSE, begun[d], "temporarilyUnavailable") /\ "temporarilyUnavailable" \in Health
    BY <1>6 DEF RepairFails, Proceeds, Current, Condemned, Health, owners, lookup, turns
  <2> QED
    BY <2>1, SettledIsSteady
<1>7. CASE RepairCloses(d)
  <2>1. UNCHANGED <<files, session, asked, clashed, health>>
    BY <1>7 DEF RepairCloses, owners, lookup, turns, status
  <2> QED
    BY <2>1, SteadyHealth
<1>8. CASE RepairClosed(d)
  <2>1. /\ repair[d] = "closing" /\ disk' = [disk EXCEPT ![d] = "good"]
        /\ UNCHANGED <<shard, created, session, asked, clashed, health>>
    BY <1>8 DEF RepairClosed, owners, turns, status
  <2>2. Condemned(d) => d \in clashed
    BY <2>1 DEF StoreInv, RepairShape, Repairing, Rebuilding
  <2>3. \A e \in Dict \ {d} : disk'[e] = disk[e]
    BY <1>1, <2>1 DEF TypeOK, StoreType
  <2> QED
    BY <2>1, <2>2, <2>3 DEF Steady, Condemned
<1>9. CASE Repaired(d)
  <2>1. /\ UNCHANGED <<files, session, asked, clashed>>
        /\ UNCHANGED health \/ Settles(d, TRUE, After(begun[d]), health[d])
    BY <1>9 DEF Repaired, Invalidate, owners, turns
  <2> QED
    BY <1>2, <2>1, SteadyHealth
<1>10. CASE RepairLoads(d)
  <2>1. UNCHANGED <<files, session, asked, clashed>>
    BY <1>10 DEF RepairLoads, owners, lookup, turns
  <2>2. CASE Started(d, d)
    <3>1. /\ load'[d].at # "yes" => UNCHANGED status
          /\ load'[d].at = "yes" => ~Condemned(d) /\ health' = [health EXCEPT ![d] = "available"]
      BY <1>1, <2>2, StartedFacts
    <3>2. \A e \in Dict : health'[e] = health[e] \/ (~Condemned(e) /\ health'[e] # "reimportRequired")
      BY <1>1, <3>1 DEF TypeOK, StoreType, status
    <3> QED
      BY <2>1, <3>2, SteadyHealth
  <2>3. CASE Settles(d, FALSE, After(begun[d]), health[d])
    BY <1>2, <2>1, <2>3
  <2> QED
    BY <1>10, <2>2, <2>3 DEF RepairLoads
<1>11. CASE RepairLoaded(d)
  <2> DEFINE ok == load[d].at = "yes" /\ Owned(d) /\ Current(d, After(begun[d]))
  <2>1. UNCHANGED <<files, session, asked, clashed>>
    BY <1>11 DEF RepairLoaded, owners, lookup, turns
  <2>2. \/ /\ Settles(d, FALSE, After(begun[d]), "temporarilyUnavailable")
           /\ "temporarilyUnavailable" \in Health /\ ~Condemned(d)
        \/ Settles(d, ok, After(begun[d]), health[d])
    BY <1>11 DEF RepairLoaded, Health, Current, Condemned
  <2>3. ok \in BOOLEAN
    OBVIOUS
  <2> HIDE DEF ok
  <2>4. CASE /\ Settles(d, FALSE, After(begun[d]), "temporarilyUnavailable")
             /\ "temporarilyUnavailable" \in Health /\ ~Condemned(d)
    BY <2>1, <2>4, SettledIsSteady
  <2>5. CASE Settles(d, ok, After(begun[d]), health[d])
    BY <1>2, <2>1, <2>3, <2>5
  <2> QED
    BY <2>2, <2>4, <2>5
<1> QED
  BY <1>3, <1>4, <1>5, <1>6, <1>7, <1>8, <1>9, <1>10, <1>11 DEF RepairStep

\* A mutation lifts sentences in its turn only, and gives no condemned dictionary a
\* container again.
LEMMA MutationsKeepCause ==
    ASSUME StoreInv, CondemnedForCause, Mutates
    PROVE  CondemnedForCause' /\ SentenceStands
<1>1. TypeOK
  BY DEF StoreInv
<1>2. CASE Turn \/ Unrestored \/ Abandons
  <2>1. UNCHANGED <<files, session, asked, clashed, health>>
    BY <1>2 DEF Turn, Unrestored, Abandons, Over, owners, status
  <2> QED
    BY <2>1 DEF CondemnedForCause, SentenceStands, Provisional, files
<1>3. CASE Runs
  <2>1. /\ UNCHANGED <<files, clashed>> /\ asked' = asked /\ stage = "draining"
        /\ \/ UNCHANGED <<session, health>>
           \/ /\ Head(queue)[1] = "delete" /\ UNCHANGED session
              /\ health' = [health EXCEPT ![Head(queue)[2]] = "available"]
           \/ Head(queue) = Begin /\ UNCHANGED health
           \/ Head(queue) = Rollback /\ UNCHANGED health
    BY <1>3 DEF Runs, Over, Becomes, status
  <2>2. Queued(Head(queue)) /\ Head(queue) \in asked
    BY <2>1, HeadFacts
  <2>3. Head(queue) = Begin => session = {}
    BY <2>2 DEF StoreInv, SessionShape
  <2>4. \A e \in Dict : Condemned(e)' => Condemned(e)
    BY <1>1, <2>1 DEF TypeOK, StoreType, Condemned
  <2>5. \A e \in Dict : Provisional(e) => Provisional(e)'
    BY <2>1, <2>2, <2>3 DEF Provisional, files
  <2> QED
    BY <2>1, <2>4, <2>5 DEF CondemnedForCause, SentenceStands, Condemned, files
<1>4. CASE Deleted
  <2>1. PICK d \in Dict : /\ shard' = [shard EXCEPT ![d] = 0] /\ disk' \in {disk, [disk EXCEPT ![d] = "none"]}
                          /\ UNCHANGED <<created, session, asked, health, clashed>>
    <3>1. \E x \in Delete : Head(queue) = <<"delete", x>>
      BY <1>4 DEF StoreInv, QueueShape, Deleted
    <3>2. Head(queue)[2] \in Dict
      BY <3>1, BoundAssumption
    <3> QED
      BY <1>4, <3>2 DEF Deleted, Over, status
  <2>2. shard'[d] = 0 /\ \A e \in Dict \ {d} : shard'[e] = shard[e] /\ disk'[e] = disk[e]
    BY <1>1, <2>1 DEF TypeOK, StoreType
  <2> QED
    BY <2>1, <2>2 DEF CondemnedForCause, SentenceStands, Provisional
<1>5. ASSUME NEW d \in Dict, Removes(d) PROVE CondemnedForCause' /\ SentenceStands
  <2>1. /\ disk' = [disk EXCEPT ![d] = "none"]
        /\ UNCHANGED <<shard, created, session, asked, health, clashed>>
    BY <1>5 DEF Removes, owners, status
  <2>2. disk'[d] = "none" /\ \A e \in Dict \ {d} : disk'[e] = disk[e]
    BY <1>1, <2>1 DEF TypeOK, StoreType
  <2> QED
    BY <2>1, <2>2 DEF CondemnedForCause, SentenceStands, Provisional
<1>6. CASE Forgets
  BY <1>6 DEF Forgets, CondemnedForCause, SentenceStands
<1>7. CASE Prepares
  <2>1. (\A e \in Dict : ~Condemned(e)) /\ UNCHANGED health
    BY <1>7 DEF Prepares, StoreInv, SessionShape, status
  <2> QED
    BY <2>1 DEF CondemnedForCause, SentenceStands, Condemned
<1> QED
  BY <1>2, <1>3, <1>4, <1>5, <1>6, <1>7 DEF Mutates

\* An import session lifts the sentence of what it writes anew, and of nothing else.
LEMMA ImportsKeepCause ==
    ASSUME StoreInv, CondemnedForCause, Imports
    PROVE  CondemnedForCause' /\ SentenceStands
<1>1. TypeOK
  BY DEF StoreInv
<1>2. CASE Closes
  <2>1. /\ importing /\ disk' = [d \in Dict |-> IF d \in created THEN "good" ELSE disk[d]]
        /\ UNCHANGED <<shard, created, session, asked, health, clashed>>
    BY <1>2 DEF Closes, owners, turns, status
  <2>2. created \subseteq session
    BY <2>1 DEF StoreInv, SessionShape
  <2>3. \A e \in Dict : Provisional(e)' = Provisional(e) /\ (e \notin created => disk'[e] = disk[e])
    BY <2>1 DEF Provisional
  <2>4. \A e \in created : Provisional(e)
    BY <2>2 DEF Provisional
  <2> QED
    BY <2>1, <2>3, <2>4 DEF CondemnedForCause, SentenceStands
<1>3. CASE EndsSession
  <2>1. /\ health' = [d \in Dict |-> IF d \in session THEN "available" ELSE health[d]]
        /\ UNCHANGED <<disk, shard, created, asked, clashed>>
    BY <1>3 DEF EndsSession, files, turns
  <2> QED
    BY <2>1 DEF CondemnedForCause, SentenceStands, Provisional
<1>4. ASSUME NEW d \in Dict, Appends(d) PROVE CondemnedForCause' /\ SentenceStands
  <2>1. /\ session' = session \cup {d} /\ UNCHANGED <<asked, health, clashed>>
        /\ \/ UNCHANGED <<disk, shard, created>>
           \/ /\ shard' = [shard EXCEPT ![d] = shards + 1] /\ disk' = [disk EXCEPT ![d] = "partial"]
              /\ created' = created \cup {d}
    BY <1>4 DEF Appends, turns
  <2>2. /\ \A e \in Dict \ {d} : shard'[e] = shard[e] /\ disk'[e] = disk[e]
        /\ disk'[d] = "partial" \/ UNCHANGED <<disk, shard>>
    BY <1>1, <2>1 DEF TypeOK, StoreType
  <2>3. \A e \in Dict : Provisional(e) => Provisional(e)'
    BY <2>1 DEF Provisional
  <2> QED
    BY <2>1, <2>2, <2>3 DEF CondemnedForCause, SentenceStands
<1> QED
  BY <1>2, <1>3, <1>4 DEF Imports

\* Every step keeps what the sentences rest on.
LEMMA CauseStep ==
    ASSUME StoreInv, CondemnedForCause, [Next]_vars
    PROVE  CondemnedForCause' /\ (SentenceStands \/ UNCHANGED vars)
<1>1. ASSUME NEW c \in Call, Loads(c) \/ Loaded(c) \/ RepairSeen(c) \/ Reloaded(c) \/ Begins(c)
      PROVE  CondemnedForCause' /\ SentenceStands
  BY <1>1, CallsAreSteady, SteadySteps
<1>2. ASSUME NEW d \in Dict, RepairStep(d) \/ RepairLoads(d) \/ RepairLoaded(d)
      PROVE  CondemnedForCause' /\ SentenceStands
  BY <1>2, RepairsAreSteady, SteadySteps
<1>3. ASSUME NEW l \in Loader, Finish(l) PROVE CondemnedForCause' /\ SentenceStands
  BY <1>3, FinishIsSteady, SteadySteps
<1>4. ASSUME UNCHANGED <<files, session, clashed, health>>, asked \subseteq asked'
      PROVE  CondemnedForCause' /\ SentenceStands
  BY <1>4, SteadyHealth, SteadySteps
<1>5. ASSUME NEW l \in Loader, Read(l) PROVE CondemnedForCause' /\ SentenceStands
  BY <1>4, <1>5 DEF Read, owners, lookup, status, turns
<1>6. ASSUME NEW d \in Dict, RetryDue(d) PROVE CondemnedForCause' /\ SentenceStands
  BY <1>4, <1>6 DEF RetryDue, owners, lookup, turns
<1>7. ASSUME NEW m \in Mutation, Ask(m) PROVE CondemnedForCause' /\ SentenceStands
  BY <1>4, <1>7 DEF Ask, owners, lookup, status
<1>8. CASE Mutates
  BY <1>8, MutationsKeepCause
<1>9. CASE Imports
  BY <1>9, ImportsKeepCause
<1>10. CASE UNCHANGED vars
  BY <1>4, <1>10 DEF vars, owners, lookup, status, turns
<1>11. CASE Rests
  BY <1>10, <1>11 DEF Rests
<1> QED
  BY <1>1, <1>2, <1>3, <1>5, <1>6, <1>7, <1>8, <1>9, <1>10, <1>11 DEF Next, Continuation, Event

\* A dictionary is condemned to be imported again only for cause, and only a storage
\* mutation or the import that writes it anew lifts the sentence: no load or repair that
\* was under way makes it available again (_setDictionaryHealth).
THEOREM SentencesAreJust == Spec => Condemnation
<1>1. Init => CondemnedForCause
  BY DEF Init, CondemnedForCause
<1>2. StoreInv /\ CondemnedForCause /\ [Next]_vars => CondemnedForCause' /\ [SentenceStands]_vars
  BY CauseStep
<1> QED
  BY <1>1, <1>2, StoreInvariant, PTL DEF Spec, Condemnation
=============================================================================
