--------------------------- MODULE LifecycleProofs ---------------------------
(***************************************************************************)
(* Proofs about Lifecycle, for any sets of instances, secrets and          *)
(* goroutines and any number of changes.                                   *)
(***************************************************************************)
EXTENDS Lifecycle, TLAPS

\* A goroutine that is gone has none of the places of one that runs.
LEMMA GoneIsNoRoutine ==
    /\ Gone \notin Routines
    /\ \A r : r \in Routines => r # Gone /\ r.pc # "gone"
BY DEF Gone, Routines

\* The shapes, and what is registered: together they are inductive.
IndInv == TypeOK /\ RegisteredWhileRunning

\* At the start nothing is registered and nothing runs.
LEMMA InitInv == Init => IndInv
<1> SUFFICES ASSUME Init PROVE IndInv
  OBVIOUS
<1>1. fresh \in BOOLEAN /\ queued \in BOOLEAN /\ crons \in BOOLEAN
  BY Zenon DEF Init
<1>2. StoredTyped
  BY <1>1, BoundAssumption DEF Init, StoredTyped
<1>3. RecTyped
  BY <1>1 DEF Init, RecTyped
<1>4. MemoryTyped
  BY <1>1 DEF Init, MemoryTyped
<1>5. RegisteredWhileRunning
  BY AbsentAssumption DEF Init, RegisteredWhileRunning
<1> QED BY <1>2, <1>3, <1>4, <1>5 DEF IndInv, TypeOK

\* syncer.Stop leaves every goroutine as it was, but the registered one marked.
LEMMA StoppedMarks ==
    ASSUME IndInv
    PROVE  /\ Stopped(routine) \in [Goroutines -> Routines \cup {Gone}]
           /\ \A g \in Goroutines :
                (Stopped(routine)[g] = Gone) <=> (routine[g] = Gone)
           /\ \A g \in Goroutines : Stopped(routine)[g] # Gone => Stopped(routine)[g].stopped
<1>1. CASE syncers = Absent
  BY <1>1, AbsentAssumption, GoneIsNoRoutine
     DEF IndInv, TypeOK, MemoryTyped, RegisteredWhileRunning, Stopped, Routines
<1>2. CASE syncers # Absent
  <2>1. syncers \in Goroutines /\ routine[syncers] \in Routines
    BY <1>2 DEF IndInv, TypeOK, MemoryTyped, RegisteredWhileRunning
  <2>2. [routine[syncers] EXCEPT !.stopped = TRUE] \in Routines
    BY <2>1 DEF Routines
  <2> DEFINE s == [routine EXCEPT ![syncers] = [routine[syncers] EXCEPT !.stopped = TRUE]]
  <2>3. Stopped(routine) = s
    BY <1>2 DEF Stopped
  <2>4. /\ s \in [Goroutines -> Routines \cup {Gone}]
        /\ s[syncers] = [routine[syncers] EXCEPT !.stopped = TRUE]
        /\ \A g \in Goroutines : g # syncers => s[g] = routine[g]
    BY <2>1, <2>2 DEF IndInv, TypeOK, MemoryTyped
  <2>5. s[syncers].stopped /\ s[syncers] # Gone /\ routine[syncers] # Gone
    BY <2>1, <2>2, <2>4, GoneIsNoRoutine DEF Routines
  <2>6. \A g \in Goroutines : g # syncers /\ routine[g] # Gone => routine[g].stopped
    BY DEF IndInv, RegisteredWhileRunning
  <2> HIDE DEF s
  <2> QED BY <2>3, <2>4, <2>5, <2>6
<1> QED BY <1>1, <1>2

-----------------------------------------------------------------------------
(* What single updates preserve                                            *)

\* A write of a well-formed object, which outdates every copy.
LEMMA PutTyped ==
    ASSUME StoredTyped, NEW obj \in Objects \cup {Absent}, Put(obj),
           secret' = secret, changes' \in 0 .. MaxChanges
    PROVE  StoredTyped'
<1>1. fresh' \in BOOLEAN /\ ~fresh'
  BY Zenon DEF Put
<1> QED BY <1>1 DEF StoredTyped, Put

\* The reconciler's copy loses at most its version.
LEMMA OutdatedTyped ==
    ASSUME RecTyped
    PROVE  Outdated(rec) \in Held \cup {Idle}
<1>1. CASE rec = Idle
  BY <1>1 DEF Outdated, Idle
<1>2. CASE rec \in Held
  <2>1. rec.pc # "idle" /\ [rec EXCEPT !.fresh = FALSE] \in Held
    BY <1>2 DEF Held
  <2> QED BY <2>1 DEF Outdated
<1> QED BY <1>1, <1>2 DEF RecTyped

\* A reconciler that is not idle holds a well-formed copy.
LEMMA HeldCopy ==
    ASSUME RecTyped, rec.pc # "idle"
    PROVE  rec \in Held /\ rec.sa \in Objects /\ rec.sa.target \in Instances
<1>1. rec \in Held
  BY DEF RecTyped, Idle
<1>2. rec.sa \in Objects
  BY <1>1 DEF Held
<1> QED BY <1>1, <1>2 DEF Objects

\* What is not touched keeps its shape, and what is registered keeps running.
LEMMA MemoryKept ==
    ASSUME MemoryTyped, RegisteredWhileRunning, UNCHANGED memory
    PROVE  MemoryTyped' /\ RegisteredWhileRunning'
BY DEF MemoryTyped, RegisteredWhileRunning, memory

\* The same when only a series is added.
LEMMA MemoryKeptRecorded ==
    ASSUME MemoryTyped, RegisteredWhileRunning, NEW t \in Instances,
           Recorded(t) \/ UNCHANGED series,
           UNCHANGED <<syncers, routine, crons, ticking, labelsCache>>
    PROVE  MemoryTyped' /\ RegisteredWhileRunning'
<1>1. series' \subseteq Instances
  BY DEF MemoryTyped, Recorded
<1> QED BY <1>1 DEF MemoryTyped, RegisteredWhileRunning

\* A goroutine that moves to another place stays registered, or stopped, as it was.
LEMMA MovedTyped ==
    ASSUME MemoryTyped, RegisteredWhileRunning, NEW g \in Goroutines,
           NEW pc \in {"idle", "fetch", "write"}, routine[g] # Gone, At(g, pc),
           series' \subseteq Instances, UNCHANGED <<syncers, crons, ticking, labelsCache>>
    PROVE  MemoryTyped' /\ RegisteredWhileRunning'
<1>1. routine[g] \in Routines
  BY DEF MemoryTyped
<1>2. /\ routine' = [routine EXCEPT ![g] = [routine[g] EXCEPT !.pc = pc]]
      /\ [routine[g] EXCEPT !.pc = pc] \in Routines
      /\ [routine[g] EXCEPT !.pc = pc].stopped = routine[g].stopped
  BY <1>1 DEF At, Routines
<1> DEFINE r == [routine[g] EXCEPT !.pc = pc]
<1>3. r \in Routines /\ r # Gone /\ r.stopped = routine[g].stopped
  BY <1>2, GoneIsNoRoutine
<1>4. routine' = [routine EXCEPT ![g] = r]
  BY <1>2
<1> HIDE DEF r
<1>5. routine' \in [Goroutines -> Routines \cup {Gone}]
  BY <1>3, <1>4 DEF MemoryTyped
<1>6. MemoryTyped'
  BY <1>5 DEF MemoryTyped
<1>7. \A h \in Goroutines : (routine'[h] # Gone /\ ~routine'[h].stopped)
                            <=> (routine[h] # Gone /\ ~routine[h].stopped)
  BY <1>3, <1>4 DEF MemoryTyped
<1> QED BY <1>6, <1>7 DEF RegisteredWhileRunning

-----------------------------------------------------------------------------
(* Steps                                                                   *)

\* Changes of the object from outside.
LEMMA OutsideStep ==
    ASSUME IndInv, Outside
    PROVE  IndInv'
<1> USE DEF IndInv, TypeOK
<1>1. ASSUME NEW obj \in Objects \cup {Absent}, OutsidePut(obj) PROVE IndInv'
  <2>1. changes' \in 0 .. MaxChanges
    BY <1>1, BoundAssumption DEF OutsidePut, StoredTyped
  <2>2. StoredTyped'
    BY <1>1, <2>1, PutTyped DEF OutsidePut
  <2>3. RecTyped'
    BY <1>1, OutdatedTyped DEF OutsidePut, RecTyped
  <2> QED BY <1>1, <2>2, <2>3, MemoryKept DEF OutsidePut
<1>2. CASE CreateAutoscaler
  <2>1. PICK t \in Instances, a \in AuthTypes :
            OutsidePut([target |-> t, auth |-> a, schedules |-> FALSE, from |-> Absent])
    BY <1>2 DEF CreateAutoscaler
  <2>2. [target |-> t, auth |-> a, schedules |-> FALSE, from |-> Absent] \in Objects
    BY DEF Objects
  <2> QED BY <1>1, <2>1, <2>2
<1>3. CASE DeleteAutoscaler
  BY <1>1, <1>3 DEF DeleteAutoscaler
<1>4. CASE EditAuthentication
  <2>1. PICK a \in AuthTypes : OutsidePut([object EXCEPT !.auth = a])
    BY <1>4 DEF EditAuthentication
  <2>2. [object EXCEPT !.auth = a] \in Objects
    BY <1>4 DEF EditAuthentication, StoredTyped, Objects
  <2> QED BY <1>1, <2>1, <2>2
<1>5. CASE RegisterSchedule
  <2>1. [object EXCEPT !.schedules = TRUE] \in Objects
    BY <1>5 DEF RegisterSchedule, StoredTyped, Objects
  <2> QED BY <1>1, <1>5, <2>1 DEF RegisterSchedule
<1>6. CASE ChangeSecret
  <2>1. changes' \in 0 .. MaxChanges /\ secret' \in Secrets \cup {Absent}
    BY <1>6, BoundAssumption DEF ChangeSecret, StoredTyped
  <2>2. StoredTyped'
    BY <1>6, <2>1 DEF ChangeSecret, StoredTyped
  <2>3. RecTyped'
    BY <1>6 DEF ChangeSecret, RecTyped
  <2> QED BY <1>6, <2>2, <2>3, MemoryKept DEF ChangeSecret
<1> QED BY <1>2, <1>3, <1>4, <1>5, <1>6 DEF Outside

\* The informer.
LEMMA InformerStep ==
    ASSUME IndInv, CacheSync \/ Resync
    PROVE  IndInv'
<1> USE DEF IndInv, TypeOK
<1>1. CASE CacheSync
  <2>1. fresh' \in BOOLEAN /\ queued' \in BOOLEAN
    BY <1>1, Zenon DEF CacheSync
  <2>2. StoredTyped' /\ RecTyped'
    BY <1>1, <2>1 DEF CacheSync, StoredTyped, RecTyped
  <2> QED BY <1>1, <2>2, MemoryKept DEF CacheSync
<1>2. CASE Resync
  <2>1. queued' \in BOOLEAN
    BY <1>2, Zenon DEF Resync
  <2>2. StoredTyped' /\ RecTyped'
    BY <1>2, <2>1 DEF Resync, StoredTyped, RecTyped, stored
  <2> QED BY <1>2, <2>2, MemoryKept DEF Resync
<1> QED BY <1>1, <1>2

\* Labels and series after updateLabelsCache.
LEMMA LabelsTyped ==
    ASSUME MemoryTyped, NEW sa \in Objects \cup {Absent}, updateLabelsCache(sa)
    PROVE  labelsCache' \in Instances \cup {Absent} /\ series' \subseteq Instances
BY DEF MemoryTyped, updateLabelsCache, Objects

\* With the registered syncer told to stop, no running one is left unregistered.
LEMMA StoppedUnregistered ==
    ASSUME IndInv, routine' = Stopped(routine), syncers' = Absent
    PROVE  /\ routine' \in [Goroutines -> Routines \cup {Gone}]
           /\ \A g \in Goroutines : ~(routine'[g] # Gone /\ ~routine'[g].stopped)
           /\ \A g \in Goroutines : g # syncers'
BY StoppedMarks, AbsentAssumption

\* ReconcileGone stops whatever runs under the name.
LEMMA GoneStep ==
    ASSUME IndInv, ReconcileGone
    PROVE  IndInv'
<1> USE DEF IndInv, TypeOK
<1>1. queued' \in BOOLEAN /\ crons' \in BOOLEAN /\ ~crons'
  BY Zenon DEF ReconcileGone
<1>2. StoredTyped' /\ RecTyped'
  BY <1>1 DEF ReconcileGone, StoredTyped, RecTyped, stored
<1>3. labelsCache' \in Instances \cup {Absent} /\ series' \subseteq Instances
  BY LabelsTyped DEF ReconcileGone
<1>4. /\ routine' \in [Goroutines -> Routines \cup {Gone}]
      /\ \A g \in Goroutines : ~(routine'[g] # Gone /\ ~routine'[g].stopped)
      /\ \A g \in Goroutines : g # syncers'
  BY StoppedUnregistered DEF ReconcileGone
<1>5. ticking' = 0
  BY DEF ReconcileGone, RegisteredWhileRunning, MemoryTyped
<1>6. MemoryTyped'
  BY <1>1, <1>3, <1>4, <1>5 DEF MemoryTyped, ReconcileGone
<1>7. RegisteredWhileRunning'
  BY <1>1, <1>4, <1>5 DEF RegisteredWhileRunning
<1> QED BY <1>2, <1>6, <1>7

\* The other paths of Reconcile that leave the registered syncer as it is.
LEMMA ReconcileKeeps ==
    ASSUME IndInv,
           ReconcileGet \/ ReconcileCredentialsError \/ ReconcileUpdateInstance \/ ReconcileWrite
    PROVE  IndInv'
<1> USE DEF IndInv, TypeOK
<1>1. ASSUME NEW b \in BOOLEAN, Return(b) PROVE RecTyped'
  <2>1. queued' \in BOOLEAN
    BY <1>1 DEF Return, RecTyped
  <2> QED BY <1>1, <2>1 DEF Return, RecTyped
<1>2. CASE ReconcileGet
  <2>1. cache \in Objects /\ fresh \in BOOLEAN
    BY <1>2 DEF ReconcileGet, StoredTyped
  <2>2. rec' \in Held
    BY <1>2, <2>1 DEF ReconcileGet, Held
  <2>3. queued' \in BOOLEAN
    BY <1>2, Zenon DEF ReconcileGet
  <2>4. StoredTyped' /\ RecTyped'
    BY <1>2, <2>2, <2>3 DEF ReconcileGet, StoredTyped, RecTyped, stored
  <2>5. labelsCache' \in Instances \cup {Absent} /\ series' \subseteq Instances
    BY <1>2, <2>1, LabelsTyped DEF ReconcileGet
  <2>6. MemoryTyped' /\ RegisteredWhileRunning'
    BY <1>2, <2>5 DEF ReconcileGet, MemoryTyped, RegisteredWhileRunning
  <2> QED BY <2>4, <2>6
<1>3. CASE ReconcileCredentialsError
  <2>1. RecTyped' /\ rec.sa.target \in Instances
    BY <1>1, <1>3, HeldCopy DEF ReconcileCredentialsError
  <2>2. StoredTyped'
    BY <1>3 DEF ReconcileCredentialsError, StoredTyped, stored
  <2> QED BY <1>3, <2>1, <2>2, MemoryKeptRecorded DEF ReconcileCredentialsError
<1>4. CASE ReconcileUpdateInstance
  <2>1. rec \in Held /\ rec.sa.target \in Instances
    BY <1>4, HeldCopy DEF ReconcileUpdateInstance
  <2>2. [rec EXCEPT !.pc = "write"] \in Held
    BY <2>1 DEF Held
  <2>3. RecTyped'
    BY <1>1, <1>4, <2>2 DEF ReconcileUpdateInstance, RecTyped
  <2>4. StoredTyped'
    BY <1>4 DEF ReconcileUpdateInstance, StoredTyped, stored
  <2> QED BY <1>4, <2>1, <2>3, <2>4, MemoryKeptRecorded DEF ReconcileUpdateInstance
<1>5. CASE ReconcileWrite
  <2>1. rec.sa.target \in Instances
    BY <1>5, HeldCopy DEF ReconcileWrite
  <2>2. RecTyped'
    BY <1>1, <1>5 DEF ReconcileWrite
  <2>3. StoredTyped'
    <3>1. CASE Put(object)
      BY <1>5, <3>1, PutTyped DEF ReconcileWrite, StoredTyped
    <3>2. CASE UNCHANGED <<object, cache, fresh>>
      BY <1>5, <3>2 DEF ReconcileWrite, StoredTyped
    <3> QED BY <1>5, <3>1, <3>2 DEF ReconcileWrite
  <2> QED BY <1>5, <2>1, <2>2, <2>3, MemoryKeptRecorded DEF ReconcileWrite
<1> QED BY <1>2, <1>3, <1>4, <1>5

\* A syncer is replaced by a new goroutine: the old one was told to stop.
LEMMA StartStep ==
    ASSUME IndInv, ReconcileStartSyncer
    PROVE  IndInv'
<1> USE DEF IndInv, TypeOK
<1>1. rec \in Held /\ rec.sa \in Objects /\ rec.sa.target \in Instances
  BY HeldCopy DEF ReconcileStartSyncer
<1>2. Credentials(rec.sa) \in Secrets \cup AuthTypes
  BY <1>1 DEF ReconcileStartSyncer, Credentials, Objects, StoredTyped
<1>3. PICK g \in Free :
        /\ syncers' = g
        /\ routine' = [Stopped(routine) EXCEPT ![g] =
             [pc |-> "idle", target |-> rec.sa.target, stopped |-> FALSE,
              credentials |-> Credentials(rec.sa)]]
  BY DEF ReconcileStartSyncer
<1> DEFINE new == [pc |-> "idle", target |-> rec.sa.target, stopped |-> FALSE,
                   credentials |-> Credentials(rec.sa)]
<1>4. new \in Routines /\ new # Gone /\ ~new.stopped
  BY <1>1, <1>2, GoneIsNoRoutine DEF Routines
<1>5. g \in Goroutines /\ routine' = [Stopped(routine) EXCEPT ![g] = new]
  BY <1>3 DEF Free
<1> HIDE DEF new
<1>6. /\ routine' \in [Goroutines -> Routines \cup {Gone}]
      /\ \A h \in Goroutines : (routine'[h] # Gone /\ ~routine'[h].stopped) <=> h = g
  BY <1>4, <1>5, StoppedMarks
<1>7. series' \subseteq Instances
  BY <1>1 DEF ReconcileStartSyncer, Recorded, MemoryTyped
<1>8. MemoryTyped' /\ RegisteredWhileRunning'
  BY <1>3, <1>5, <1>6, <1>7 DEF ReconcileStartSyncer, MemoryTyped, RegisteredWhileRunning
<1>9. StoredTyped' /\ RecTyped'
  BY DEF ReconcileStartSyncer, Return, StoredTyped, RecTyped, stored
<1> QED BY <1>8, <1>9

\* If no new one can be started, none is registered.
LEMMA StartErrorStep ==
    ASSUME IndInv, ReconcileStartError
    PROVE  IndInv'
<1> USE DEF IndInv, TypeOK
<1>1. rec.sa.target \in Instances
  BY HeldCopy DEF ReconcileStartError
<1>2. series' \subseteq Instances
  BY <1>1 DEF ReconcileStartError, Recorded, MemoryTyped
<1>3. /\ routine' \in [Goroutines -> Routines \cup {Gone}]
      /\ \A g \in Goroutines : ~(routine'[g] # Gone /\ ~routine'[g].stopped)
      /\ \A g \in Goroutines : g # syncers'
  BY StoppedUnregistered DEF ReconcileStartError
<1>4. MemoryTyped' /\ RegisteredWhileRunning'
  BY <1>2, <1>3 DEF ReconcileStartError, MemoryTyped, RegisteredWhileRunning
<1>5. queued' \in BOOLEAN
  BY Zenon DEF ReconcileStartError, Return
<1>6. StoredTyped' /\ RecTyped'
  BY <1>5 DEF ReconcileStartError, Return, StoredTyped, RecTyped, stored
<1> QED BY <1>4, <1>6

\* A cron is started once, with the first schedule.
LEMMA DecideStep ==
    ASSUME IndInv, ReconcileDecide
    PROVE  IndInv'
<1> USE DEF IndInv, TypeOK
<1>1. rec \in Held /\ rec.sa \in Objects /\ rec.sa.target \in Instances
  BY HeldCopy DEF ReconcileDecide
<1>2. rec.sa.schedules \in BOOLEAN
  BY <1>1 DEF Objects
<1>3. /\ crons' \in BOOLEAN
      /\ ticking' = IF crons' THEN 1 ELSE 0
  BY <1>2 DEF ReconcileDecide, MemoryTyped, RegisteredWhileRunning
<1>4. series' \subseteq Instances
  BY <1>1 DEF ReconcileDecide, Recorded, MemoryTyped
<1>5. MemoryTyped' /\ RegisteredWhileRunning'
  BY <1>3, <1>4 DEF ReconcileDecide, MemoryTyped, RegisteredWhileRunning
<1>6. ASSUME NEW pc \in {"update", "write"} PROVE [rec EXCEPT !.pc = pc] \in Held
  BY <1>1 DEF Held
<1>7. RecTyped'
  <2>1. CASE \E b \in BOOLEAN : Return(b)
    BY <2>1 DEF Return, RecTyped
  <2>2. CASE UNCHANGED queued /\ \E pc \in {"update", "write"} : rec' = [rec EXCEPT !.pc = pc]
    BY <1>6, <2>2 DEF RecTyped
  <2> QED BY <2>1, <2>2 DEF ReconcileDecide
<1>8. StoredTyped'
  BY DEF ReconcileDecide, StoredTyped, stored
<1> QED BY <1>5, <1>7, <1>8

\* Syncers move, write and end; the registered one does not end.
LEMMA SyncerStep ==
    ASSUME IndInv, NEW g \in Goroutines, SyncStart(g) \/ SyncResource(g) \/ SyncerEnd(g)
    PROVE  IndInv'
<1> USE DEF IndInv, TypeOK
<1>1. routine[g] # Gone
  BY DEF SyncStart, SyncResource, SyncFetch, SyncWrite, SyncError, SyncerEnd, Gone
<1>2. routine[g] \in Routines /\ routine[g].target \in Instances
  BY <1>1 DEF MemoryTyped, Routines
<1>3. CASE SyncStart(g)
  <2>1. StoredTyped' /\ RecTyped'
    BY <1>3 DEF SyncStart, StoredTyped, RecTyped, stored
  <2>2. series' \subseteq Instances
    BY <1>3 DEF SyncStart, MemoryTyped
  <2> QED BY <1>1, <1>3, <2>1, <2>2, MovedTyped DEF SyncStart
<1>4. CASE SyncFetch(g)
  <2>1. StoredTyped' /\ RecTyped'
    BY <1>4 DEF SyncFetch, StoredTyped, RecTyped, stored
  <2>2. series' \subseteq Instances
    BY <1>2, <1>4 DEF SyncFetch, Recorded, MemoryTyped
  <2> QED BY <1>1, <1>4, <2>1, <2>2, MovedTyped DEF SyncFetch
<1>5. CASE SyncWrite(g)
  <2>1. object \in Objects
    BY <1>5 DEF SyncWrite, StoredTyped
  <2>2. [object EXCEPT !.from = routine[g].target] \in Objects
    BY <1>2, <2>1 DEF Objects
  <2>3. StoredTyped'
    BY <1>5, <2>2, PutTyped DEF SyncWrite, StoredTyped
  <2>4. RecTyped'
    BY <1>5, OutdatedTyped DEF SyncWrite, RecTyped
  <2>5. series' \subseteq Instances
    BY <1>5 DEF SyncWrite, MemoryTyped
  <2> QED BY <1>1, <1>5, <2>3, <2>4, <2>5, MovedTyped DEF SyncWrite
<1>6. CASE SyncError(g)
  <2>1. StoredTyped' /\ RecTyped'
    BY <1>6 DEF SyncError, StoredTyped, RecTyped, stored
  <2>2. series' \subseteq Instances
    BY <1>6 DEF SyncError, MemoryTyped
  <2> QED BY <1>1, <1>6, <2>1, <2>2, MovedTyped DEF SyncError
<1>7. CASE SyncerEnd(g)
  <2>1. StoredTyped' /\ RecTyped'
    BY <1>7 DEF SyncerEnd, StoredTyped, RecTyped, stored
  <2>2. MemoryTyped'
    BY <1>7 DEF SyncerEnd, MemoryTyped
  <2>3. g # syncers
    BY <1>7 DEF SyncerEnd, RegisteredWhileRunning
  <2>4. RegisteredWhileRunning'
    BY <1>7, <2>3 DEF SyncerEnd, RegisteredWhileRunning, MemoryTyped
  <2> QED BY <2>1, <2>2, <2>4
<1> QED BY <1>3, <1>4, <1>5, <1>6, <1>7 DEF SyncResource

\* A restart leaves nothing in memory.
LEMMA RestartStep ==
    ASSUME IndInv, Restart
    PROVE  IndInv'
<1> USE DEF IndInv, TypeOK
<1>1. fresh' \in BOOLEAN /\ crons' \in BOOLEAN /\ ~crons'
  BY Zenon DEF Restart
<1>2. changes' \in 0 .. MaxChanges
  BY BoundAssumption DEF Restart, StoredTyped
<1>3. StoredTyped'
  BY <1>1, <1>2 DEF Restart, StoredTyped
<1>4. RecTyped'
  BY DEF Restart, RecTyped
<1>5. MemoryTyped'
  BY <1>1 DEF Restart, MemoryTyped
<1>6. RegisteredWhileRunning'
  BY <1>1, AbsentAssumption DEF Restart, RegisteredWhileRunning
<1> QED BY <1>3, <1>4, <1>5, <1>6

\* Every step keeps the invariant.
LEMMA NextInv ==
    ASSUME IndInv, [Next]_vars
    PROVE  IndInv'
<1>1. CASE UNCHANGED vars
  <2>1. StoredTyped' /\ RecTyped'
    BY <1>1 DEF IndInv, TypeOK, StoredTyped, RecTyped, vars, stored
  <2> QED BY <1>1, <2>1, MemoryKept DEF IndInv, TypeOK, vars
<1>2. CASE Reconcile
  BY <1>2, GoneStep, ReconcileKeeps, StartStep, StartErrorStep, DecideStep DEF Reconcile
<1> QED BY <1>1, <1>2, OutsideStep, InformerStep, SyncerStep, RestartStep DEF Next

\* For any number of instances, credentials and changes the state has its shape.
THEOREM TypeCorrect == Spec => []TypeOK
<1>1. IndInv => TypeOK
  BY DEF IndInv
<1>2. IndInv /\ [Next]_vars => IndInv'
  BY NextInv
<1> QED BY <1>1, <1>2, InitInv, PTL DEF Spec

\* A syncer is registered exactly as long as it has not been told to stop, and a
\* cron runs exactly as long as it is registered: however objects, credentials
\* and restarts interleave, no syncer is stopped twice and none is forgotten.
THEOREM SyncersRegistered == Spec => []RegisteredWhileRunning
<1>1. IndInv => RegisteredWhileRunning
  BY DEF IndInv
<1>2. IndInv /\ [Next]_vars => IndInv'
  BY NextInv
<1> QED BY <1>1, <1>2, InitInv, PTL DEF Spec
=============================================================================
