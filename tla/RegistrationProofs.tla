------------------------- MODULE RegistrationProofs -------------------------
(***************************************************************************)
(* Proofs about Registration, for any set of schedules and any number of   *)
(* changes.                                                                *)
(***************************************************************************)
EXTENDS Registration, TLAPS

\* A schedule under the finalizer's protection that nobody has deleted.
Kept == [deleting |-> FALSE, finalizer |-> TRUE]
Protects(obj) == obj # Absent /\ obj.finalizer

\* What a cached copy says of the stored object.  A copy with the finalizer that
\* is not being deleted stands for an object that has it; and a deleted object
\* does not come back with it behind the cache's back.
CacheInv ==
    \A n \in Names :
        /\ seenSAS[n] = Kept => Protects(sas[n])
        /\ seenSAS[n] # Absent /\ seenSAS[n].deleting => sas[n] # Kept

\* What the copy in the reconciler's hands says of it.
HeldInv ==
    rec \in Held =>
        /\ rec.sas.deleting => sas[rec.name] # Kept /\ seenSAS[rec.name] # Kept
        /\ rec.pc = "finalize" =>
             /\ ~rec.sas.deleting
             /\ rec.fresh => rec.name \in freshSAS
        /\ rec.pc # "finalize" /\ ~rec.sas.deleting => Protects(sas[rec.name])
        /\ rec.pc \in {"unregister", "release"} => rec.sas.deleting
        /\ rec.pc = "register" => ~rec.sas.deleting

\* The inductive invariant.
IndInv == TypeOK /\ CacheInv /\ HeldInv

\* The idle reconciler holds no copy.
LEMMA IdleHoldsNothing == Idle \notin Held /\ Idle.pc = "idle" /\ \A r \in Held : r.pc # "idle"
BY DEF Idle, Held

\* At the start every copy is up to date, and what is registered is protected.
LEMMA InitInv == Init => IndInv
<1> SUFFICES ASSUME Init PROVE IndInv
  OBVIOUS
<1>1. AutoscalerTyped
  <2>1. freshSA \in BOOLEAN /\ queueSA \in BOOLEAN
    BY Zenon DEF Init
  <2> QED BY <2>1 DEF Init, AutoscalerTyped
<1>2. \A n \in Names : sas[n] \in {Kept, Absent}
  BY DEF Init, Kept
<1>3. Kept \in Objects /\ ~Kept.deleting /\ Kept.finalizer /\ Kept # Absent
  BY AbsentAssumption DEF Kept, Objects
<1>4. SchedulesTyped
  BY <1>2, <1>3 DEF Init, SchedulesTyped
<1>5. RecTyped
  BY IdleHoldsNothing DEF Init, RecTyped
<1>6. CacheInv
  BY <1>2, <1>3 DEF Init, CacheInv, Protects
<1>7. HeldInv
  BY IdleHoldsNothing DEF Init, HeldInv
<1> QED BY <1>1, <1>4, <1>5, <1>6, <1>7, BoundAssumption DEF Init, IndInv, TypeOK

\* A step that leaves the schedules and their copies alone, and the reconciler
\* where it is or idle.
LEMMA SchedulesKept ==
    ASSUME IndInv, UNCHANGED schedules, rec' = rec \/ rec' = Idle, queueSAS' \subseteq Names,
           AutoscalerTyped', crons' \in (SUBSET Names) \cup {Absent}, changes' \in 0 .. MaxChanges
    PROVE  IndInv'
<1> USE DEF IndInv, TypeOK
<1>1. SchedulesTyped' /\ CacheInv'
  BY DEF SchedulesTyped, CacheInv, schedules
<1>2. RecTyped' /\ HeldInv'
  <2>1. CASE rec' = rec
    BY <2>1 DEF RecTyped, HeldInv, schedules
  <2>2. CASE rec' = Idle
    BY <2>2, IdleHoldsNothing DEF RecTyped, HeldInv
  <2> QED BY <2>1, <2>2
<1> QED BY <1>1, <1>2

\* A write of the autoscaler.
LEMMA PutSATyped ==
    ASSUME AutoscalerTyped, NEW obj \in (SUBSET Names) \cup {Absent}, PutSA(obj), queueSA' = queueSA
    PROVE  AutoscalerTyped'
<1>1. freshSA' \in BOOLEAN /\ ~freshSA'
  BY Zenon DEF PutSA
<1> QED BY <1>1 DEF AutoscalerTyped, PutSA

\* The bound on changes.
LEMMA ChangesBounded ==
    ASSUME changes \in 0 .. MaxChanges, Outside
    PROVE  changes' \in 0 .. MaxChanges
BY BoundAssumption DEF Outside

-----------------------------------------------------------------------------
(* Steps                                                                   *)

\* The autoscaler comes, goes and is written by others.
LEMMA AutoscalerStep ==
    ASSUME IndInv, CreateAutoscaler \/ DeleteAutoscaler \/ OtherWrite
    PROVE  IndInv'
<1>1. PICK obj \in (SUBSET Names) \cup {Absent} : PutSA(obj)
  BY DEF CreateAutoscaler, DeleteAutoscaler, OtherWrite, IndInv, TypeOK, AutoscalerTyped
<1>2. /\ Outside /\ UNCHANGED <<queueSA, schedules, queueSAS, rec, crons>>
  BY DEF CreateAutoscaler, DeleteAutoscaler, OtherWrite
<1>3. AutoscalerTyped'
  BY <1>1, <1>2, PutSATyped DEF IndInv, TypeOK
<1>4. changes' \in 0 .. MaxChanges
  BY <1>2, ChangesBounded DEF IndInv, TypeOK
<1>5. queueSAS' \subseteq Names /\ crons' \in (SUBSET Names) \cup {Absent}
  BY <1>2 DEF IndInv, TypeOK, RecTyped
<1> QED BY <1>2, <1>3, <1>4, <1>5, SchedulesKept

\* Informers and the reconciler of the autoscaler.
LEMMA InformerStep ==
    ASSUME IndInv,
           \/ CacheSyncSA \/ ResyncSA \/ ReconcileCrons \/ ReconcileCronsError
           \/ \E n \in Names : ResyncSAS(n)
    PROVE  IndInv'
<1> USE DEF IndInv, TypeOK
<1>1. ASSUME UNCHANGED <<sa, seenSA, freshSA>>, queueSA' \in BOOLEAN PROVE AutoscalerTyped'
  BY <1>1 DEF AutoscalerTyped
<1>2. CASE CacheSyncSA
  <2>1. freshSA' \in BOOLEAN /\ queueSA' \in BOOLEAN
    BY <1>2, Zenon DEF CacheSyncSA
  <2>2. AutoscalerTyped'
    BY <1>2, <2>1 DEF CacheSyncSA, AutoscalerTyped
  <2> QED BY <1>2, <2>2, SchedulesKept DEF CacheSyncSA, RecTyped
<1>3. CASE ResyncSA
  <2>1. queueSA' \in BOOLEAN
    BY <1>3, Zenon DEF ResyncSA
  <2> QED BY <1>1, <1>3, <2>1, SchedulesKept DEF ResyncSA, RecTyped
<1>4. CASE ReconcileCrons
  <2>1. queueSA' \in BOOLEAN
    BY <1>4, Zenon DEF ReconcileCrons
  <2>2. crons' \in (SUBSET Names) \cup {Absent}
    BY <1>4 DEF ReconcileCrons, CronsFor, AutoscalerTyped
  <2> QED BY <1>1, <1>4, <2>1, <2>2, SchedulesKept DEF ReconcileCrons, RecTyped
<1>5. CASE ReconcileCronsError
  <2>1. crons' \in (SUBSET Names) \cup {Absent}
    BY <1>5 DEF ReconcileCronsError, AutoscalerTyped
  <2>2. AutoscalerTyped'
    BY <1>5 DEF ReconcileCronsError, AutoscalerTyped, autoscaler
  <2> QED BY <1>5, <2>1, <2>2, SchedulesKept DEF ReconcileCronsError, RecTyped
<1>6. ASSUME NEW n \in Names, ResyncSAS(n) PROVE IndInv'
  <2>1. AutoscalerTyped'
    BY <1>6 DEF ResyncSAS, AutoscalerTyped, autoscaler
  <2> QED BY <1>6, <2>1, SchedulesKept DEF ResyncSAS, RecTyped
<1> QED BY <1>2, <1>3, <1>4, <1>5, <1>6

\* The autoscaler, its cron and its queue are not touched.
LEMMA AutoscalerKept ==
    ASSUME AutoscalerTyped, UNCHANGED autoscaler
    PROVE  AutoscalerTyped'
BY DEF AutoscalerTyped, autoscaler

\* A write of a schedule from outside, which outdates the cached and the held
\* copy: an object without the finalizer may come or go, one with it is marked.
LEMMA OutsideScheduleStep ==
    ASSUME IndInv, NEW n \in Names, CreateSchedule(n) \/ DeleteSchedule(n)
    PROVE  IndInv'
<1> USE DEF IndInv, TypeOK
<1>1. PICK obj \in Objects \cup {Absent} :
        /\ PutSAS(n, obj)
        /\ obj # Kept
        /\ Protects(sas[n]) => Protects(obj)
        /\ obj # Absent /\ obj.deleting => obj.finalizer
  <2>1. CASE CreateSchedule(n)
    <3>1. [deleting |-> FALSE, finalizer |-> FALSE] \in Objects
      BY DEF Objects
    <3> QED BY <2>1, <3>1 DEF CreateSchedule, Protects, Kept
  <2>2. CASE DeleteSchedule(n)
    <3>1. sas[n] \in Objects
      BY <2>2 DEF DeleteSchedule, SchedulesTyped
    <3>2. CASE sas[n].finalizer
      <4>1. /\ [sas[n] EXCEPT !.deleting = TRUE] \in Objects
            /\ [sas[n] EXCEPT !.deleting = TRUE].deleting
            /\ [sas[n] EXCEPT !.deleting = TRUE].finalizer
        BY <3>1, <3>2 DEF Objects
      <4>2. [sas[n] EXCEPT !.deleting = TRUE] # Absent
        BY <4>1, AbsentAssumption DEF Objects
      <4> QED BY <2>2, <3>2, <4>1, <4>2 DEF DeleteSchedule, Protects, Kept
    <3>3. CASE ~sas[n].finalizer
      BY <2>2, <3>3, AbsentAssumption DEF DeleteSchedule, Protects, Kept
    <3> QED BY <3>2, <3>3
  <2> QED BY <2>1, <2>2
<1>2. Outdated(n) /\ Outside /\ UNCHANGED <<autoscaler, queueSAS, crons>>
  BY DEF CreateSchedule, DeleteSchedule
<1>3. /\ sas' = [sas EXCEPT ![n] = obj] /\ freshSAS' = freshSAS \ {n} /\ seenSAS' = seenSAS
      /\ sas'[n] = obj /\ \A m \in Names : m # n => sas'[m] = sas[m]
  BY <1>1 DEF PutSAS, SchedulesTyped
<1>4. SchedulesTyped'
  BY <1>1, <1>3 DEF SchedulesTyped
<1>5. CacheInv'
  BY <1>1, <1>3 DEF CacheInv
<1>6. RecTyped' /\ HeldInv'
  <2>1. CASE rec \in Held /\ rec.name = n
    <3>1. rec' = [rec EXCEPT !.fresh = FALSE]
      BY <1>2, <2>1, IdleHoldsNothing DEF Outdated
    <3>2. /\ rec' \in Held /\ ~rec'.fresh
          /\ rec'.pc = rec.pc /\ rec'.name = n /\ rec'.sas = rec.sas
      BY <2>1, <3>1 DEF Held
    <3>3. RecTyped'
      BY <1>2, <3>2 DEF RecTyped
    <3>4. HeldInv'
      BY <1>1, <1>3, <2>1, <3>2 DEF HeldInv
    <3> QED BY <3>3, <3>4
  <2>2. CASE rec \in Held /\ rec.name # n
    <3>1. rec' = rec /\ rec.name \in Names
      BY <1>2, <2>2 DEF Outdated, Held
    <3> QED BY <1>2, <1>3, <2>2, <3>1 DEF RecTyped, HeldInv
  <2>3. CASE rec = Idle
    <3>1. rec' = Idle
      BY <1>2, <2>3, IdleHoldsNothing DEF Outdated
    <3> QED BY <1>2, <3>1, IdleHoldsNothing DEF RecTyped, HeldInv
  <2> QED BY <2>1, <2>2, <2>3 DEF RecTyped
<1> QED BY <1>2, <1>4, <1>5, <1>6, AutoscalerKept, ChangesBounded

\* The informer of schedules: the copy becomes the stored object.
LEMMA CacheSyncStep ==
    ASSUME IndInv, NEW n \in Names, CacheSyncSAS(n)
    PROVE  IndInv'
<1> USE DEF IndInv, TypeOK, CacheSyncSAS
<1>1. queueSA' \in BOOLEAN
  BY Zenon
<1>2. AutoscalerTyped'
  BY <1>1 DEF AutoscalerTyped
<1>3. /\ seenSAS' = [seenSAS EXCEPT ![n] = sas[n]]
      /\ seenSAS'[n] = sas[n] /\ \A m \in Names : m # n => seenSAS'[m] = seenSAS[m]
  BY DEF SchedulesTyped
<1>4. SchedulesTyped'
  BY <1>3 DEF SchedulesTyped
<1>5. ~Kept.deleting /\ Kept.finalizer /\ Kept # Absent
  BY AbsentAssumption DEF Kept
<1>6. CacheInv'
  BY <1>3, <1>5 DEF CacheInv, Protects
<1>7. RecTyped'
  BY DEF RecTyped
<1>8. HeldInv'
  <2>1. CASE rec \in Held
    <3>1. rec.name \in Names
      BY <2>1 DEF Held
    <3> QED BY <1>3, <2>1, <3>1 DEF HeldInv
  <2> QED BY <2>1 DEF HeldInv
<1> QED BY <1>2, <1>4, <1>6, <1>7, <1>8

\* Reading a schedule through the cache.
LEMMA GetStep ==
    ASSUME IndInv, NEW n \in Names, ScheduleGet(n)
    PROVE  IndInv'
<1> USE DEF IndInv, TypeOK
<1>1. AutoscalerTyped' /\ SchedulesTyped' /\ CacheInv'
  BY DEF ScheduleGet, AutoscalerTyped, SchedulesTyped, CacheInv, autoscaler, schedules
<1>2. queueSAS' \subseteq Names
  BY DEF ScheduleGet, RecTyped
<1>3. CASE seenSAS[n] = Absent
  <2>1. rec' = Idle
    BY <1>3 DEF ScheduleGet
  <2> QED BY <1>1, <1>2, <2>1, IdleHoldsNothing DEF ScheduleGet, RecTyped, HeldInv
<1>4. CASE seenSAS[n] # Absent
  <2> DEFINE obj == seenSAS[n]
  <2>1. obj \in Objects /\ obj # Absent /\ obj.deleting \in BOOLEAN /\ obj.finalizer \in BOOLEAN
    BY <1>4 DEF SchedulesTyped, Objects
  <2>2. rec' = [pc |-> IF obj.deleting \/ obj.finalizer THEN "target" ELSE "finalize",
                name |-> n, sas |-> obj, fresh |-> n \in freshSAS]
    BY <1>4 DEF ScheduleGet
  <2>3. /\ rec' \in Held /\ rec'.name = n /\ rec'.sas = obj
        /\ rec'.fresh <=> n \in freshSAS
        /\ rec'.pc = IF obj.deleting \/ obj.finalizer THEN "target" ELSE "finalize"
    <3>1. PICK f \in BOOLEAN : f = (n \in freshSAS)
      <4>1. CASE n \in freshSAS
        <5>1. TRUE = (n \in freshSAS)
          BY <4>1, SMT
        <5> QED BY <5>1, Zenon
      <4>2. CASE n \notin freshSAS
        <5>1. FALSE = (n \in freshSAS)
          BY <4>2, SMT
        <5> QED BY <5>1, Zenon
      <4> QED BY <4>1, <4>2
    <3>2. PICK p \in {"target", "finalize"} :
            p = IF obj.deleting \/ obj.finalizer THEN "target" ELSE "finalize"
      BY Zenon
    <3>3. rec' = [pc |-> p, name |-> n, sas |-> obj, fresh |-> f]
      BY <2>2, <3>1, <3>2, Zenon
    <3>4. rec' \in Held /\ rec'.name = n /\ rec'.sas = obj /\ rec'.pc = p /\ rec'.fresh = f
      BY <2>1, <3>3 DEF Held
    <3>5. rec'.fresh <=> n \in freshSAS
      BY <3>1, <3>4, Zenon
    <3> QED BY <3>2, <3>4, <3>5
  <2>4. obj.deleting => obj # Kept /\ sas[n] # Kept
    BY <2>1 DEF CacheInv, Kept
  <2>5. ~obj.deleting /\ obj.finalizer => obj = Kept
    BY <2>1 DEF Kept, Objects
  <2>6. sas' = sas /\ seenSAS' = seenSAS /\ freshSAS' = freshSAS
    BY DEF ScheduleGet, schedules
  <2>7. n \in freshSAS => obj = sas[n]
    BY DEF SchedulesTyped
  <2>8. obj = Kept => Protects(sas[n])
    BY DEF CacheInv
  <2> HIDE DEF obj
  <2>9. RecTyped'
    BY <1>2, <2>3, <2>6, <2>7 DEF RecTyped
  <2>10. HeldInv'
    <3>1. obj = seenSAS[n]
      BY DEF obj
    <3> QED BY <2>3, <2>4, <2>5, <2>6, <2>8, <3>1 DEF HeldInv
  <2> QED BY <1>1, <2>9, <2>10 DEF ScheduleGet
<1> QED BY <1>3, <1>4

\* The steps of the reconciler that leave the stored schedules alone.
LEMMA ReconcilerStep ==
    ASSUME IndInv, ScheduleTarget \/ Unregister \/ Register \/ ScheduleError
    PROVE  IndInv'
<1> USE DEF IndInv, TypeOK
<1>1. rec \in Held /\ rec.name \in Names
  BY IdleHoldsNothing
     DEF RecTyped, Held, ScheduleTarget, Unregister, Register, ScheduleError, Idle
<1>2. UNCHANGED <<schedules, crons, changes>> /\ queueSAS' \subseteq Names
  BY <1>1 DEF ScheduleTarget, Unregister, Register, ScheduleError, RecTyped, Return, ReturnError
<1>3. AutoscalerTyped'
  <2>1. CASE ScheduleTarget \/ ScheduleError
    BY <2>1, AutoscalerKept DEF ScheduleTarget, ScheduleError
  <2>2. CASE Unregister
    BY <2>2, PutSATyped DEF Unregister, AutoscalerTyped
  <2>3. CASE Register
    <3>1. CASE findInArray(seenSA, rec.name)
      BY <2>3, <3>1 DEF Register, AutoscalerTyped
    <3>2. CASE ~findInArray(seenSA, rec.name)
      BY <1>1, <2>3, <3>2, PutSATyped DEF Register, AutoscalerTyped
    <3> QED BY <3>1, <3>2
  <2> QED BY <2>1, <2>2, <2>3
<1>4. SchedulesTyped' /\ CacheInv'
  BY <1>2 DEF SchedulesTyped, CacheInv, schedules
<1>5. CASE rec' = Idle
  BY <1>2, <1>3, <1>4, <1>5, IdleHoldsNothing DEF RecTyped, HeldInv
<1>6. CASE rec' # Idle
  <2>1. PICK pc \in {"unregister", "release", "register"} :
          /\ rec' = [rec EXCEPT !.pc = pc]
          /\ pc \in {"unregister", "release"} => rec.sas.deleting
          /\ pc = "register" => ~rec.sas.deleting
    BY <1>1, <1>6 DEF ScheduleTarget, Unregister, Register, ScheduleError, Return,
                      ReturnError, CleanUp, HeldInv
  <2>2. /\ rec' \in Held /\ rec'.pc = pc /\ rec'.name = rec.name
        /\ rec'.sas = rec.sas /\ rec'.fresh = rec.fresh
    BY <1>1, <2>1 DEF Held
  <2>3. rec.pc # "finalize"
    BY <1>6 DEF ScheduleTarget, Unregister, Register, ScheduleError, Return, ReturnError
  <2>4. RecTyped'
    BY <1>1, <1>2, <2>2 DEF RecTyped, schedules
  <2>5. HeldInv'
    BY <1>1, <1>2, <2>1, <2>2, <2>3 DEF HeldInv, schedules
  <2> QED BY <1>2, <1>3, <1>4, <2>4, <2>5
<1> QED BY <1>5, <1>6

\* Adding the finalizer: the held copy is the stored one and the cached one, so
\* none of the three is a schedule that is being deleted.
LEMMA AddFinalizerStep ==
    ASSUME IndInv, AddFinalizer
    PROVE  IndInv'
<1> USE DEF IndInv, TypeOK
<1> DEFINE n == rec.name
           obj == [rec.sas EXCEPT !.finalizer = TRUE]
<1>1. rec \in Held /\ n \in Names /\ rec.sas \in Objects
  BY IdleHoldsNothing DEF RecTyped, Held, AddFinalizer, Idle
<1>2. /\ rec.sas = sas[n] /\ seenSAS[n] = sas[n] /\ ~rec.sas.deleting
  BY <1>1 DEF RecTyped, HeldInv, AddFinalizer, SchedulesTyped
<1>3. obj \in Objects /\ obj.finalizer /\ ~obj.deleting /\ obj # Absent
  BY <1>1, <1>2, AbsentAssumption DEF Objects
<1>4. ~seenSAS[n].deleting
  BY <1>2
<1>5. /\ sas' = [sas EXCEPT ![n] = obj] /\ freshSAS' = freshSAS \ {n} /\ seenSAS' = seenSAS
      /\ rec' = [rec EXCEPT !.pc = "target", !.sas = obj]
      /\ UNCHANGED <<autoscaler, queueSAS, crons, changes>>
  BY DEF AddFinalizer, PutSAS
<1>6. /\ rec' \in Held /\ rec'.pc = "target" /\ rec'.name = n /\ rec'.sas = obj
  BY <1>1, <1>3, <1>5 DEF Held
<1> HIDE DEF n, obj
<1>7. sas'[n] = obj /\ \A m \in Names : m # n => sas'[m] = sas[m]
  BY <1>1, <1>5 DEF SchedulesTyped
<1>8. SchedulesTyped'
  BY <1>1, <1>3, <1>5, <1>7 DEF SchedulesTyped
<1>9. CacheInv'
  BY <1>3, <1>4, <1>5, <1>7 DEF CacheInv, Protects
<1>10. RecTyped'
  BY <1>5, <1>6, <1>7 DEF RecTyped
<1>11. HeldInv'
  BY <1>3, <1>6, <1>7 DEF HeldInv, Protects
<1> QED BY <1>5, <1>8, <1>9, <1>10, <1>11, AutoscalerKept

\* Removing the finalizer: the schedule was being deleted, so no copy of it says
\* that it is kept.
LEMMA RemoveFinalizerStep ==
    ASSUME IndInv, RemoveFinalizer
    PROVE  IndInv'
<1> USE DEF IndInv, TypeOK
<1> DEFINE n == rec.name
<1>1. rec \in Held /\ n \in Names
  BY IdleHoldsNothing DEF RecTyped, Held, RemoveFinalizer, Idle
<1>2. seenSAS[n] # Kept
  BY <1>1 DEF HeldInv, RemoveFinalizer
<1>3. /\ sas' = [sas EXCEPT ![n] = Absent] /\ freshSAS' = freshSAS \ {n} /\ seenSAS' = seenSAS
      /\ rec' = Idle /\ UNCHANGED <<autoscaler, queueSAS, crons, changes>>
  BY DEF RemoveFinalizer, PutSAS, Return
<1> HIDE DEF n
<1>4. sas'[n] = Absent /\ \A m \in Names : m # n => sas'[m] = sas[m]
  BY <1>1, <1>3 DEF SchedulesTyped
<1>5. Absent # Kept
  BY AbsentAssumption DEF Kept
<1>6. SchedulesTyped'
  BY <1>1, <1>3, <1>4 DEF SchedulesTyped
<1>7. CacheInv'
  BY <1>2, <1>3, <1>4, <1>5 DEF CacheInv
<1>8. RecTyped' /\ HeldInv'
  BY <1>3, IdleHoldsNothing DEF RecTyped, HeldInv
<1> QED BY <1>3, <1>6, <1>7, <1>8, AutoscalerKept

\* A restart reads everything anew.
LEMMA RestartStep ==
    ASSUME IndInv, Restart
    PROVE  IndInv'
<1> USE DEF IndInv, TypeOK
<1>1. queueSA' \in BOOLEAN /\ freshSA' \in BOOLEAN
  BY Zenon DEF Restart
<1>2. AutoscalerTyped'
  BY <1>1 DEF AutoscalerTyped, Restart
<1>3. SchedulesTyped'
  BY DEF SchedulesTyped, Restart
<1>4. ~Kept.deleting /\ Kept.finalizer /\ Kept # Absent
  BY AbsentAssumption DEF Kept
<1>5. CacheInv'
  BY <1>4 DEF CacheInv, Protects, Restart
<1>6. RecTyped' /\ HeldInv'
  BY IdleHoldsNothing DEF RecTyped, HeldInv, Restart
<1> QED BY <1>2, <1>3, <1>5, <1>6, ChangesBounded DEF Restart

-----------------------------------------------------------------------------

\* Every step preserves the invariant.
LEMMA NextInv == IndInv /\ [Next]_vars => IndInv'
<1> SUFFICES ASSUME IndInv, [Next]_vars PROVE IndInv'
  OBVIOUS
<1>1. CASE CreateAutoscaler \/ DeleteAutoscaler \/ OtherWrite
  BY <1>1, AutoscalerStep
<1>2. CASE \/ CacheSyncSA \/ ResyncSA \/ ReconcileCrons \/ ReconcileCronsError
           \/ \E n \in Names : ResyncSAS(n)
  BY <1>2, InformerStep
<1>3. CASE \E n \in Names : CreateSchedule(n) \/ DeleteSchedule(n)
  BY <1>3, OutsideScheduleStep
<1>4. CASE \E n \in Names : CacheSyncSAS(n)
  BY <1>4, CacheSyncStep
<1>5. CASE \E n \in Names : ScheduleGet(n)
  BY <1>5, GetStep
<1>6. CASE ScheduleTarget \/ Unregister \/ Register \/ ScheduleError
  BY <1>6, ReconcilerStep
<1>7. CASE AddFinalizer
  BY <1>7, AddFinalizerStep
<1>8. CASE RemoveFinalizer
  BY <1>8, RemoveFinalizerStep
<1>9. CASE Restart
  BY <1>9, RestartStep
<1>10. CASE UNCHANGED vars
  BY <1>10 DEF vars, autoscaler, schedules, IndInv, TypeOK, AutoscalerTyped, SchedulesTyped,
               RecTyped, CacheInv, HeldInv
<1> QED BY <1>1, <1>2, <1>3, <1>4, <1>5, <1>6, <1>7, <1>8, <1>9, <1>10
        DEF Next, ReconcileSchedule

\* The list of an autoscaler that stays changes in two steps only, and each
\* changes it by the name it is working on, from the stored list.
LEMMA ListChanges ==
    ASSUME IndInv, [Next]_vars, sa # Absent, sa' # Absent, sa' # sa
    PROVE  /\ rec \in Held
           /\ \/ Unregister /\ sa' = sa \ {rec.name}
              \/ Register /\ sa' = sa \cup {rec.name}
<1>1. Unregister \/ Register
  BY DEF Next, ReconcileSchedule, CreateAutoscaler, DeleteAutoscaler, OtherWrite, Restart, PutSA,
         CacheSyncSA, ResyncSA, CreateSchedule, DeleteSchedule, CacheSyncSAS, ResyncSAS,
         ScheduleGet, AddFinalizer, ScheduleTarget, RemoveFinalizer, ScheduleError,
         ReconcileCrons, ReconcileCronsError, vars, autoscaler
<1>2. rec \in Held
  BY <1>1, IdleHoldsNothing DEF IndInv, TypeOK, RecTyped, Unregister, Register, Idle
<1>3. CASE Unregister
  BY <1>2, <1>3 DEF Unregister, PutSA, IndInv, TypeOK, AutoscalerTyped
<1>4. CASE Register
  BY <1>2, <1>4 DEF Register, PutSA, IndInv, TypeOK, AutoscalerTyped
<1> QED BY <1>1, <1>3, <1>4

\* The shapes, the coherence of copies that carry the stored version, and the
\* finalizer of every schedule that is being deleted, hold in every state.
THEOREM TypeCorrect == Spec => []TypeOK
<1>1. IndInv => TypeOK
  BY DEF IndInv
<1> QED BY InitInv, NextInv, <1>1, PTL DEF Spec

\* Reconcile registers a name only while the finalizer is on the stored schedule,
\* for any lag of the informers and any deletions and restarts in between.
THEOREM RegistrationProtected == Spec => RegisteredProtected
<1>1. IndInv /\ [Next]_vars => [Protected]_vars
  <2> SUFFICES ASSUME IndInv, [Next]_vars,
                      NEW n \in Names, sa # Absent, sa' # Absent, n \in sa' \ sa
               PROVE  sas[n] # Absent /\ sas[n].finalizer
    BY DEF Protected
  <2>1. rec \in Held /\ Register /\ sa' = sa \cup {rec.name}
    BY ListChanges
  <2>2. n = rec.name /\ rec.pc = "register"
    BY <2>1 DEF Register
  <2> QED BY <2>1, <2>2 DEF IndInv, HeldInv, Protects
<1> QED BY InitInv, NextInv, <1>1, PTL DEF Spec, RegisteredProtected

\* Concurrent registrations do not undo each other: a write of the whole list
\* changes it by the one name that is being reconciled.
THEOREM ListWritesIndependent == Spec => RegistrationsIndependent
<1>1. IndInv /\ [Next]_vars => [OthersKept]_vars
  <2> SUFFICES ASSUME IndInv, [Next]_vars, NEW n \in Names, sa # Absent, sa' # Absent,
                      ~(n \in sa <=> n \in sa')
               PROVE  rec.pc # "idle" /\ rec.name = n
    BY DEF OthersKept
  <2>1. rec \in Held /\ (sa' = sa \ {rec.name} \/ sa' = sa \cup {rec.name})
    BY ListChanges
  <2> QED BY <2>1, IdleHoldsNothing
<1> QED BY InitInv, NextInv, <1>1, PTL DEF Spec, RegistrationsIndependent
=============================================================================
