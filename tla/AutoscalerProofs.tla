-------------------------- MODULE AutoscalerProofs --------------------------
(***************************************************************************)
(* Proofs about Autoscaler, for every set of configurations, schedules,    *)
(* readings and bounds: the inductive invariant, what follows from it, and *)
(* that Autoscaler implements AtomicAutoscaler.                            *)
(***************************************************************************)
EXTENDS Autoscaler, ResourceProofs

-----------------------------------------------------------------------------
(* The inductive invariant                                                 *)

\* The invariant holds of a new object and a controller that just started.
LEMMA InitIndInv == Init => IndInv
<1> SUFFICES ASSUME Init PROVE IndInv
  OBVIOUS
<1>1. NewStatus \in Statuses /\ StatusSound(NewStatus)
  <2>1. NotActive \in Entries
    BY DEF NotActive, Entries, Amounts, ZeroTime
  <2> QED BY <2>1 DEF NewStatus, Statuses, StatusSound, CPURead, ZeroTime
<1>2. StoredOK /\ Held(cache)
  BY <1>1 DEF Init, StoredOK, Held, Objects, Copy
<1>3. InstanceOK
  BY InitialAssumption DEF Init, InstanceOK, ZeroTime
<1>4. RecOK /\ SynOK
  BY DEF Init, RecOK, SynOK
<1>5. ProcessOK
  <2>1. syncers \in BOOLEAN
    BY Zenon DEF Init
  <2>2. crons \in SUBSET SUBSET Names /\ running \in SUBSET Names
    BY DEF Init
  <2>3. now \in Nat \ {0}
    BY DEF Init
  <2> QED BY <2>1, <2>2, <2>3 DEF ProcessOK
<1> QED BY <1>2, <1>3, <1>4, <1>5 DEF IndInv

\* A write makes every copy an older one.
LEMMA StoreKeepsCopies ==
    ASSUME StoredOK, NEW spec \in Specs, NEW status \in Statuses, StatusSound(status),
           Store(spec, status)
    PROVE  /\ StoredOK'
           /\ \A obj : Held(obj) => Held(obj)'
<1>1. sa' = [rv |-> sa.rv + 1, spec |-> spec, status |-> status]
  BY DEF Store, Written
<1>2. StoredOK'
  BY <1>1 DEF StoredOK, Objects
<1>3. ASSUME NEW obj, Held(obj) PROVE Held(obj)'
  BY <1>1, <1>3 DEF StoredOK, Held, Copy, Objects
<1> QED BY <1>2, <1>3

\* A step that leaves the reconciler and the syncer where they are keeps what is
\* known of them, as long as the copies stay copies and time does not go back.
LEMMA ProcessesKept ==
    ASSUME \A obj : Held(obj) => Held(obj)', ProcessOK, now' \in Nat, now' >= now
    PROVE  /\ RecOK /\ UNCHANGED rec => RecOK'
           /\ SynOK /\ UNCHANGED syn => SynOK'
<1>1. ASSUME RecOK, UNCHANGED rec PROVE RecOK'
  <2>1. CASE rec = RecIdle
    BY <1>1, <2>1 DEF RecOK, RecIdle
  <2>2. CASE rec # RecIdle
    <3>1. /\ rec \in [pc : {"update", "write"}, base : Objects, now : Nat]
          /\ Held(rec.base)
          /\ 1 <= rec.now /\ rec.now <= now
          /\ Decidable(rec.base.status)
          /\ statusChanged(rec.base.spec, rec.base.status, rec.now)
          /\ rec.pc = "update" =>
               needUpdateProcessingUnits(rec.base.spec, rec.base.status, rec.now)
      BY <1>1, <2>2 DEF RecOK
    <3>2. Held(rec.base)'
      BY <1>1, <3>1
    <3>3. rec.now <= now'
      BY <3>1 DEF ProcessOK
    <3> QED BY <1>1, <3>1, <3>2, <3>3 DEF RecOK
  <2> QED BY <2>1, <2>2
<1>2. ASSUME SynOK, UNCHANGED syn PROVE SynOK'
  BY <1>2 DEF SynOK, SynIdle, ReadingSound
<1> QED BY <1>1, <1>2

\* A write of a sound status, by any of the writers, keeps the invariant.
LEMMA WriterKeepsIndInv ==
    ASSUME IndInv, NEW spec \in Specs, NEW status \in Statuses, StatusSound(status),
           Store(spec, status),
           UNCHANGED <<cache, instance, syncers, crons, now>>, running' \subseteq running,
           UNCHANGED rec \/ rec' = RecIdle,
           UNCHANGED syn \/ syn' = SynIdle
    PROVE  IndInv'
<1>1. StoredOK' /\ \A obj : Held(obj) => Held(obj)'
  BY StoreKeepsCopies DEF IndInv
<1>2. Held(cache)'
  BY <1>1 DEF IndInv
<1>3. ProcessOK /\ now' \in Nat /\ now' >= now
  BY DEF IndInv, ProcessOK
<1>4. RecOK'
  BY <1>1, <1>3, ProcessesKept DEF IndInv, RecOK, RecIdle
<1>5. SynOK'
  BY <1>1, <1>3, ProcessesKept DEF IndInv, SynOK, SynIdle
<1> QED BY <1>1, <1>2, <1>4, <1>5 DEF IndInv, InstanceOK, ProcessOK

\* What the reconciler holds, once it has decided.
LEMMA RecFacts ==
    ASSUME IndInv, rec.pc \in {"update", "write"}
    PROVE  /\ rec.base \in Objects /\ rec.base.spec \in Specs
           /\ rec.base.status \in Statuses /\ StatusSound(rec.base.status)
           /\ Copy(rec.base) /\ Decidable(rec.base.status)
           /\ rec.now \in Nat /\ rec.now \in 1 .. now
           /\ statusChanged(rec.base.spec, rec.base.status, rec.now)
           /\ rec.pc = "update" =>
                needUpdateProcessingUnits(rec.base.spec, rec.base.status, rec.now)
<1>1. rec # RecIdle
  BY DEF RecIdle
<1>2. /\ rec \in [pc : {"update", "write"}, base : Objects, now : Nat]
      /\ Held(rec.base)
      /\ 1 <= rec.now /\ rec.now <= now
      /\ Decidable(rec.base.status)
      /\ statusChanged(rec.base.spec, rec.base.status, rec.now)
      /\ rec.pc = "update" =>
           needUpdateProcessingUnits(rec.base.spec, rec.base.status, rec.now)
  BY <1>1 DEF IndInv, RecOK
<1>3. rec.now \in Nat /\ rec.base \in Objects
  BY <1>2
<1> QED BY <1>2, <1>3 DEF Held, Objects, IndInv, ProcessOK

\* What the syncer holds when it is about to write.
LEMMA SynFacts ==
    ASSUME IndInv, syn.pc = "write"
    PROVE  /\ syn.base \in Objects /\ syn.base.spec \in Specs
           /\ syn.base.status \in Statuses /\ Copy(syn.base)
           /\ ReadingSound(syn.reading) /\ syn.tries \in Nat
<1>1. /\ syn \in [pc : {"write"}, base : Objects, reading : Readings, tries : Nat]
      /\ ReadingSound(syn.reading)
      /\ Held(syn.base)
  BY DEF IndInv, SynOK, SynIdle
<1> QED BY <1>1 DEF Held, Objects

\* What is known of the stored and of the cached object.
LEMMA StoredFacts ==
    ASSUME IndInv
    PROVE  /\ sa.spec \in Specs /\ sa.status \in Statuses /\ StatusSound(sa.status)
           /\ cache.spec \in Specs /\ cache.status \in Statuses
           /\ StatusSound(cache.status) /\ Held(cache)
           /\ now \in Nat
BY DEF IndInv, StoredOK, Held, Objects, ProcessOK

\* A job of the cron activates one of the schedules, or the zero one.
LEMMA JobActivates ==
    ASSUME IndInv, JobRun
    PROVE  \E n \in Names, sas \in {Schedules[m] : m \in Names} \cup {NoSchedule} :
             Store(sa.spec, Activated(sa.status, n, sas, now))
<1>1. running \subseteq Names
  BY DEF IndInv, ProcessOK
<1> QED BY <1>1 DEF JobRun

-----------------------------------------------------------------------------
(* The steps of each actor keep it                                         *)

\* The reconciler decides on the cached object and writes what it decided.
LEMMA ReconcilerKeepsIndInv ==
    ASSUME IndInv, Reconciler PROVE IndInv'
<1> USE DEF IndInv
<1>1. CASE ReconcileStartSyncer
  BY <1>1 DEF ReconcileStartSyncer, StoredOK, InstanceOK, RecOK, SynOK, ProcessOK,
              Held, Copy, ReadingSound
<1>2. CASE ReconcileDecide
  <2>1. UNCHANGED <<sa, cache, instance, syn, syncers, running, now>>
    BY <1>2 DEF ReconcileDecide
  <2>2. StoredOK' /\ Held(cache)' /\ InstanceOK' /\ SynOK'
    BY <2>1 DEF StoredOK, Held, Copy, InstanceOK, SynOK, ReadingSound
  <2>3. ProcessOK'
    <3>1. cache.status.schedules \subseteq Names
      BY DEF Held, Objects, Statuses
    <3>2. crons' \in SUBSET SUBSET Names
      BY <1>2, <3>1 DEF ReconcileDecide, CronsFor
    <3> QED BY <2>1, <3>2 DEF ProcessOK
  <2>4. RecOK'
    <3>1. CASE UNCHANGED rec
      BY <2>1, <3>1 DEF RecOK, Held, Copy
    <3>2. CASE ~UNCHANGED rec
      <4>1. PICK pc \in {"update", "write"} :
              /\ rec' = [pc |-> pc, base |-> cache, now |-> now]
              /\ Decidable(cache.status)
              /\ statusChanged(cache.spec, cache.status, now)
              /\ pc = "update" => needUpdateProcessingUnits(cache.spec, cache.status, now)
        BY <1>2, <3>2 DEF ReconcileDecide, statusChanged
      <4>2. now \in Nat /\ now >= 1 /\ cache \in Objects
        BY DEF ProcessOK, Held
      <4> QED BY <2>1, <2>2, <4>1, <4>2 DEF RecOK
    <3> QED BY <3>1, <3>2
  <2> QED BY <2>2, <2>3, <2>4
<1>3. CASE ReconcileUpdateInstance \/ ReconcileUpdateError
  <2>1. UNCHANGED <<sa, cache, syn, syncers, crons, running, now>> /\ rec.pc = "update"
    BY <1>3 DEF ReconcileUpdateInstance, ReconcileUpdateError
  <2>2. StoredOK' /\ Held(cache)' /\ SynOK' /\ ProcessOK'
    BY <2>1 DEF StoredOK, Held, Copy, SynOK, ReadingSound, ProcessOK
  <2>3. RecDesired \in Nat /\ ValidPU(RecDesired)
    BY <2>1, RecFacts, DesiredPUValid DEF RecDesired
  <2>4. InstanceOK'
    <3>1. UNCHANGED instance
            \/ instance' = [instance EXCEPT !.pu = RecDesired, !.changedAt = now]
      BY <1>3 DEF ReconcileUpdateInstance, ReconcileUpdateError, Resize
    <3> QED BY <2>3, <3>1 DEF InstanceOK, ProcessOK
  <2>5. RecOK'
    <3>1. rec' = RecIdle \/ rec' = [rec EXCEPT !.pc = "write"]
      BY <1>3 DEF ReconcileUpdateInstance, ReconcileUpdateError
    <3>2. rec # RecIdle
      BY <2>1 DEF RecIdle
    <3> QED BY <2>1, <3>1, <3>2 DEF RecOK, Held, Copy
  <2> QED BY <2>2, <2>4, <2>5
<1>4. CASE ReconcileWrite
  <2>1. /\ rec.base.spec \in Specs /\ rec.base.status \in Statuses /\ rec.now \in Nat
        /\ Decidable(rec.base.status) /\ StatusSound(rec.base.status)
    BY <1>4, RecFacts DEF ReconcileWrite
  <2>2. /\ Planned(rec.base.spec, rec.base.status, rec.now) \in Statuses
        /\ StatusSound(Planned(rec.base.spec, rec.base.status, rec.now))
    BY <2>1, PlannedTyped
  <2> QED BY <1>4, <2>1, <2>2, WriterKeepsIndInv DEF ReconcileWrite
<1>5. CASE ReconcileWriteError
  BY <1>5 DEF ReconcileWriteError, StoredOK, InstanceOK, RecOK, SynOK, ProcessOK,
              Held, Copy, ReadingSound
<1>6. CASE ReconcileJobError
  <2>1. UNCHANGED <<sa, cache, instance, rec, syn, syncers, running, now>>
    BY <1>6 DEF ReconcileJobError
  <2>2. cache.status.schedules \subseteq Names
    BY DEF Held, Objects, Statuses
  <2>3. PICK added \in SUBSET cache.status.schedules : crons' = {(UNION crons) \cup added}
    BY <1>6 DEF ReconcileJobError
  <2>4. (UNION crons) \cup added \subseteq Names
    BY <2>2 DEF ProcessOK
  <2>5. crons' \in SUBSET SUBSET Names
    BY <2>3, <2>4
  <2> QED BY <2>1, <2>5 DEF StoredOK, InstanceOK, RecOK, SynOK, ProcessOK, Held, Copy,
                            ReadingSound
<1> QED BY <1>1, <1>2, <1>3, <1>4, <1>5, <1>6 DEF Reconciler

\* The syncer reads a valid size and every metric it records, and writes both.
LEMMA SyncerKeepsIndInv ==
    ASSUME IndInv, Syncer PROVE IndInv'
<1> USE DEF IndInv
<1>1. CASE SyncWrite
  <2>1. /\ syn.base.spec \in Specs /\ syn.base.status \in Statuses
        /\ syn.reading \in Readings /\ ValidPU(syn.reading.pu)
        /\ CPURead(syn.reading.cpu, syn.reading.flags)
    BY <1>1, SynFacts DEF SyncWrite, ReadingSound
  <2>2. /\ Measured(syn.base.status, syn.reading) \in Statuses
        /\ StatusSound(Measured(syn.base.status, syn.reading))
    BY <2>1, MeasuredTyped
  <2> QED BY <1>1, <2>1, <2>2, WriterKeepsIndInv DEF SyncWrite
<1>2. CASE SyncStart \/ SyncFetch \/ SyncGet \/ SyncConflict \/ SyncError
  <2>1. UNCHANGED <<sa, cache, instance, rec, syncers, crons, running, now>>
    BY <1>2 DEF SyncStart, SyncFetch, SyncGet, SyncConflict, SyncError
  <2>2. StoredOK' /\ Held(cache)' /\ InstanceOK' /\ RecOK' /\ ProcessOK'
    BY <2>1 DEF StoredOK, Held, Copy, InstanceOK, RecOK, ProcessOK
  <2>3. CASE SyncStart
    <3>1. DOMAIN cache.spec.target \subseteq CPUMetrics
      BY StoredFacts, SpecsAssumption DEF SpecTyped
    <3> QED BY <2>2, <2>3, <3>1 DEF SyncStart, SynOK
  <2>4. CASE SyncFetch
    <3>1. syn \in [pc : {"fetch"}, flags : SUBSET CPUMetrics]
      BY <2>4 DEF SyncFetch, SynOK, SynIdle
    <3>2. PICK cpu \in [syn.flags -> CPUReadings] :
            syn' = [pc |-> "get", tries |-> 0,
                    reading |-> [pu |-> instance.pu, ready |-> instance.ready,
                                 flags |-> syn.flags,
                                 cpu |-> [m \in CPUMetrics |->
                                            IF m \in syn.flags THEN cpu[m] ELSE 0]]]
      BY <2>4 DEF SyncFetch
    <3> DEFINE load == [m \in CPUMetrics |-> IF m \in syn.flags THEN cpu[m] ELSE 0]
               reading == [pu |-> instance.pu, ready |-> instance.ready,
                           flags |-> syn.flags, cpu |-> load]
    <3>3. load \in [CPUMetrics -> Nat] /\ CPURead(load, syn.flags)
      BY ReadingsAssumption DEF CPURead
    <3> HIDE DEF load
    <3>4. ReadingSound(reading)
      BY <3>1, <3>3 DEF ReadingSound, Readings, InstanceOK
    <3> HIDE DEF reading
    <3>5. syn' = [pc |-> "get", tries |-> 0, reading |-> reading]
      BY <3>2 DEF reading, load
    <3>6. SynOK'
      BY <3>4, <3>5 DEF SynOK, ReadingSound
    <3> QED BY <2>2, <3>6
  <2>5. CASE SyncGet
    <3>1. syn \in [pc : {"get"}, reading : Readings, tries : Nat] /\ ReadingSound(syn.reading)
      BY <2>5 DEF SyncGet, SynOK, SynIdle
    <3>2. syn' = [pc |-> "write", base |-> cache, reading |-> syn.reading, tries |-> syn.tries]
      BY <2>5 DEF SyncGet
    <3>3. cache \in Objects /\ Held(cache)'
      BY <2>2 DEF Held
    <3> QED BY <2>1, <2>2, <3>1, <3>2, <3>3 DEF SynOK, ReadingSound
  <2>6. CASE SyncConflict
    <3>1. /\ syn.tries \in Nat /\ ReadingSound(syn.reading)
          /\ syn.reading \in Readings
      BY <2>6, SynFacts DEF SyncConflict, ReadingSound
    <3>2. \/ syn' = SynIdle
          \/ syn' = [pc |-> "get", reading |-> syn.reading, tries |-> syn.tries + 1]
      BY <2>6 DEF SyncConflict
    <3> QED BY <2>2, <3>1, <3>2 DEF SynOK, ReadingSound
  <2>7. CASE SyncError
    BY <2>2, <2>7 DEF SyncError, SynOK, SynIdle
  <2> QED BY <1>2, <2>3, <2>4, <2>5, <2>6, <2>7
<1> QED BY <1>1, <1>2 DEF Syncer

\* The writers of the schedule lists build on the stored status.
LEMMA SchedulesKeepIndInv ==
    ASSUME IndInv, ScheduleWriters PROVE IndInv'
<1>1. CASE JobStart \/ JobError
  <2>1. UNCHANGED <<sa, cache, instance, rec, syn, syncers, crons, now>>
    BY <1>1 DEF JobStart, JobError
  <2>2. running' \in SUBSET Names
    BY <1>1 DEF JobStart, JobError, IndInv, ProcessOK
  <2> QED BY <2>1, <2>2 DEF IndInv, StoredOK, InstanceOK, RecOK, SynOK, ProcessOK, Held, Copy,
                            ReadingSound
<1> DEFINE Writers == JobRun \/ SchedulerUpdate \/ RegisterSchedule \/ UnregisterSchedule
<1>2. ASSUME Writers
      PROVE  /\ UNCHANGED <<cache, instance, rec, syn, syncers, crons, now>>
             /\ running' \subseteq running
  BY <1>2 DEF JobRun, SchedulerUpdate, RegisterSchedule, UnregisterSchedule
<1>3. ASSUME Writers PROVE \E s \in Statuses : StatusSound(s) /\ Store(sa.spec, s)
  <2>1. CASE JobRun
    BY <2>1, JobActivates, ActivatedTyped, StoredFacts
  <2>2. CASE SchedulerUpdate
    BY <2>2, ExpiredTyped, StoredFacts DEF SchedulerUpdate
  <2>3. CASE RegisterSchedule
    BY <2>3, RegisteredTyped, StoredFacts DEF RegisterSchedule
  <2>4. CASE UnregisterSchedule
    <3>1. sa.status.schedules \subseteq Names
      BY StoredFacts DEF Statuses
    <3> QED BY <2>4, <3>1, RegisteredTyped, StoredFacts DEF UnregisterSchedule
  <2> QED BY <1>3, <2>1, <2>2, <2>3, <2>4
<1>4. CASE Writers
  BY <1>2, <1>3, <1>4, WriterKeepsIndInv, StoredFacts
<1> QED BY <1>1, <1>4 DEF ScheduleWriters

\* Edits, cache updates, restarts and the clock.
LEMMA EnvironmentKeepsIndInv ==
    ASSUME IndInv, Environment PROVE IndInv'
<1>1. CASE EditSpec
  <2>1. PICK s \in Specs : Store(s, sa.status)
    BY <1>1 DEF EditSpec
  <2> QED BY <1>1, <2>1, WriterKeepsIndInv, StoredFacts DEF EditSpec
<1>2. CASE CacheSync \/ Restart
  <2>1. sa' = sa /\ cache' = sa /\ instance' = instance /\ now' = now
    BY <1>2 DEF CacheSync, Restart
  <2>2. StoredOK' /\ Held(cache)' /\ InstanceOK'
    BY <2>1 DEF IndInv, StoredOK, Held, Copy, Objects, InstanceOK
  <2>3. CASE CacheSync
    BY <2>1, <2>2, <2>3 DEF CacheSync, IndInv, RecOK, SynOK, ProcessOK, Held, Copy, ReadingSound
  <2>4. CASE Restart
    <3>1. RecOK' /\ SynOK'
      BY <2>4 DEF Restart, RecOK, SynOK, RecIdle, SynIdle
    <3>2. syncers' \in BOOLEAN
      BY <2>4, Zenon DEF Restart
    <3>3. /\ crons' \in SUBSET SUBSET Names /\ running' \in SUBSET Names
          /\ now' \in Nat \ {0}
      BY <2>4 DEF Restart, IndInv, ProcessOK
    <3> QED BY <2>2, <3>1, <3>2, <3>3 DEF IndInv, ProcessOK
  <2> QED BY <1>2, <2>3, <2>4
<1>3. CASE InstanceReady
  <2>1. InstanceOK'
    BY <1>3 DEF InstanceReady, IndInv, InstanceOK
  <2> QED BY <1>3, <2>1 DEF InstanceReady, IndInv, StoredOK, RecOK, SynOK, ProcessOK, Held,
                            Copy, ReadingSound
<1>4. CASE Tick
  <2>1. ProcessOK /\ ProcessOK' /\ now' \in Nat /\ now' >= now
    BY <1>4 DEF Tick, IndInv, ProcessOK
  <2>2. \A obj : Held(obj) => Held(obj)'
    BY <1>4 DEF Tick, Held, Copy
  <2>3. RecOK' /\ SynOK'
    BY <1>4, <2>1, <2>2, ProcessesKept DEF Tick, IndInv
  <2> QED BY <1>4, <2>1, <2>2, <2>3 DEF Tick, IndInv, StoredOK, InstanceOK
<1> QED BY <1>1, <1>2, <1>3, <1>4 DEF Environment

\* IndInv is inductive.
LEMMA NextIndInv == IndInv /\ [Next]_vars => IndInv'
<1> SUFFICES ASSUME IndInv, [Next]_vars PROVE IndInv'
  OBVIOUS
<1>1. CASE Next
  BY <1>1, ReconcilerKeepsIndInv, SyncerKeepsIndInv, SchedulesKeepIndInv,
     EnvironmentKeepsIndInv DEF Next
<1>2. CASE UNCHANGED vars
  BY <1>2 DEF vars, IndInv, StoredOK, InstanceOK, RecOK, SynOK, ProcessOK, Held, Copy,
              ReadingSound
<1> QED BY <1>1, <1>2

\* Whatever the interleaving of the reconciler, the syncer, the schedule
\* writers, edits, restarts and failed calls, what each of them holds is sound.
THEOREM Invariance == Spec => []IndInv
BY InitIndInv, NextIndInv, PTL DEF Spec

-----------------------------------------------------------------------------
(* Invariants that follow                                                  *)

\* The variables keep the shapes the code gives them.
THEOREM TypeCorrect == Spec => []TypeOK
<1>1. IndInv => TypeOK
  BY DEF IndInv, TypeOK, StoredOK, Held, InstanceOK, RecOK, SynOK, ProcessOK
<1> QED BY <1>1, Invariance, PTL

\* No copy is ahead of the stored object or differs from it at its version, so
\* a write that passes the version check is based on the stored content.
THEOREM CopiesCoherence == Spec => []CopiesCoherent
<1>1. IndInv => CopiesCoherent
  <2> SUFFICES ASSUME IndInv PROVE CopiesCoherent
    OBVIOUS
  <2>1. Copy(cache)
    BY DEF IndInv, Held
  <2>2. rec.pc # "idle" => Copy(rec.base)
    BY DEF IndInv, RecOK, RecIdle, Held
  <2>3. syn.pc = "write" => Copy(syn.base)
    BY SynFacts
  <2> QED BY <2>1, <2>2, <2>3 DEF CopiesCoherent
<1> QED BY <1>1, Invariance, PTL

\* UpdateInstance is never called with a size that Cloud Spanner rejects.
THEOREM InstanceValidity == Spec => []InstanceValid
<1>1. IndInv => InstanceValid
  <2> SUFFICES ASSUME IndInv PROVE InstanceValid
    OBVIOUS
  <2>1. ASSUME rec.pc = "update" PROVE ValidPU(RecDesired)
    BY <2>1, RecFacts, DesiredPUValid DEF RecDesired
  <2> QED BY <2>1 DEF IndInv, InstanceOK, InstanceValid
<1> QED BY <1>1, Invariance, PTL

\* The reconciler never scales on a metric that was not read for its spec.
THEOREM MeasuredBeforeScaling == Spec => []ScalesOnMeasurements
<1>1. IndInv => ScalesOnMeasurements
  BY RecFacts, DecidedOnOwnMetrics DEF ScalesOnMeasurements
<1> QED BY <1>1, Invariance, PTL

-----------------------------------------------------------------------------
(* What a step does to the stored object                                   *)

\* Every step leaves the stored object alone or is one run of one writer on it.
\* The version check together with the coherence of copies gives this.
LEMMA StepWritesAtomically ==
    ASSUME IndInv, Next
    PROVE  \/ UNCHANGED <<sa, now>>
           \/ sa' = sa /\ now' = now + 1
           \/ /\ now' = now /\ sa'.spec = sa.spec
              /\ \/ ReconcileOf(sa.spec, sa.status, sa'.status, now)
                 \/ SyncOf(sa.status, sa'.status)
                 \/ ScheduleOf(sa.status, sa'.status, now)
           \/ now' = now /\ sa'.spec \in Specs /\ sa'.status = sa.status
<1>1. CASE ReconcileWrite
  <2>1. /\ Copy(rec.base) /\ rec.now \in 1 .. now /\ Decidable(rec.base.status)
        /\ statusChanged(rec.base.spec, rec.base.status, rec.now)
    BY <1>1, RecFacts DEF ReconcileWrite
  <2>2. rec.base = sa
    BY <1>1, <2>1 DEF ReconcileWrite, Fresh, Copy
  <2>3. /\ sa'.spec = sa.spec /\ sa'.status = Planned(sa.spec, sa.status, rec.now)
        /\ now' = now
    BY <1>1, <2>2 DEF ReconcileWrite, Store, Written
  <2> QED BY <2>1, <2>2, <2>3 DEF ReconcileOf
<1>2. CASE SyncWrite
  <2>1. /\ Copy(syn.base) /\ syn.reading \in Readings /\ ValidPU(syn.reading.pu)
        /\ CPURead(syn.reading.cpu, syn.reading.flags) /\ sa.status \in Statuses
    BY <1>2, SynFacts, StoredFacts DEF SyncWrite, ReadingSound
  <2>2. syn.base = sa
    BY <1>2, <2>1 DEF SyncWrite, Fresh, Copy
  <2>3. /\ sa'.spec = sa.spec /\ sa'.status = Measured(sa.status, syn.reading)
        /\ now' = now
    BY <1>2, <2>2 DEF SyncWrite, Store, Written
  <2>4. Published(sa'.status) = syn.reading /\ StatusSound(sa'.status)
    BY <2>1, <2>3, MeasuredTyped
  <2> QED BY <2>3, <2>4 DEF SyncOf, StatusSound
<1>3. CASE ScheduleWriters
  <2>1. now' = now
    BY <1>3 DEF ScheduleWriters, JobStart, JobRun, JobError, SchedulerUpdate,
                RegisterSchedule, UnregisterSchedule
  <2>2. CASE JobRun
    BY <2>1, <2>2, JobActivates DEF Store, Written, ScheduleOf
  <2>3. CASE SchedulerUpdate
    BY <2>1, <2>3 DEF SchedulerUpdate, Store, Written, ScheduleOf
  <2>4. CASE RegisterSchedule
    BY <2>1, <2>4 DEF RegisterSchedule, Store, Written, ScheduleOf
  <2>5. CASE UnregisterSchedule
    <3>1. sa.status.schedules \subseteq Names
      BY StoredFacts DEF Statuses
    <3> QED BY <2>1, <2>5, <3>1 DEF UnregisterSchedule, Store, Written, ScheduleOf
  <2>6. CASE JobStart \/ JobError
    BY <2>6 DEF JobStart, JobError
  <2> QED BY <1>3, <2>2, <2>3, <2>4, <2>5, <2>6 DEF ScheduleWriters
<1>4. CASE EditSpec
  BY <1>4 DEF EditSpec, Store, Written
<1>5. CASE Tick
  BY <1>5 DEF Tick
<1>6. CASE ReconcileStartSyncer \/ ReconcileJobError \/ ReconcileDecide
             \/ ReconcileUpdateInstance \/ ReconcileUpdateError \/ ReconcileWriteError
  BY <1>6 DEF ReconcileStartSyncer, ReconcileJobError, ReconcileDecide,
              ReconcileUpdateInstance, ReconcileUpdateError, ReconcileWriteError
<1>7. CASE SyncStart \/ SyncFetch \/ SyncGet \/ SyncConflict \/ SyncError
  BY <1>7 DEF SyncStart, SyncFetch, SyncGet, SyncConflict, SyncError
<1>8. CASE CacheSync \/ InstanceReady \/ Restart
  BY <1>8 DEF CacheSync, InstanceReady, Restart
<1> QED BY <1>1, <1>2, <1>3, <1>4, <1>5, <1>6, <1>7, <1>8
        DEF Next, Reconciler, Syncer, Environment

\* The controllers with their caches, versions, retries and restarts implement
\* writers that read and write the object in one step.
THEOREM Refinement == Spec => AtomicSpec
<1>1. Init => Atomic!Init
  BY DEF Init, Atomic!Init
<1>2. IndInv /\ [Next]_vars => [Atomic!Next]_(Atomic!vars)
  <2> SUFFICES ASSUME IndInv, [Next]_vars PROVE [Atomic!Next]_(Atomic!vars)
    OBVIOUS
  <2>1. CASE Next
    BY <2>1, StepWritesAtomically
       DEF Atomic!Next, Atomic!vars, Atomic!Reconcile, Atomic!Sync, Atomic!Schedule,
           Atomic!Edit, Atomic!Tick
  <2>2. CASE UNCHANGED vars
    BY <2>2 DEF vars, Atomic!vars
  <2> QED BY <2>1, <2>2
<1> QED BY <1>1, <1>2, Invariance, PTL DEF Spec, AtomicSpec, Atomic!Spec

\* No writer undoes what another one wrote.
THEOREM LostUpdateFreedom == Spec => NoLostUpdate
<1>1. IndInv /\ [Next]_vars => [OwnFieldsOnly]_vars
  <2> SUFFICES ASSUME IndInv, Next PROVE OwnFieldsOnly
    OBVIOUS
  <2> DEFINE old == sa.status
             new == sa'.status
  <2>1. old \in Statuses /\ StatusSound(old) /\ sa.spec \in Specs /\ now \in Nat
    BY StoredFacts
  <2>2. CASE sa' = sa \/ sa'.status = sa.status
    BY <2>2 DEF OwnFieldsOnly
  <2>3. CASE sa'.spec = sa.spec /\ ReconcileOf(sa.spec, old, new, now)
    <3>1. PICK t \in 1 .. now : new = Planned(sa.spec, old, t)
      BY <2>3 DEF ReconcileOf
    <3>2. t \in Nat
      BY <2>1
    <3>3. /\ new.current = old.current /\ new.ready = old.ready
          /\ new.cpu = old.cpu /\ new.metricType = old.metricType
          /\ new.schedules = old.schedules
          /\ \A n \in Names : new.active[n] \in {old.active[n], NotActive}
      BY <2>1, <3>1, <3>2, PlannedFields
    <3> QED BY <2>3, <3>3 DEF OwnFieldsOnly
  <2>4. CASE sa'.spec = sa.spec /\ SyncOf(old, new)
    <3>1. new = [old EXCEPT !.current = new.current, !.ready = new.ready,
                            !.cpu = new.cpu, !.metricType = new.metricType]
      BY <2>4 DEF SyncOf, Measured, Published
    <3>2. /\ new.desired = old.desired /\ new.desiredMin = old.desiredMin
          /\ new.desiredMax = old.desiredMax /\ new.lastScaleTime = old.lastScaleTime
          /\ new.schedules = old.schedules /\ new.active = old.active
      BY <2>1, <3>1 DEF Statuses
    <3> QED BY <2>4, <3>2 DEF OwnFieldsOnly
  <2>5. CASE ScheduleOf(old, new, now)
    <3>1. SameMeasurementsAndPlan(new, old)
      BY <2>1, <2>5, ActivatedTyped, ExpiredTyped, RegisteredTyped DEF ScheduleOf
    <3> QED BY <3>1 DEF SameMeasurementsAndPlan, OwnFieldsOnly
  <2> QED BY <2>2, <2>3, <2>4, <2>5, StepWritesAtomically
<1> QED BY <1>1, Invariance, PTL DEF Spec, NoLostUpdate

\* Two recorded scalings are at least the configured interval apart, although
\* the reconciler reads its clock and its object before the calls it makes.
THEOREM CooldownRecorded == Spec => RecordedCooldown
<1>1. IndInv /\ [Next]_vars => [CooledDown]_vars
  <2> SUFFICES ASSUME IndInv, Next PROVE CooledDown
    OBVIOUS
  <2> DEFINE old == sa.status
             new == sa'.status
  <2>1. old \in Statuses /\ StatusSound(old) /\ sa.spec \in Specs /\ now \in Nat
    BY StoredFacts
  <2>2. CASE new.lastScaleTime = old.lastScaleTime
    BY <2>2 DEF CooledDown
  <2>3. CASE ReconcileOf(sa.spec, old, new, now) /\ new.lastScaleTime # old.lastScaleTime
    <3>1. PICK t \in 1 .. now : new = Planned(sa.spec, old, t)
      BY <2>3 DEF ReconcileOf
    <3>2. t \in Nat /\ Decidable(old)
      BY <2>1, <2>3 DEF ReconcileOf
    <3>3. /\ new.current = old.current /\ new.desired = DesiredPU(sa.spec, old)
          /\ new.lastScaleTime = IF needUpdateProcessingUnits(sa.spec, old, t)
                                    THEN t ELSE old.lastScaleTime
      BY <2>1, <3>1, <3>2, PlannedFields
    <3>4. needUpdateProcessingUnits(sa.spec, old, t) /\ new.lastScaleTime = t
      BY <2>3, <3>3
    <3>5. old.lastScaleTime # ZeroTime =>
            t - old.lastScaleTime >=
                IF DesiredPU(sa.spec, old) > old.current
                  THEN sa.spec.scaleupInterval ELSE sa.spec.scaledownInterval
      BY <2>1, <3>2, <3>4, DecidedAfterCooldown
    <3> QED BY <3>3, <3>4, <3>5 DEF CooledDown
  <2>4. CASE SyncOf(old, new)
    <3>1. new = [old EXCEPT !.current = new.current, !.ready = new.ready,
                            !.cpu = new.cpu, !.metricType = new.metricType]
      BY <2>4 DEF SyncOf, Measured, Published
    <3>2. new.lastScaleTime = old.lastScaleTime
      BY <2>1, <3>1 DEF Statuses
    <3> QED BY <2>2, <3>2
  <2>5. CASE ScheduleOf(old, new, now)
    <3>1. SameMeasurementsAndPlan(new, old)
      BY <2>1, <2>5, ActivatedTyped, ExpiredTyped, RegisteredTyped DEF ScheduleOf
    <3> QED BY <2>2, <3>1 DEF SameMeasurementsAndPlan
  <2>6. CASE sa' = sa \/ sa'.status = sa.status
    BY <2>2, <2>6
  <2> QED BY <2>2, <2>3, <2>4, <2>5, <2>6, StepWritesAtomically
<1> QED BY <1>1, Invariance, PTL DEF Spec, RecordedCooldown

\* No schedule is cut short by a writer that has not seen its activation.
THEOREM SchedulesKept == Spec => ActiveUntilEnd
<1>1. IndInv /\ [Next]_vars => [KeptUntilEnd]_vars
  <2> SUFFICES ASSUME IndInv, Next, NEW n \in Names,
                      sa.status.active[n] # NotActive, sa'.status.active[n] = NotActive
               PROVE  sa.status.active[n].endTime < now \/ n \notin sa.status.schedules
    BY DEF KeptUntilEnd
  <2> DEFINE old == sa.status
             new == sa'.status
  <2>1. old \in Statuses /\ StatusSound(old) /\ sa.spec \in Specs /\ now \in Nat /\ now # 0
    BY StoredFacts DEF IndInv, ProcessOK
  <2>2. sa' # sa /\ new # old
    OBVIOUS
  <2>3. CASE ReconcileOf(sa.spec, old, new, now)
    <3>1. PICK t \in 1 .. now : new = Planned(sa.spec, old, t)
      BY <2>3 DEF ReconcileOf
    <3>2. new.active = Only(old.active, old.schedules)
      BY <2>1, <3>1, PlannedFields
    <3> QED BY <3>2 DEF Only
  <2>4. CASE SyncOf(old, new)
    <3>1. new = [old EXCEPT !.current = new.current, !.ready = new.ready,
                            !.cpu = new.cpu, !.metricType = new.metricType]
      BY <2>4 DEF SyncOf, Measured, Published
    <3>2. new.active = old.active
      BY <2>1, <3>1 DEF Statuses
    <3> QED BY <3>2
  <2>5. CASE ScheduleOf(old, new, now)
    <3>1. CASE \E m \in Names, sas \in {Schedules[k] : k \in Names} \cup {NoSchedule} :
                 new = Activated(old, m, sas, now)
      <4>1. PICK m \in Names, sas \in {Schedules[k] : k \in Names} \cup {NoSchedule} :
                 new = Activated(old, m, sas, now)
        BY <3>1
      <4> DEFINE entry == [additionalPU |-> sas.additionalPU, policy |-> sas.policy,
                           endTime |-> now + sas.duration]
      <4>2. new.active = [old.active EXCEPT ![m] = entry]
        BY <2>1, <4>1 DEF Activated, Statuses
      <4>3. sas.duration \in Nat
        BY SchedulesAssumption DEF NoSchedule
      <4>4. entry # NotActive
        BY <2>1, <4>3 DEF NotActive, ZeroTime
      <4> HIDE DEF entry
      <4> QED BY <2>1, <4>2, <4>4 DEF Statuses
    <3>2. CASE new = Expired(old, now)
      <4>1. new.active = Only(old.active, Names \ ExpiredAt(old, now))
        BY <2>1, <3>2 DEF Expired, Statuses
      <4> QED BY <4>1 DEF Only, ExpiredAt
    <3>3. CASE \E m \in Names : new \in {Registered(old, m), Unregistered(old, m)}
      BY <2>1, <3>3 DEF Registered, Unregistered, Statuses
    <3> QED BY <2>5, <3>1, <3>2, <3>3 DEF ScheduleOf
  <2> QED BY <2>2, <2>3, <2>4, <2>5, StepWritesAtomically
<1> QED BY <1>1, Invariance, PTL DEF Spec, ActiveUntilEnd
=============================================================================
