----------------------------- MODULE Autoscaler -----------------------------
(***************************************************************************)
(* The autoscaling control loop of one SpannerAutoscaler: the reconciler   *)
(* (SpannerAutoscalerReconciler.Reconcile), the syncer that copies the     *)
(* instance's size and CPU load into the status, the cron jobs and the     *)
(* cleanup of the scheduler, and the registration of schedules.  They run  *)
(* concurrently, read the object through the manager's informer cache and  *)
(* write it to the API server, which accepts a write only if it is based   *)
(* on the latest version.                                                  *)
(*                                                                         *)
(* The reconciler and the syncer are split at every call that leaves the   *)
(* process.  The writers of the schedule lists are a Get and an Update in  *)
(* RetryOnConflict: an attempt takes effect only when no other write came  *)
(* in between, so each is one step, and giving up is no step.              *)
(***************************************************************************)
EXTENDS Resource

CONSTANTS
    InitialPUs,    \* sizes the instance may have at first
    Retries,       \* attempts of retry.DefaultBackoff
    MaxVersion,    \* bound: writes of the object in one behaviour
    MaxTime        \* bound: minutes in one behaviour

ASSUME InitialAssumption == \A pu \in InitialPUs : pu \in Nat /\ ValidPU(pu)
ASSUME BoundsAssumption == Retries \in Nat \ {0} /\ MaxVersion \in Nat /\ MaxTime \in Nat

VARIABLES
    sa,        \* [rv, spec, status]: the object at the API server
    cache,     \* the informer's copy of it
    instance,  \* [pu, ready, changedAt]: the Cloud Spanner instance
    rec,       \* the reconciler: where it is, and the object and time it acts on
    syn,       \* the syncer: where it is, what it read, the object it updates
    syncers,   \* a syncer is registered in r.syncers
    crons,     \* r.crons: {} before the cron exists, else {set of its jobs}
    running,   \* jobs of the cron that have started and not ended
    now        \* minutes

vars == <<sa, cache, instance, rec, syn, syncers, crons, running, now>>

-----------------------------------------------------------------------------
(* The API server                                                          *)

\* Status().Update or, by the user, Update: the stored object gets a new version.
Written(spec, status) == [rv |-> sa.rv + 1, spec |-> spec, status |-> status]

Store(spec, status) == sa.rv < MaxVersion /\ sa' = Written(spec, status)

\* Defect: the last write wins.
LastWriteWins(base) == TRUE

\* Optimistic concurrency: the write is based on the latest version.
Fresh(base) == base.rv = sa.rv

CacheSync ==
    /\ cache # sa
    /\ cache' = sa
    /\ UNCHANGED <<sa, instance, rec, syn, syncers, crons, running, now>>

-----------------------------------------------------------------------------
(* The reconciler                                                          *)

RecIdle == [pc |-> "idle"]

\* The first reconcile after a start only starts the syncer.
ReconcileStartSyncer ==
    /\ rec.pc = "idle" /\ ~syncers
    /\ syncers' = TRUE
    /\ UNCHANGED <<sa, cache, instance, rec, syn, crons, running, now>>

\* The cron is created with the first registered schedule; addCronJob and
\* pruneCronJobs then make its jobs the registered schedules.
CronsFor(status) ==
    IF crons = {} /\ status.schedules = {} THEN {} ELSE {status.schedules}

\* addCronJob fails to read a schedule, after it has added those before it.
ReconcileJobError ==
    /\ rec.pc = "idle" /\ syncers
    /\ \E failing \in cache.status.schedules :
       \E added \in SUBSET (cache.status.schedules \ {failing}) :
        crons' = {(UNION crons) \cup added}
    /\ UNCHANGED <<sa, cache, instance, rec, syn, syncers, running, now>>

\* From reading the object to the next call that leaves the process.
ReconcileDecide ==
    /\ rec.pc = "idle" /\ syncers
    /\ crons' = CronsFor(cache.status)
    /\ LET at(pc) == [pc |-> pc, base |-> cache, now |-> now]
           scale == needUpdateProcessingUnits(cache.spec, cache.status, now)
       IN  \/ /\ ~Decidable(cache.status) \/ ~statusChanged(cache.spec, cache.status, now)
              /\ UNCHANGED rec
           \/ /\ Decidable(cache.status) /\ scale
              /\ rec' = at("update")
           \/ /\ Decidable(cache.status) /\ ~scale
              /\ statusChanged(cache.spec, cache.status, now)
              /\ rec' = at("write")
    /\ UNCHANGED <<sa, cache, instance, syn, syncers, running, now>>

RecDesired == DesiredPU(rec.base.spec, rec.base.status)

Resize == instance' = [instance EXCEPT !.pu = RecDesired, !.changedAt = now]

ReconcileUpdateInstance ==
    /\ rec.pc = "update"
    /\ Resize
    /\ rec' = [rec EXCEPT !.pc = "write"]
    /\ UNCHANGED <<sa, cache, syn, syncers, crons, running, now>>

\* The call fails, before or after it took effect.
ReconcileUpdateError ==
    /\ rec.pc = "update"
    /\ Resize \/ UNCHANGED instance
    /\ rec' = RecIdle
    /\ UNCHANGED <<sa, cache, syn, syncers, crons, running, now>>

ReconcileWrite ==
    /\ rec.pc = "write"
    /\ Fresh(rec.base)
    /\ Store(rec.base.spec, Planned(rec.base.spec, rec.base.status, rec.now))
    /\ rec' = RecIdle
    /\ UNCHANGED <<cache, instance, syn, syncers, crons, running, now>>

\* A conflict, or any other failure of the status update.
ReconcileWriteError ==
    /\ rec.pc = "write"
    /\ rec' = RecIdle
    /\ UNCHANGED <<sa, cache, instance, syn, syncers, crons, running, now>>

-----------------------------------------------------------------------------
(* The syncer                                                              *)

SynIdle == [pc |-> "idle"]

\* The metrics to read are those of the object as cached now.
SyncStart ==
    /\ syn.pc = "idle" /\ syncers
    /\ syn' = [pc |-> "fetch", flags |-> DOMAIN cache.spec.target]
    /\ UNCHANGED <<sa, cache, instance, rec, syncers, crons, running, now>>

\* getInstanceInfo, getInstanceInfoDual
SyncFetch ==
    /\ syn.pc = "fetch"
    /\ \E cpu \in [syn.flags -> CPUReadings] :
        syn' = [pc |-> "get", tries |-> 0,
                reading |-> [pu |-> instance.pu, ready |-> instance.ready, flags |-> syn.flags,
                             cpu |-> [m \in CPUMetrics |-> IF m \in syn.flags THEN cpu[m] ELSE 0]]]
    /\ UNCHANGED <<sa, cache, instance, rec, syncers, crons, running, now>>

SyncGet ==
    /\ syn.pc = "get"
    /\ syn' = [pc |-> "write", base |-> cache, reading |-> syn.reading, tries |-> syn.tries]
    /\ UNCHANGED <<sa, cache, instance, rec, syncers, crons, running, now>>

SyncWrite ==
    /\ syn.pc = "write"
    /\ Fresh(syn.base)
    /\ Store(syn.base.spec, Measured(syn.base.status, syn.reading))
    /\ syn' = SynIdle
    /\ UNCHANGED <<cache, instance, rec, syncers, crons, running, now>>

SyncConflict ==
    /\ syn.pc = "write"
    /\ ~Fresh(syn.base)
    /\ syn' = IF syn.tries + 1 < Retries
                THEN [pc |-> "get", reading |-> syn.reading, tries |-> syn.tries + 1]
                ELSE SynIdle
    /\ UNCHANGED <<sa, cache, instance, rec, syncers, crons, running, now>>

\* Any call fails other than by a conflict.
SyncError ==
    /\ syn.pc # "idle"
    /\ syn' = SynIdle
    /\ UNCHANGED <<sa, cache, instance, rec, syncers, crons, running, now>>

-----------------------------------------------------------------------------
(* Schedules                                                               *)

JobStart ==
    /\ \E jobs \in crons : \E n \in jobs \ running : running' = running \cup {n}
    /\ UNCHANGED <<sa, cache, instance, rec, syn, syncers, crons, now>>

\* Job.Run, which by now may have been removed from the cron.
JobRun ==
    /\ \E n \in running : \E sas \in {Schedules[n], NoSchedule} :
        /\ Store(sa.spec, Activated(sa.status, n, sas, now))
        /\ running' = running \ {n}
    /\ UNCHANGED <<cache, instance, rec, syn, syncers, crons, now>>

\* The retries run out, or the update fails otherwise.
JobError ==
    /\ \E n \in running : running' = running \ {n}
    /\ UNCHANGED <<sa, cache, instance, rec, syn, syncers, crons, now>>

\* scheduler.Update
SchedulerUpdate ==
    /\ crons # {}
    /\ ExpiredAt(sa.status, now) # {}
    /\ Store(sa.spec, Expired(sa.status, now))
    /\ UNCHANGED <<cache, instance, rec, syn, syncers, crons, running, now>>

RegisterSchedule ==
    /\ \E n \in Names \ sa.status.schedules : Store(sa.spec, Registered(sa.status, n))
    /\ UNCHANGED <<cache, instance, rec, syn, syncers, crons, running, now>>

UnregisterSchedule ==
    /\ \E n \in sa.status.schedules : Store(sa.spec, Unregistered(sa.status, n))
    /\ UNCHANGED <<cache, instance, rec, syn, syncers, crons, running, now>>

-----------------------------------------------------------------------------
(* The environment                                                         *)

EditSpec ==
    /\ \E s \in Specs \ {sa.spec} : Store(s, sa.status)
    /\ UNCHANGED <<cache, instance, rec, syn, syncers, crons, running, now>>

InstanceReady ==
    /\ ~instance.ready
    /\ instance' = [instance EXCEPT !.ready = TRUE]
    /\ UNCHANGED <<sa, cache, rec, syn, syncers, crons, running, now>>

\* The controller process stops and starts again with a new informer.
Restart ==
    /\ syncers
    /\ cache' = sa
    /\ rec' = RecIdle
    /\ syn' = SynIdle
    /\ syncers' = FALSE
    /\ crons' = {}
    /\ running' = {}
    /\ UNCHANGED <<sa, instance, now>>

Tick ==
    /\ now < MaxTime
    /\ now' = now + 1
    /\ UNCHANGED <<sa, cache, instance, rec, syn, syncers, crons, running>>

-----------------------------------------------------------------------------

Init ==
    /\ \E s \in Specs : sa = [rv |-> 0, spec |-> s, status |-> NewStatus]
    /\ cache = sa
    /\ \E pu \in InitialPUs, r \in BOOLEAN :
        instance = [pu |-> pu, ready |-> r, changedAt |-> ZeroTime]
    /\ rec = RecIdle
    /\ syn = SynIdle
    /\ syncers = FALSE
    /\ crons = {}
    /\ running = {}
    /\ now = 1

Reconciler ==
    \/ ReconcileStartSyncer \/ ReconcileJobError \/ ReconcileDecide
    \/ ReconcileUpdateInstance \/ ReconcileUpdateError
    \/ ReconcileWrite \/ ReconcileWriteError

Syncer == SyncStart \/ SyncFetch \/ SyncGet \/ SyncWrite \/ SyncConflict \/ SyncError

ScheduleWriters ==
    \/ JobStart \/ JobRun \/ JobError
    \/ SchedulerUpdate \/ RegisterSchedule \/ UnregisterSchedule

Environment == CacheSync \/ EditSpec \/ InstanceReady \/ Restart \/ Tick

Next == Reconciler \/ Syncer \/ ScheduleWriters \/ Environment

Spec == Init /\ [][Next]_vars

-----------------------------------------------------------------------------
(* Properties                                                              *)

Objects == [rv : Nat, spec : Specs, status : Statuses]

\* The variables hold values of the shapes the code gives them.
TypeOK ==
    /\ sa \in Objects /\ cache \in Objects
    /\ instance \in [pu : Nat, ready : BOOLEAN, changedAt : Nat]
    /\ \/ rec = RecIdle
       \/ rec \in [pc : {"update", "write"}, base : Objects, now : Nat]
    /\ \/ syn = SynIdle
       \/ syn \in [pc : {"fetch"}, flags : SUBSET CPUMetrics]
       \/ syn \in [pc : {"get"}, reading : Readings, tries : Nat]
       \/ syn \in [pc : {"write"}, base : Objects, reading : Readings, tries : Nat]
    /\ syncers \in BOOLEAN
    /\ crons \in SUBSET SUBSET Names
    /\ running \in SUBSET Names
    /\ now \in Nat \ {0}

\* A copy of the object, in the cache or in the hands of the reconciler or the
\* syncer, is never newer than the stored object, and with the stored version
\* it has the stored content.
Copy(obj) == obj.rv <= sa.rv /\ (obj.rv = sa.rv => obj = sa)

CopiesCoherent ==
    /\ Copy(cache)
    /\ rec.pc # "idle" => Copy(rec.base)
    /\ syn.pc = "write" => Copy(syn.base)

\* The inductive invariant, by the variable each part is about.
Held(obj) == obj \in Objects /\ StatusSound(obj.status) /\ Copy(obj)

ReadingSound(reading) ==
    /\ reading \in Readings
    /\ ValidPU(reading.pu)
    /\ CPURead(reading.cpu, reading.flags)

StoredOK == sa \in Objects /\ StatusSound(sa.status)

InstanceOK ==
    /\ instance \in [pu : Nat, ready : BOOLEAN, changedAt : Nat]
    /\ ValidPU(instance.pu)

\* What the reconciler is about to do was decided on the object it holds.
RecOK ==
    \/ rec = RecIdle
    \/ /\ rec \in [pc : {"update", "write"}, base : Objects, now : Nat]
       /\ Held(rec.base)
       /\ 1 <= rec.now /\ rec.now <= now
       /\ Decidable(rec.base.status)
       /\ statusChanged(rec.base.spec, rec.base.status, rec.now)
       /\ rec.pc = "update" =>
            needUpdateProcessingUnits(rec.base.spec, rec.base.status, rec.now)

SynOK ==
    \/ syn = SynIdle
    \/ syn \in [pc : {"fetch"}, flags : SUBSET CPUMetrics]
    \/ syn \in [pc : {"get"}, reading : Readings, tries : Nat] /\ ReadingSound(syn.reading)
    \/ /\ syn \in [pc : {"write"}, base : Objects, reading : Readings, tries : Nat]
       /\ ReadingSound(syn.reading)
       /\ Held(syn.base)

ProcessOK ==
    /\ syncers \in BOOLEAN
    /\ crons \in SUBSET SUBSET Names
    /\ running \in SUBSET Names
    /\ now \in Nat \ {0}

IndInv == StoredOK /\ Held(cache) /\ InstanceOK /\ RecOK /\ SynOK /\ ProcessOK

\* The instance never has a size that Cloud Spanner rejects: every PU that
\* UpdateInstance is called with is valid, for any mix of stale copies,
\* schedules, spec edits and metric readings.
InstanceValid ==
    /\ ValidPU(instance.pu)
    /\ rec.pc = "update" => ValidPU(RecDesired)

\* The object the reconciler scales on carries a reading of every metric its
\* spec has a target for.  A spec edit that adds or swaps targets while a sync
\* is under way never leads to a decision on a zero that nobody reported.
ScalesOnMeasurements ==
    rec.pc = "update" =>
        \A m \in DOMAIN rec.base.spec.target : rec.base.status.cpu[m] \in CPUReadings

\* No write undoes another writer's: a step that changes what the syncer
\* measures changes nothing else of the object, a step that changes the
\* reconciler's plan leaves the measurements, the registered schedules and the
\* spec alone and activates no schedule.
OwnFieldsOnly ==
    LET old == sa.status
        new == sa'.status
        measured(s) == <<s.current, s.ready, s.cpu, s.metricType>>
        plan(s) == <<s.desired, s.desiredMin, s.desiredMax, s.lastScaleTime>>
    IN  /\ measured(new) # measured(old) =>
             /\ plan(new) = plan(old) /\ sa'.spec = sa.spec
             /\ new.schedules = old.schedules /\ new.active = old.active
        /\ plan(new) # plan(old) =>
             /\ sa'.spec = sa.spec /\ new.schedules = old.schedules
             /\ \A n \in Names : new.active[n] \in {old.active[n], NotActive}

NoLostUpdate == [][OwnFieldsOnly]_vars

\* The recorded scale times respect the cooldown of the spec in force when they
\* are recorded, in the direction that was recorded.
CooledDown ==
    LET old == sa.status
        new == sa'.status
    IN  new.lastScaleTime # old.lastScaleTime /\ old.lastScaleTime # ZeroTime =>
          new.lastScaleTime - old.lastScaleTime >=
              IF new.desired > new.current THEN sa.spec.scaleupInterval
                                           ELSE sa.spec.scaledownInterval

RecordedCooldown == [][CooledDown]_vars

\* A schedule that is in effect stays so until its end, unless it has been
\* unregistered: neither the reconciler's pruning, done on a copy, nor the
\* cleanup drops an activation that came in meanwhile.
KeptUntilEnd ==
    \A n \in Names :
        sa.status.active[n] # NotActive /\ sa'.status.active[n] = NotActive =>
            sa.status.active[n].endTime < now \/ n \notin sa.status.schedules

ActiveUntilEnd == [][KeptUntilEnd]_vars

\* "The cool down period between two consecutive scaledown operations": the
\* instance itself is not scaled down twice within the shortest interval that
\* the user ever configured.
InstanceCooldown ==
    [][instance'.pu < instance.pu /\ instance.changedAt # ZeroTime =>
        \E s \in Specs : now - instance.changedAt >= s.scaledownInterval]_vars

\* The stored object changes as if every writer read and wrote it in one step.
Atomic == INSTANCE AtomicAutoscaler WITH spec <- sa.spec, status <- sa.status
AtomicSpec == Atomic!Spec
=============================================================================
