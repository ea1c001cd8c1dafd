---------------------------- MODULE ManualScaling ----------------------------
(***************************************************************************)
(* Manual overrides: the SpannerManualScaling objects of one autoscaler,   *)
(* the part of the SpannerAutoscaler reconciler that selects, applies and  *)
(* finishes them (manualscaling.go), and the reconciler that owns their    *)
(* Invalid phase and their owner reference                                 *)
(* (spannermanualscaling_controller.go).                                   *)
(*                                                                         *)
(* An override's name is a number, so that names have an order.  Its spec  *)
(* is immutable and is Overrides[name]; a name may be deleted and created  *)
(* again.  Both reconcilers read overrides from one informer, which learns *)
(* of the writes in the order they were made, and write with the version   *)
(* they read.  A read from the cache followed by such a write is one step: *)
(* it takes effect only when nothing was written in between.               *)
(***************************************************************************)
EXTENDS Resource, FiniteSets, Sequences

CONSTANTS
    Overrides,       \* name -> [pu, up, down, expiresAt]; expiresAt 0 is none
    HistoryLimit,    \* --manual-scaling-history-per-namespace
    RejectScaledown, \* --reject-manual-scaledown
    History,         \* overrides that may have finished before the start
    Deletions,       \* overrides may be deleted, by a user or with their owner
    Recreations,     \* the autoscaler itself may be deleted and created again
    InitialPUs,      \* sizes the instance may have at first
    Restarts,        \* the controller may restart
    MaxRevision,     \* bound: writes of overrides in one behaviour
    MaxVersion,      \* bound: writes of the autoscaler in one behaviour
    MaxTime          \* bound: minutes in one behaviour

OverrideNames == DOMAIN Overrides

ASSUME OverridesAssumption ==
    /\ OverrideNames \subseteq Nat \ {0}
    /\ \A n \in OverrideNames : ValidPU(Overrides[n].pu) /\ Overrides[n].expiresAt \in Nat
ASSUME LimitsAssumption ==
    /\ HistoryLimit \in Nat /\ MaxRevision \in Nat /\ MaxVersion \in Nat /\ MaxTime \in Nat
    /\ RejectScaledown \in BOOLEAN /\ Deletions \in BOOLEAN /\ Recreations \in BOOLEAN
    /\ Restarts \in BOOLEAN /\ History \subseteq OverrideNames

VARIABLES
    sa,        \* [rv, uid, live, spec, status]: the autoscaler at the API server
    saCache,   \* the informer's copy of it
    store,     \* name -> override at the API server, or Absent
    seen,      \* the informer's copy of the overrides
    watch,     \* the changes the informer has yet to see, oldest first
    revision,  \* of the last write of an override
    queue,     \* overrides their own reconciler has to visit
    instance,  \* processing units of the Cloud Spanner instance
    rec,       \* the SpannerAutoscaler reconciler
    mrec,      \* the SpannerManualScaling reconciler
    syn,       \* what the syncer has read and not yet written: {} or {reading}
    now        \* minutes

stored == <<store, watch, revision>>
cached == <<saCache, seen, queue>>
vars == <<sa, stored, cached, instance, rec, mrec, syn, now>>

-----------------------------------------------------------------------------
(* Objects                                                                 *)

Phases == {"", "Progressing", "Active", "Expired", "Superseded", "Invalid"}
IsTerminal(phase) == phase \in {"Expired", "Superseded", "Invalid"}

\* applied and reached: appliedAt and reachedAt are set; finishedAt 0 is unset.
Absent == [rv |-> 0]
Created(t) ==
    [rv |-> revision + 1, created |-> t, phase |-> "", applied |-> FALSE,
     reached |-> FALSE, pu |-> 0, finishedAt |-> ZeroTime, owner |-> 0]

Exists(ms) == ms # Absent
Live(ms) == Exists(ms) /\ ~IsTerminal(ms.phase)
Finished(ms) == Exists(ms) /\ IsTerminal(ms.phase)

\* status.activeManualScaling, as far as it does not follow from the name
NoManual == [name |-> 0, ramp |-> FALSE]

\* A write of override n, seen by the informer later.
Put(n, ms) ==
    /\ revision < MaxRevision
    /\ revision' = revision + 1
    /\ store' = [store EXCEPT ![n] = ms]
    /\ watch' = Append(watch, [name |-> n, ms |-> ms])

Update(n, ms) == Put(n, [ms EXCEPT !.rv = revision + 1])

\* The cached copy is the stored one, so that a write based on it succeeds.
UpToDate(n) == seen[n].rv = store[n].rv

-----------------------------------------------------------------------------
(* Selection: selectActiveManualScaling                                    *)

ExpiredBy(n, t) == Overrides[n].expiresAt # 0 /\ t >= Overrides[n].expiresAt

\* Defect: the end of an override is not looked at.
AllCandidates(t) == {n \in OverrideNames : Live(seen[n])}

Candidates(t) == {n \in OverrideNames : Live(seen[n]) /\ ~ExpiredBy(n, t)}

\* newest first, ties by name
Newer(m, n) ==
    \/ seen[m].created > seen[n].created
    \/ seen[m].created = seen[n].created /\ m > n

Selected(t) == {n \in Candidates(t) : \A m \in Candidates(t) \ {n} : Newer(n, m)}

\* What markExpiredSiblings has to finish.
Elapsed(t) == {n \in OverrideNames : Live(seen[n]) /\ ExpiredBy(n, t)}

-----------------------------------------------------------------------------
(* What an override makes of the autoscaler's status                       *)

manualScalingActiveRamp(n, current) ==
    \/ Overrides[n].pu > current /\ Overrides[n].up.step.kind # "nil"
    \/ Overrides[n].pu < current /\ Overrides[n].down.step.kind # "nil"

\* The schedules' range gives way to the override.
Overridden(status, n) ==
    [status EXCEPT !.desiredMin = 0, !.desiredMax = 0,
                   !.manual = [name |-> n,
                               ramp |-> manualScalingActiveRamp(n, status.current)]]

nextManualPU(status, n, t) ==
    NextRampPU(status.current, Overrides[n].pu, Overrides[n].up, Overrides[n].down,
               status.lastScaleTime, t).pu

\* Defect: the snapshot of the override stays.
ClearedNot(status) == status

clearActiveManualScalingState(status) == [status EXCEPT !.manual = NoManual]

-----------------------------------------------------------------------------
(* The SpannerAutoscaler reconciler                                        *)

RecIdle == [pc |-> "idle"]
Go(pc) == [rec EXCEPT !.pc = pc]

\* The list call of the selection.  The reconcile works on base and rec.now.
ReconcileStart ==
    /\ rec.pc = "idle"
    /\ saCache.live /\ Decidable(saCache.status)
    /\ rec' = [pc |-> "supersede", base |-> saCache, status |-> Pruned(saCache.status),
               now |-> now, active |-> Selected(now),
               todo |-> Candidates(now) \ Selected(now), gc |-> FALSE, victims |-> {},
               pu |-> 0, applied |-> FALSE]
    /\ UNCHANGED <<sa, stored, cached, instance, mrec, syn, now>>

\* Defect: the reason is stored in place of the phase.
FinalReason == [supersede |-> "newer", expire |-> "elapsed", reject |-> "policy"]

\* The phase a stage of the reconcile puts overrides into.
FinalPhase == [supersede |-> "Superseded", expire |-> "Expired", reject |-> "Invalid"]
Finishing == rec.pc \in DOMAIN FinalPhase
StageOver == Finishing /\ rec.todo = {} /\ ~rec.gc /\ rec.victims = {}

\* transitionManualScalingPhase: nothing is written if the override is gone or
\* finished, or if the write fails, which the reconcile only logs.
ReconcileFinish ==
    /\ Finishing /\ ~rec.gc /\ rec.victims = {}
    /\ \E n \in rec.todo :
        \/ /\ Live(seen[n]) /\ UpToDate(n)
           /\ Update(n, [seen[n] EXCEPT !.phase = FinalPhase[rec.pc], !.finishedAt = rec.now])
           /\ rec' = [rec EXCEPT !.todo = @ \ {n}, !.gc = HistoryLimit > 0]
        \/ /\ rec' = [rec EXCEPT !.todo = @ \ {n}]
           /\ UNCHANGED stored
    /\ UNCHANGED <<sa, cached, instance, mrec, syn, now>>

FinishTime(ms) == IF ms.finishedAt # ZeroTime THEN ms.finishedAt ELSE ms.created

\* enforceHistoryLimit: the finished overrides but the newest HistoryLimit.
ReconcileHistory ==
    /\ Finishing /\ rec.gc
    /\ LET finished == {n \in OverrideNames : Finished(seen[n])} IN
       \E kept \in SUBSET finished :
        /\ Cardinality(kept) = Min({HistoryLimit, Cardinality(finished)})
        /\ \A n \in kept, m \in finished \ kept : FinishTime(seen[n]) >= FinishTime(seen[m])
        /\ rec' = [rec EXCEPT !.gc = FALSE, !.victims = finished \ kept]
    /\ UNCHANGED <<sa, stored, cached, instance, mrec, syn, now>>

\* Delete by name; an error ends the collection.
ReconcileEvict ==
    /\ Finishing
    /\ \E n \in rec.victims :
        \/ /\ Exists(store[n]) /\ Put(n, Absent)
           /\ rec' = [rec EXCEPT !.victims = @ \ {n}]
        \/ /\ ~Exists(store[n])
           /\ rec' = [rec EXCEPT !.victims = @ \ {n}]
           /\ UNCHANGED stored
        \/ /\ rec' = [rec EXCEPT !.victims = {}]
           /\ UNCHANGED stored
    /\ UNCHANGED <<sa, cached, instance, mrec, syn, now>>

\* markExpiredSiblings
ReconcileSweep ==
    /\ StageOver /\ rec.pc = "supersede"
    /\ rec' = [rec EXCEPT !.pc = "expire", !.todo = Elapsed(rec.now)]
    /\ UNCHANGED <<sa, stored, cached, instance, mrec, syn, now>>

Rejected(n) == RejectScaledown /\ Overrides[n].pu < rec.status.current

\* rejectScaledownPolicy
ReconcileReject ==
    /\ StageOver /\ rec.pc = "expire"
    /\ \E n \in rec.active : Rejected(n)
    /\ rec' = [rec EXCEPT !.pc = "reject", !.todo = rec.active, !.active = {}]
    /\ UNCHANGED <<sa, stored, cached, instance, mrec, syn, now>>

ReconcileOverride ==
    /\ StageOver /\ rec.pc = "expire"
    /\ \E n \in rec.active :
        /\ ~Rejected(n)
        /\ LET pu == nextManualPU(rec.status, n, rec.now) IN
           rec' = [rec EXCEPT !.pc = IF pu # rec.status.current THEN "update" ELSE "progress",
                              !.status = Overridden(rec.status, n), !.pu = pu]
    /\ UNCHANGED <<sa, stored, cached, instance, mrec, syn, now>>

\* No override: the rest of Reconcile, from the CPU load.
ReconcileCPU ==
    /\ StageOver /\ rec.pc # "supersede" /\ rec.active = {}
    /\ LET spec    == rec.base.spec
           cleared == clearActiveManualScalingState(rec.status)
           scale   == needUpdateProcessingUnits(spec, cleared, now)
           changed == cleared # rec.base.status \/ statusChanged(spec, cleared, now)
       IN  rec' = IF ~changed THEN RecIdle
                  ELSE [rec EXCEPT !.pc = IF scale THEN "update" ELSE "write",
                                   !.status = Planned(spec, cleared, now),
                                   !.pu = DesiredPU(spec, cleared)]
    /\ UNCHANGED <<sa, stored, cached, instance, mrec, syn, now>>

\* Cloud Spanner accepts valid sizes only.
ReconcileUpdateInstance ==
    /\ rec.pc = "update" /\ ValidPU(rec.pu)
    /\ instance' = rec.pu
    /\ rec' = IF rec.active = {} THEN Go("write")
              ELSE [Go("progress") EXCEPT
                      !.applied = TRUE,
                      !.status.lastScaleTime = rec.now, !.status.desired = rec.pu]
    /\ UNCHANGED <<sa, stored, cached, mrec, syn, now>>

\* The call fails, before or after it took effect.  With an override the
\* status is written all the same.
ReconcileUpdateError ==
    /\ rec.pc = "update"
    /\ instance' \in {instance} \cup (IF ValidPU(rec.pu) THEN {rec.pu} ELSE {})
    /\ rec' = IF rec.active = {} \/ rec.status = rec.base.status THEN RecIdle
              ELSE [Go("write") EXCEPT !.status.desired = rec.status.current]
    /\ UNCHANGED <<sa, stored, cached, mrec, syn, now>>

\* Defect: the size is recorded only when it was changed.
ProgressedUnsized(ms, n) ==
    LET current == rec.base.status.current
        done    == current = Overrides[n].pu
    IN  [ms EXCEPT !.phase = IF done THEN "Active" ELSE "Progressing",
                   !.applied = @ \/ rec.applied, !.reached = @ \/ done,
                   !.pu = IF rec.applied THEN current ELSE @]

\* updateManualScalingProgress, on the override as cached now.
Progressed(ms, n) ==
    LET current == rec.base.status.current
        done    == current = Overrides[n].pu
    IN  [ms EXCEPT !.phase = IF done THEN "Active" ELSE "Progressing",
                   !.applied = @ \/ rec.applied, !.reached = @ \/ done, !.pu = current]

ReconcileProgress ==
    /\ rec.pc = "progress"
    /\ \E n \in rec.active :
        \/ /\ Exists(seen[n]) /\ UpToDate(n)
           /\ Progressed(seen[n], n) # seen[n]
           /\ Update(n, Progressed(seen[n], n))
        \/ UNCHANGED stored
    /\ rec' = IF rec.applied \/ rec.status # rec.base.status THEN Go("write") ELSE RecIdle
    /\ UNCHANGED <<sa, cached, instance, mrec, syn, now>>

StoreSA(status) ==
    /\ sa.live /\ sa.rv < MaxVersion
    /\ sa' = [sa EXCEPT !.rv = @ + 1, !.status = status]

ReconcileWrite ==
    /\ rec.pc = "write"
    /\ \/ rec.base.rv = sa.rv /\ StoreSA(rec.status)
       \/ UNCHANGED sa
    /\ rec' = RecIdle
    /\ UNCHANGED <<stored, cached, instance, mrec, syn, now>>

-----------------------------------------------------------------------------
(* The SpannerManualScaling reconciler                                     *)

MrecIdle == [pc |-> "idle"]

\* Reads the override and its target, both from the caches.
ManualReconcile ==
    /\ mrec.pc = "idle"
    /\ \E n \in queue :
        /\ queue' = queue \ {n}
        /\ mrec' = IF ~Live(seen[n]) \/ (saCache.live /\ seen[n].owner = saCache.uid)
                     THEN MrecIdle
                     ELSE [pc |-> IF saCache.live THEN "adopt" ELSE "invalid",
                           name |-> n, ms |-> seen[n], uid |-> saCache.uid]
    /\ UNCHANGED <<sa, stored, saCache, seen, instance, rec, syn, now>>

\* The owner reference, or markInvalid.
ManualWrite ==
    /\ mrec.pc # "idle"
    /\ mrec.ms.rv = store[mrec.name].rv
    /\ Update(mrec.name,
              IF mrec.pc = "adopt" THEN [mrec.ms EXCEPT !.owner = mrec.uid]
              ELSE [mrec.ms EXCEPT !.phase = "Invalid", !.finishedAt = now])
    /\ mrec' = MrecIdle
    /\ UNCHANGED <<sa, cached, instance, rec, syn, now>>

\* A conflict or another failure: the override is visited again.
ManualWriteError ==
    /\ mrec.pc # "idle"
    /\ queue' = queue \cup {mrec.name}
    /\ mrec' = MrecIdle
    /\ UNCHANGED <<sa, stored, saCache, seen, instance, rec, syn, now>>

-----------------------------------------------------------------------------
(* The environment                                                         *)

\* The cached size, where it is known, is not above the target.
checkRejectScaledown(n) ==
    /\ saCache.live
    /\ saCache.status.current # 0 => Overrides[n].pu >= saCache.status.current

\* The checks of the webhook that do not follow from OverridesAssumption.
ValidateCreate(n) ==
    /\ Overrides[n].expiresAt # 0 => Overrides[n].expiresAt > now
    /\ RejectScaledown => checkRejectScaledown(n)

CreateOverride ==
    /\ \E n \in OverrideNames :
        ~Exists(store[n]) /\ ValidateCreate(n) /\ Put(n, Created(now))
    /\ UNCHANGED <<sa, cached, instance, rec, mrec, syn, now>>

DeleteOverride ==
    /\ Deletions
    /\ \E n \in OverrideNames : Exists(store[n]) /\ Put(n, Absent)
    /\ UNCHANGED <<sa, cached, instance, rec, mrec, syn, now>>

\* The informer sees the next change; a creation enqueues the override.
CacheSync ==
    /\ watch # <<>>
    /\ LET e == Head(watch) IN
        /\ seen' = [seen EXCEPT ![e.name] = e.ms]
        /\ queue' = queue \cup (IF Exists(e.ms) /\ ~Exists(seen[e.name]) THEN {e.name} ELSE {})
    /\ watch' = Tail(watch)
    /\ UNCHANGED <<sa, saCache, store, revision, instance, rec, mrec, syn, now>>

AutoscalerCacheSync ==
    /\ saCache # sa
    /\ saCache' = sa
    /\ UNCHANGED <<sa, stored, seen, queue, instance, rec, mrec, syn, now>>

\* What the syncer of an autoscaler with this spec may read.
ReadingsOf(spec, pu) ==
    {[pu |-> pu, ready |-> TRUE, flags |-> DOMAIN spec.target,
      cpu |-> [m \in CPUMetrics |-> IF m \in DOMAIN cpu THEN cpu[m] ELSE 0]] :
        cpu \in [DOMAIN spec.target -> CPUReadings]}

SyncFetch ==
    /\ sa.live /\ syn = {}
    /\ \E reading \in ReadingsOf(sa.spec, instance) : syn' = {reading}
    /\ UNCHANGED <<sa, stored, cached, instance, rec, mrec, now>>

\* The reading is stored, or the syncer gives up.
SyncWrite ==
    /\ syn # {}
    /\ \/ /\ saCache.rv = sa.rv
          /\ \E reading \in syn : StoreSA(Measured(sa.status, reading))
       \/ UNCHANGED sa
    /\ syn' = {}
    /\ UNCHANGED <<stored, cached, instance, rec, mrec, now>>

EmptyStatus ==
    [f \in DOMAIN NewStatus \cup {"manual"} |-> IF f = "manual" THEN NoManual ELSE NewStatus[f]]

DeleteAutoscaler ==
    /\ Recreations /\ sa.live /\ sa.rv < MaxVersion
    /\ sa' = [sa EXCEPT !.live = FALSE, !.rv = @ + 1]
    /\ UNCHANGED <<stored, cached, instance, rec, mrec, syn, now>>

CreateAutoscaler ==
    /\ Recreations /\ ~sa.live /\ sa.rv < MaxVersion
    /\ sa' = [sa EXCEPT !.live = TRUE, !.rv = @ + 1, !.uid = @ + 1, !.status = EmptyStatus]
    /\ UNCHANGED <<stored, cached, instance, rec, mrec, syn, now>>

\* The controller stops and starts again with new informers.
Restart ==
    /\ Restarts
    /\ rec' = RecIdle /\ mrec' = MrecIdle /\ syn' = {}
    /\ saCache' = sa /\ seen' = store /\ watch' = <<>>
    /\ queue' = {n \in OverrideNames : Exists(store[n])}
    /\ UNCHANGED <<sa, store, revision, instance, now>>

Tick ==
    /\ now < MaxTime
    /\ now' = now + 1
    /\ UNCHANGED <<sa, stored, cached, instance, rec, mrec, syn>>

-----------------------------------------------------------------------------

\* The instance has been read once; the overrides there are have finished.
Init ==
    /\ instance \in InitialPUs
    /\ \E s \in Specs : \E reading \in ReadingsOf(s, instance) :
        sa = [rv |-> 0, uid |-> 1, live |-> TRUE, spec |-> s,
              status |-> Measured(EmptyStatus, reading)]
    /\ saCache = sa
    /\ \E past \in SUBSET History :
        store = [n \in OverrideNames |->
                   IF n \in past THEN [rv |-> 1, created |-> 1, phase |-> "Superseded",
                                       applied |-> TRUE, reached |-> TRUE, pu |-> instance,
                                       finishedAt |-> 1, owner |-> 1]
                   ELSE Absent]
    /\ seen = store /\ watch = <<>> /\ revision = 1 /\ queue = {}
    /\ rec = RecIdle /\ mrec = MrecIdle /\ syn = {}
    /\ now = 1

Reconciler ==
    \/ ReconcileStart \/ ReconcileFinish \/ ReconcileHistory \/ ReconcileEvict
    \/ ReconcileSweep \/ ReconcileReject \/ ReconcileOverride \/ ReconcileCPU
    \/ ReconcileUpdateInstance \/ ReconcileUpdateError \/ ReconcileProgress \/ ReconcileWrite

ManualReconciler == ManualReconcile \/ ManualWrite \/ ManualWriteError

Syncer == SyncFetch \/ SyncWrite

Environment ==
    \/ CreateOverride \/ DeleteOverride \/ CacheSync \/ AutoscalerCacheSync
    \/ DeleteAutoscaler \/ CreateAutoscaler \/ Restart \/ Tick

Next == Reconciler \/ ManualReconciler \/ Syncer \/ Environment

Spec == Init /\ [][Next]_vars

-----------------------------------------------------------------------------
(* Properties                                                              *)

ManualScalings ==
    [rv : 1 .. MaxRevision, created : Nat, phase : Phases, applied : BOOLEAN,
     reached : BOOLEAN, pu : Nat, finishedAt : Nat, owner : Nat] \cup {Absent}

\* The variables hold values of the shapes the code gives them, and the copies
\* the informer has are what is stored once the pending changes are applied.
TypeOK ==
    /\ store \in [OverrideNames -> ManualScalings]
    /\ seen \in [OverrideNames -> ManualScalings]
    /\ \A n \in OverrideNames :
         LET pending == SelectSeq(watch, LAMBDA e : e.name = n) IN
         store[n] = IF pending = <<>> THEN seen[n] ELSE pending[Len(pending)].ms
    /\ queue \subseteq OverrideNames
    /\ sa.status.manual.name \in OverrideNames \cup {0}
    /\ rec.pc \in {"idle", "supersede", "expire", "reject", "update", "progress", "write"}
    /\ mrec.pc \in {"idle", "adopt", "invalid"}

\* An Expired override keeps its phase and its finish time until it is deleted,
\* whatever old copies the two reconcilers work on.
ExpiredStays ==
    [][\A n \in OverrideNames : Exists(store[n]) /\ store[n].phase = "Expired" =>
        \/ ~Exists(store'[n])
        \/ /\ store'[n].phase = "Expired"
           /\ store'[n].finishedAt = store[n].finishedAt]_vars

\* The instance is never resized for an override that is stored as Expired,
\* although the reconciler selects overrides from a cache that may lag behind.
ExpiredNotApplied ==
    [][instance' # instance =>
        \A n \in rec.active : Exists(store[n]) => store[n].phase # "Expired"]_vars

\* An override that says Active reports its target as the current size and has
\* recorded that it got there, even if its earlier progress writes were lost.
ActiveAtTarget ==
    \A n \in OverrideNames : Exists(store[n]) /\ store[n].phase = "Active" =>
        store[n].reached /\ store[n].pu = Overrides[n].pu

\* While the status names an override, the range that the schedules define is
\* suppressed in it ("desiredMinPUs / desiredMaxPUs are zeroed while the manual
\* override is active"), also after failed updates and lost writes.
RangeSuppressed ==
    sa.status.manual # NoManual => sa.status.desiredMin = 0 /\ sa.status.desiredMax = 0

\* Steps of a ramp are recorded at least the ramp's interval apart.
RampPaced ==
    [][LET old == sa.status
           new == sa'.status
           ramp == IF new.desired > new.current THEN Overrides[new.manual.name].up
                                                ELSE Overrides[new.manual.name].down
       IN  /\ new.manual # NoManual
           /\ new.lastScaleTime # old.lastScaleTime /\ old.lastScaleTime # ZeroTime
           /\ ramp.step.kind # "nil"
           => new.lastScaleTime - old.lastScaleTime >= ramp.interval]_vars
=============================================================================
