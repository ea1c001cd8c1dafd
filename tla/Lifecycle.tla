----------------------------- MODULE Lifecycle ------------------------------
(***************************************************************************)
(* What the reconciler keeps in memory for a SpannerAutoscaler, by the     *)
(* object's name: a syncer, a cron with its scheduler, and the labels of   *)
(* the metric series it exposes.  Objects of one name come and go, with    *)
(* another target instance each time, and credentials change; the syncers  *)
(* are goroutines that go on for a while after they were told to stop.     *)
(*                                                                         *)
(* The decision to scale and its size are those of module Autoscaler; here *)
(* the reconciler may decide to scale whenever it gets that far.           *)
(***************************************************************************)
EXTENDS Naturals, FiniteSets

CONSTANTS
    Instances,     \* target instances
    Secrets,       \* contents of the secret with the service account's key
    Goroutines,    \* bound: syncers alive at a time, stopped ones included
    MaxChanges,    \* bound: changes from outside, restarts included
    Absent         \* no object, no syncer, no secret, nothing measured

ASSUME AbsentAssumption ==
    /\ Absent \notin Instances \cup Secrets \cup Goroutines \cup {"gcp-sa-key", "adc"}
    /\ \A t \in Instances \cup {Absent}, a \in {"gcp-sa-key", "adc"}, s \in BOOLEAN,
          f \in Instances \cup {Absent} :
        Absent # [target |-> t, auth |-> a, schedules |-> s, from |-> f]
ASSUME BoundAssumption == MaxChanges \in Nat

VARIABLES
    object,      \* [target, auth, schedules, from] at the API server, or Absent
    cache,       \* the informer's copy
    fresh,       \* the cached copy has the stored version
    secret,      \* the secret that authentication of type gcp-sa-key names
    queued,      \* the object's name is in the reconciler's work queue
    rec,         \* the reconciler: where it is and what it holds
    syncers,     \* r.syncers: the registered syncer
    routine,     \* the syncers' goroutines
    crons,       \* r.crons and r.schedulers have an entry
    ticking,     \* crons and schedulers that run
    labelsCache, \* r.labelsCache: the target instance in the cached labels
    series,      \* target instances with series on /metrics
    changes      \* changes from outside so far

stored == <<object, cache, fresh, secret, changes>>
memory == <<syncers, routine, crons, ticking, labelsCache, series>>
vars == <<stored, queued, rec, memory>>

AuthTypes == {"gcp-sa-key", "adc"}
Idle == [pc |-> "idle"]

-----------------------------------------------------------------------------
(* The API server                                                          *)

\* A write gives the object a new version: no copy has the stored one any more.
Put(obj) ==
    /\ object' = obj
    /\ fresh' = FALSE
    /\ UNCHANGED cache

Outdated(r) == IF r.pc = "idle" THEN r ELSE [r EXCEPT !.fresh = FALSE]

OutsidePut(obj) ==
    /\ changes < MaxChanges
    /\ changes' = changes + 1
    /\ Put(obj)
    /\ rec' = Outdated(rec)
    /\ UNCHANGED <<secret, queued, memory>>

CreateAutoscaler ==
    /\ object = Absent
    /\ \E t \in Instances, a \in AuthTypes :
        OutsidePut([target |-> t, auth |-> a, schedules |-> FALSE, from |-> Absent])

DeleteAutoscaler == object # Absent /\ OutsidePut(Absent)

\* spec.targetInstance cannot be edited.
EditAuthentication ==
    /\ object # Absent
    /\ \E a \in AuthTypes \ {object.auth} : OutsidePut([object EXCEPT !.auth = a])

\* The reconciler of schedules registers the first one.
RegisterSchedule ==
    /\ object # Absent /\ ~object.schedules
    /\ OutsidePut([object EXCEPT !.schedules = TRUE])

\* The secret is not watched: nothing is put into the work queue.
ChangeSecret ==
    /\ changes < MaxChanges
    /\ changes' = changes + 1
    /\ \E s \in (Secrets \cup {Absent}) \ {secret} : secret' = s
    /\ UNCHANGED <<object, cache, fresh, queued, rec, memory>>

\* The informer catches up, possibly past several versions and objects.
CacheSync ==
    /\ ~fresh
    /\ cache' = object
    /\ fresh' = TRUE
    /\ queued' = TRUE
    /\ UNCHANGED <<object, secret, changes, rec, memory>>

\* The informer's periodic resync.
Resync ==
    /\ cache # Absent /\ ~queued
    /\ queued' = TRUE
    /\ UNCHANGED <<stored, rec, memory>>

-----------------------------------------------------------------------------
(* Metric series                                                           *)

Recorded(target) == series' = series \cup {target}

\* Defect: the entry of a deleted object stays.
LabelsKept(sa) ==
    /\ labelsCache' = IF sa = Absent THEN labelsCache ELSE sa.target
    /\ series' = series \ {labelsCache}

updateLabelsCache(sa) ==
    LET current == IF sa = Absent THEN Absent ELSE sa.target
    IN  /\ labelsCache' = current
        /\ series' = IF labelsCache # current THEN series \ {labelsCache} ELSE series

-----------------------------------------------------------------------------
(* The reconciler                                                          *)

Gone == [pc |-> "gone"]
Free == {g \in Goroutines : routine[g] = Gone}

\* Defect: the syncer keeps running.
StoppedNot(r) == r

\* syncer.Stop closes the channel its loop selects on.
Stopped(r) == IF syncers = Absent THEN r ELSE [r EXCEPT ![syncers].stopped = TRUE]

Return(again) ==
    /\ rec' = Idle
    /\ queued' = IF again THEN TRUE ELSE queued

\* The object is gone: everything kept under its name goes as well.
ReconcileGone ==
    /\ rec.pc = "idle" /\ queued /\ cache = Absent
    /\ queued' = FALSE
    /\ syncers' = Absent
    /\ routine' = Stopped(routine)
    /\ crons' = FALSE
    /\ ticking' = IF crons THEN ticking - 1 ELSE ticking
    /\ updateLabelsCache(Absent)
    /\ UNCHANGED <<stored, rec>>

ReconcileGet ==
    /\ rec.pc = "idle" /\ queued /\ cache # Absent
    /\ queued' = FALSE
    /\ rec' = [pc |-> "credentials", sa |-> cache, fresh |-> fresh]
    /\ updateLabelsCache(cache)
    /\ UNCHANGED <<stored, syncers, routine, crons, ticking>>

\* fetchCredentials: the key is read from the secret, not through the cache.
Credentials(sa) == IF sa.auth = "gcp-sa-key" THEN secret ELSE sa.auth

ReconcileCredentialsError ==
    /\ rec.pc = "credentials"
    /\ Return(TRUE)
    /\ Recorded(rec.sa.target)
    /\ UNCHANGED <<stored, syncers, routine, crons, ticking, labelsCache>>

\* Defect: a syncer is kept whatever credentials it has.
HasAnyCredentials == syncers # Absent

HasCredentials == syncers # Absent /\ routine[syncers].credentials = Credentials(rec.sa)

\* startSyncer, for a missing syncer or in place of one with other credentials.
ReconcileStartSyncer ==
    /\ rec.pc = "credentials" /\ Credentials(rec.sa) # Absent
    /\ ~HasCredentials
    /\ \E g \in Free :
        /\ syncers' = g
        /\ routine' = [Stopped(routine) EXCEPT ![g] =
             [pc |-> "idle", target |-> rec.sa.target, stopped |-> FALSE,
              credentials |-> Credentials(rec.sa)]]
    /\ Return(FALSE)
    /\ Recorded(rec.sa.target)
    /\ UNCHANGED <<stored, crons, ticking, labelsCache>>

\* No token source for the credentials, or no client.
ReconcileStartError ==
    /\ rec.pc = "credentials" /\ Credentials(rec.sa) # Absent
    /\ ~HasCredentials
    /\ syncers' = Absent
    /\ routine' = Stopped(routine)
    /\ Return(TRUE)
    /\ Recorded(rec.sa.target)
    /\ UNCHANGED <<stored, crons, ticking, labelsCache>>

\* With its syncer in place the object gets a cron for its schedules; addCronJob
\* may fail; the instance may have to be scaled, or just the status written.
ReconcileDecide ==
    /\ rec.pc = "credentials" /\ Credentials(rec.sa) # Absent
    /\ HasCredentials
    /\ crons' = (crons \/ rec.sa.schedules)
    /\ ticking' = IF ~crons /\ rec.sa.schedules THEN ticking + 1 ELSE ticking
    /\ \/ /\ Return(FALSE) \/ (rec.sa.schedules /\ Return(TRUE))
          /\ Recorded(rec.sa.target)
       \/ /\ rec.sa.from # Absent
          /\ \E pc \in {"update", "write"} : rec' = [rec EXCEPT !.pc = pc]
          /\ UNCHANGED <<queued, series>>
    /\ UNCHANGED <<stored, syncers, routine, labelsCache>>

\* syncer.UpdateInstance resizes the target of the syncer.
ReconcileUpdateInstance ==
    /\ rec.pc = "update"
    /\ \/ rec' = [rec EXCEPT !.pc = "write"] /\ UNCHANGED <<queued, series>>
       \/ Return(TRUE) /\ Recorded(rec.sa.target)
    /\ UNCHANGED <<stored, syncers, routine, crons, ticking, labelsCache>>

ReconcileWrite ==
    /\ rec.pc = "write"
    /\ \/ rec.fresh /\ Put(object) /\ Return(FALSE)
       \/ UNCHANGED <<object, cache, fresh>> /\ Return(TRUE)
    /\ Recorded(rec.sa.target)
    /\ UNCHANGED <<secret, changes, syncers, routine, crons, ticking, labelsCache>>

-----------------------------------------------------------------------------
(* Syncers                                                                 *)

At(g, pc) == routine' = [routine EXCEPT ![g].pc = pc]

\* The loop takes a pending tick even if it has been told to stop.
SyncStart(g) ==
    /\ routine[g].pc = "idle" /\ cache # Absent
    /\ At(g, "fetch")
    /\ UNCHANGED <<stored, queued, rec, syncers, crons, ticking, labelsCache, series>>

\* RecordMetricsFetch counts failed fetches as well.
SyncFetch(g) ==
    /\ routine[g].pc = "fetch"
    /\ At(g, "write") \/ At(g, "idle")
    /\ Recorded(routine[g].target)
    /\ UNCHANGED <<stored, queued, rec, syncers, crons, ticking, labelsCache>>

\* The object is found by its name, as are its spec and version.
SyncWrite(g) ==
    /\ routine[g].pc = "write"
    /\ fresh /\ cache # Absent
    /\ Put([object EXCEPT !.from = routine[g].target])
    /\ rec' = Outdated(rec)
    /\ At(g, "idle")
    /\ UNCHANGED <<secret, changes, queued, syncers, crons, ticking, labelsCache, series>>

\* The object is gone, the retries run out, or the call fails.
SyncError(g) ==
    /\ routine[g].pc = "write"
    /\ At(g, "idle")
    /\ UNCHANGED <<stored, queued, rec, syncers, crons, ticking, labelsCache, series>>

SyncerEnd(g) ==
    /\ routine[g].pc = "idle" /\ routine[g].stopped
    /\ routine' = [routine EXCEPT ![g] = Gone]
    /\ UNCHANGED <<stored, queued, rec, syncers, crons, ticking, labelsCache, series>>

-----------------------------------------------------------------------------

\* The controller stops and starts again; its informer lists what is there.
Restart ==
    /\ changes < MaxChanges
    /\ changes' = changes + 1
    /\ cache' = object /\ fresh' = TRUE
    /\ queued' = (object # Absent)
    /\ rec' = Idle
    /\ syncers' = Absent /\ routine' = [g \in Goroutines |-> Gone]
    /\ crons' = FALSE /\ ticking' = 0
    /\ labelsCache' = Absent /\ series' = {}
    /\ UNCHANGED <<object, secret>>

Init ==
    /\ object = Absent /\ cache = Absent /\ fresh = TRUE
    /\ secret \in Secrets
    /\ queued = FALSE
    /\ rec = Idle
    /\ syncers = Absent /\ routine = [g \in Goroutines |-> Gone]
    /\ crons = FALSE /\ ticking = 0
    /\ labelsCache = Absent /\ series = {}
    /\ changes = 0

Outside ==
    \/ CreateAutoscaler \/ DeleteAutoscaler \/ EditAuthentication
    \/ RegisterSchedule \/ ChangeSecret

Reconcile ==
    \/ ReconcileGone \/ ReconcileGet \/ ReconcileCredentialsError
    \/ ReconcileStartSyncer \/ ReconcileStartError \/ ReconcileDecide
    \/ ReconcileUpdateInstance \/ ReconcileWrite

SyncResource(g) == SyncFetch(g) \/ SyncWrite(g) \/ SyncError(g)

Next ==
    \/ Outside \/ Restart \/ CacheSync \/ Resync \/ Reconcile
    \/ \E g \in Goroutines : SyncStart(g) \/ SyncResource(g) \/ SyncerEnd(g)

\* The informer delivers what it has missed and resyncs; the work queue is
\* served; a sync ends, if by its timeout of one minute; credentials that can be
\* read are read, and a syncer started, at some of the retries.  A stopped
\* syncer's select finds, at some turn, nothing but the closed channel.
Fairness ==
    /\ WF_vars(CacheSync) /\ WF_vars(Resync) /\ WF_vars(Reconcile)
    /\ SF_vars(ReconcileStartSyncer)
    /\ \A g \in Goroutines : WF_vars(SyncResource(g)) /\ SF_vars(SyncerEnd(g))

Spec == Init /\ [][Next]_vars /\ Fairness

-----------------------------------------------------------------------------
(* Properties                                                              *)

Objects ==
    [target : Instances, auth : AuthTypes, schedules : BOOLEAN, from : Instances \cup {Absent}]

Held == [pc : {"credentials", "update", "write"}, sa : Objects, fresh : BOOLEAN]

Routines ==
    [pc : {"idle", "fetch", "write"}, target : Instances, stopped : BOOLEAN,
     credentials : Secrets \cup AuthTypes]

StoredTyped ==
    /\ object \in Objects \cup {Absent} /\ cache \in Objects \cup {Absent}
    /\ fresh \in BOOLEAN /\ (fresh => cache = object)
    /\ secret \in Secrets \cup {Absent}
    /\ changes \in 0 .. MaxChanges

RecTyped == rec \in Held \cup {Idle} /\ queued \in BOOLEAN

MemoryTyped ==
    /\ syncers \in Goroutines \cup {Absent}
    /\ routine \in [Goroutines -> Routines \cup {Gone}]
    /\ crons \in BOOLEAN /\ ticking \in Nat
    /\ labelsCache \in Instances \cup {Absent}
    /\ series \subseteq Instances

\* The shapes of the state; a copy with the stored version has the stored content.
TypeOK == StoredTyped /\ RecTyped /\ MemoryTyped

\* A syncer is registered until it is told to stop and no longer: none is
\* stopped twice, which would close its channel again, and none goes on
\* unregistered, which nobody could stop any more.  The same of crons.
RegisteredWhileRunning ==
    /\ \A g \in Goroutines : (routine[g] # Gone /\ ~routine[g].stopped) <=> g = syncers
    /\ ticking = IF crons THEN 1 ELSE 0

\* An object that stays is synced, in the end, with its present credentials,
\* even if the secret changed and nothing told the reconciler.
CredentialsAdopted ==
    \A c \in Secrets \cup AuthTypes :
        <>[](object # Absent /\ Credentials(object) = c) =>
            <>[](syncers # Absent /\ routine[syncers].credentials = c)

\* Once an object is gone for good, so are its syncers, also those that were in
\* the middle of a sync when they were replaced, its cron and its scheduler.
DeletedCleanedUp ==
    <>[](object = Absent) =>
        <>[](Free = Goroutines /\ ~crons /\ ticking = 0 /\ labelsCache = Absent)

\* "The Spanner instance which will be managed for autoscaling": the reconciler
\* resizes the instance that the object names, on what was measured there.
OwnInstanceScaled ==
    rec.pc = "update" => {routine[syncers].target, rec.sa.from} = {rec.sa.target}
=============================================================================
