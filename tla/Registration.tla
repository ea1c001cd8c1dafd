---------------------------- MODULE Registration ----------------------------
(***************************************************************************)
(* The life of SpannerAutoscaleSchedule objects and their registration     *)
(* with the SpannerAutoscaler they name: the reconciler of schedules adds  *)
(* a finalizer, puts the schedule's name into the autoscaler's status, and *)
(* takes it out before it lets a deleted schedule go.  The reconciler of   *)
(* the autoscaler turns the registered names into cron jobs.  Both read    *)
(* objects through informers that lag independently.                       *)
(*                                                                         *)
(* RetryOnConflict around a Get and an Update is one step that succeeds    *)
(* when its last Get was up to date, or an error when the retries run out. *)
(***************************************************************************)
EXTENDS Naturals, FiniteSets

CONSTANTS
    Names,         \* names of schedules, all with the same target
    MaxChanges,    \* bound: changes from outside, restarts included
    Absent         \* no object, no cron

ASSUME AbsentAssumption ==
    /\ \A d \in BOOLEAN, f \in BOOLEAN : Absent # [deleting |-> d, finalizer |-> f]
    /\ \A r \in SUBSET Names : Absent # r
ASSUME BoundAssumption == MaxChanges \in Nat

VARIABLES
    sa,        \* the autoscaler: its Status.Schedules, or Absent
    sas,       \* the schedules: [deleting, finalizer], or Absent
    seenSA,    \* the informers' copies of both
    seenSAS,
    freshSA,   \* the cached autoscaler has the stored version
    freshSAS,  \* the schedules of which the cached copy has the stored version
    queueSA,   \* the autoscaler's name is in its reconciler's queue
    queueSAS,  \* the work queue of the reconciler of schedules
    rec,       \* the reconciler of schedules: where it is and what it holds
    crons,     \* the jobs of the autoscaler's cron, or Absent
    changes    \* changes from outside so far

autoscaler == <<sa, seenSA, freshSA, queueSA>>
schedules == <<sas, seenSAS, freshSAS>>
vars == <<autoscaler, schedules, queueSAS, rec, crons, changes>>

Idle == [pc |-> "idle"]

-----------------------------------------------------------------------------
(* The API server and the informers                                        *)

PutSA(obj) ==
    /\ sa' = obj
    /\ freshSA' = FALSE
    /\ UNCHANGED seenSA

\* A write of a schedule outdates the cached copy and the one that is held.
PutSAS(n, obj) ==
    /\ sas' = [sas EXCEPT ![n] = obj]
    /\ freshSAS' = freshSAS \ {n}
    /\ UNCHANGED seenSAS

Outside == changes < MaxChanges /\ changes' = changes + 1

CreateAutoscaler ==
    /\ sa = Absent /\ Outside
    /\ PutSA({})
    /\ UNCHANGED <<queueSA, schedules, queueSAS, rec, crons>>

DeleteAutoscaler ==
    /\ sa # Absent /\ Outside
    /\ PutSA(Absent)
    /\ UNCHANGED <<queueSA, schedules, queueSAS, rec, crons>>

\* The syncer, the autoscaler's reconciler, jobs: a new version, other fields.
OtherWrite ==
    /\ sa # Absent /\ Outside
    /\ PutSA(sa)
    /\ UNCHANGED <<queueSA, schedules, queueSAS, rec, crons>>

Outdated(n) ==
    rec' = IF rec.pc # "idle" /\ rec.name = n THEN [rec EXCEPT !.fresh = FALSE] ELSE rec

CreateSchedule(n) ==
    /\ sas[n] = Absent /\ Outside
    /\ PutSAS(n, [deleting |-> FALSE, finalizer |-> FALSE])
    /\ Outdated(n)
    /\ UNCHANGED <<autoscaler, queueSAS, crons>>

\* An object with a finalizer is only marked.
DeleteSchedule(n) ==
    /\ sas[n] # Absent /\ ~sas[n].deleting /\ Outside
    /\ PutSAS(n, IF sas[n].finalizer THEN [sas[n] EXCEPT !.deleting = TRUE] ELSE Absent)
    /\ Outdated(n)
    /\ UNCHANGED <<autoscaler, queueSAS, crons>>

CacheSyncSA ==
    /\ ~freshSA
    /\ seenSA' = sa
    /\ freshSA' = TRUE
    /\ queueSA' = TRUE
    /\ UNCHANGED <<sa, schedules, queueSAS, rec, crons, changes>>

\* Both controllers watch schedules.
CacheSyncSAS(n) ==
    /\ n \notin freshSAS
    /\ seenSAS' = [seenSAS EXCEPT ![n] = sas[n]]
    /\ freshSAS' = freshSAS \cup {n}
    /\ queueSAS' = queueSAS \cup {n}
    /\ queueSA' = TRUE
    /\ UNCHANGED <<sa, seenSA, freshSA, sas, rec, crons, changes>>

\* The informers' periodic resync.
ResyncSA ==
    /\ seenSA # Absent /\ ~queueSA
    /\ queueSA' = TRUE
    /\ UNCHANGED <<sa, seenSA, freshSA, schedules, queueSAS, rec, crons, changes>>

ResyncSAS(n) ==
    /\ seenSAS[n] # Absent /\ n \notin queueSAS
    /\ queueSAS' = queueSAS \cup {n}
    /\ UNCHANGED <<autoscaler, schedules, rec, crons, changes>>

-----------------------------------------------------------------------------
(* SpannerAutoscaleScheduleReconciler                                      *)

Return ==
    /\ rec' = Idle
    /\ UNCHANGED queueSAS

ReturnError ==
    /\ rec' = Idle
    /\ queueSAS' = queueSAS \cup {rec.name}

ScheduleGet(n) ==
    /\ rec.pc = "idle" /\ n \in queueSAS
    /\ queueSAS' = queueSAS \ {n}
    /\ rec' = IF seenSAS[n] = Absent THEN Idle
              ELSE [pc |-> IF seenSAS[n].deleting \/ seenSAS[n].finalizer
                             THEN "target" ELSE "finalize",
                    name |-> n, sas |-> seenSAS[n], fresh |-> n \in freshSAS]
    /\ UNCHANGED <<autoscaler, schedules, crons, changes>>

\* Defect: the finalizer is left to a later update.
AddFinalizerNot ==
    /\ rec.pc = "finalize"
    /\ rec' = [rec EXCEPT !.pc = "target"]
    /\ UNCHANGED <<autoscaler, schedules, queueSAS, crons, changes>>

AddFinalizer ==
    /\ rec.pc = "finalize" /\ rec.fresh
    /\ LET obj == [rec.sas EXCEPT !.finalizer = TRUE]
       IN  /\ PutSAS(rec.name, obj)
           /\ rec' = [rec EXCEPT !.pc = "target", !.sas = obj]
    /\ UNCHANGED <<autoscaler, queueSAS, crons, changes>>

\* Defect: a match of any name is a match.
FoundAny(array, item) == array # {}

findInArray(array, item) == item \in array

\* Defect: the finalizer waits for the autoscaler.
CleanUpAlways(listed) == "unregister"

\* If "any autoscaler resource" was found, with any schedule, it is updated.
CleanUp(listed) == IF listed # {} THEN "unregister" ELSE "release"

\* The cached autoscaler decides what is left to do.
ScheduleTarget ==
    /\ rec.pc = "target"
    /\ LET goto(pc) == rec' = [rec EXCEPT !.pc = pc] /\ UNCHANGED queueSAS
           listed == IF seenSA = Absent THEN {} ELSE seenSA
       IN  \/ rec.sas.deleting /\ ~rec.sas.finalizer /\ Return
           \/ rec.sas.deleting /\ rec.sas.finalizer
              /\ goto(CleanUp(listed))
           \/ ~rec.sas.deleting /\ seenSA = Absent /\ ReturnError
           \/ ~rec.sas.deleting /\ seenSA # Absent
              /\ IF findInArray(listed, rec.name) THEN Return ELSE goto("register")
    /\ UNCHANGED <<autoscaler, schedules, crons, changes>>

\* Defect: the update is sent whatever version it is based on.
UnregisterStale ==
    /\ rec.pc = "unregister" /\ seenSA # Absent /\ sa # Absent
    /\ PutSA(seenSA \ {rec.name})
    /\ rec' = [rec EXCEPT !.pc = "release"]
    /\ UNCHANGED <<queueSA, schedules, queueSAS, crons, changes>>

Unregister ==
    /\ rec.pc = "unregister" /\ freshSA /\ seenSA # Absent
    /\ PutSA(seenSA \ {rec.name})
    /\ rec' = [rec EXCEPT !.pc = "release"]
    /\ UNCHANGED <<queueSA, schedules, queueSAS, crons, changes>>

\* With its last finalizer the deleted object goes.
RemoveFinalizer ==
    /\ rec.pc = "release" /\ rec.fresh
    /\ PutSAS(rec.name, Absent)
    /\ Return
    /\ UNCHANGED <<autoscaler, crons, changes>>

Register ==
    /\ rec.pc = "register" /\ seenSA # Absent
    /\ IF findInArray(seenSA, rec.name)
         THEN UNCHANGED <<sa, seenSA, freshSA>>
         ELSE freshSA /\ PutSA(seenSA \cup {rec.name})
    /\ Return
    /\ UNCHANGED <<queueSA, schedules, crons, changes>>

\* A conflict to the last retry, an object that is gone, or any other failure.
ScheduleError ==
    /\ rec.pc \in {"finalize", "unregister", "release", "register"}
    /\ ReturnError
    /\ UNCHANGED <<autoscaler, schedules, crons, changes>>

-----------------------------------------------------------------------------
(* SpannerAutoscalerReconciler: crons follow the registered names          *)

\* Defect: jobs of names that are no longer registered stay.
CronsKept(listed) == IF crons = Absent THEN listed ELSE crons \cup listed

\* addCronJob and pruneCronJobs
CronsFor(listed) == IF crons = Absent /\ listed = {} THEN Absent ELSE listed

Missing == {n \in seenSA : seenSAS[n] = Absent}

ReconcileCrons ==
    /\ queueSA
    /\ queueSA' = FALSE
    /\ \/ seenSA = Absent /\ crons' = Absent
       \/ seenSA # Absent /\ Missing = {} /\ crons' = CronsFor(seenSA)
    /\ UNCHANGED <<sa, seenSA, freshSA, schedules, queueSAS, rec, changes>>

\* addCronJob fails at the first name it cannot find, and Reconcile with it.
ReconcileCronsError ==
    /\ queueSA /\ seenSA # Absent /\ Missing # {}
    /\ \E added \in SUBSET (seenSA \ Missing) :
        crons' = (IF crons = Absent THEN {} ELSE crons) \cup added
    /\ UNCHANGED <<autoscaler, schedules, queueSAS, rec, changes>>

-----------------------------------------------------------------------------

Restart ==
    /\ Outside
    /\ seenSA' = sa /\ freshSA' = TRUE
    /\ seenSAS' = sas /\ freshSAS' = Names
    /\ queueSA' = (sa # Absent)
    /\ queueSAS' = {n \in Names : sas[n] # Absent}
    /\ rec' = Idle
    /\ crons' = Absent
    /\ UNCHANGED <<sa, sas>>

\* The controller starts with what an earlier one left: registered schedules.
Init ==
    /\ sa \in (SUBSET Names) \cup {Absent} /\ seenSA = sa /\ freshSA = TRUE
    /\ sas = [n \in Names |-> IF sa # Absent /\ n \in sa
                                THEN [deleting |-> FALSE, finalizer |-> TRUE] ELSE Absent]
    /\ seenSAS = sas /\ freshSAS = Names
    /\ queueSA = (sa # Absent) /\ queueSAS = {n \in Names : sas[n] # Absent}
    /\ rec = Idle
    /\ crons = Absent
    /\ changes = 0

ReconcileSchedule ==
    \/ \E n \in Names : ScheduleGet(n)
    \/ AddFinalizer \/ ScheduleTarget \/ Unregister \/ RemoveFinalizer
    \/ Register \/ ScheduleError

Next ==
    \/ CreateAutoscaler \/ DeleteAutoscaler \/ OtherWrite \/ Restart
    \/ CacheSyncSA \/ ResyncSA
    \/ \E n \in Names : CreateSchedule(n) \/ DeleteSchedule(n)
                        \/ CacheSyncSAS(n) \/ ResyncSAS(n)
    \/ ReconcileSchedule \/ ReconcileCrons \/ ReconcileCronsError

\* The informers deliver what they have missed and resync; the work queues are
\* served, each name in its turn; an update that is repeated goes through at some time.
Fairness ==
    /\ WF_vars(CacheSyncSA) /\ WF_vars(ResyncSA)
    /\ WF_vars(ReconcileCrons) /\ WF_vars(ReconcileCronsError)
    /\ WF_vars(ReconcileSchedule)
    /\ SF_vars(AddFinalizer) /\ SF_vars(Unregister)
    /\ SF_vars(RemoveFinalizer) /\ SF_vars(Register)
    /\ \A n \in Names :
        WF_vars(CacheSyncSAS(n)) /\ WF_vars(ResyncSAS(n)) /\ SF_vars(ScheduleGet(n))

Spec == Init /\ [][Next]_vars /\ Fairness

-----------------------------------------------------------------------------
(* Properties                                                              *)

Objects == [deleting : BOOLEAN, finalizer : BOOLEAN]

Held == [pc : {"finalize", "target", "unregister", "release", "register"},
         name : Names, sas : Objects, fresh : BOOLEAN]

AutoscalerTyped ==
    /\ sa \in (SUBSET Names) \cup {Absent} /\ seenSA \in (SUBSET Names) \cup {Absent}
    /\ freshSA \in BOOLEAN /\ (freshSA => seenSA = sa)
    /\ queueSA \in BOOLEAN

SchedulesTyped ==
    /\ sas \in [Names -> Objects \cup {Absent}] /\ seenSAS \in [Names -> Objects \cup {Absent}]
    /\ freshSAS \subseteq Names /\ \A n \in freshSAS : seenSAS[n] = sas[n]
    /\ \A n \in Names : sas[n] # Absent /\ sas[n].deleting => sas[n].finalizer

RecTyped ==
    /\ queueSAS \subseteq Names
    /\ rec \in Held \cup {Idle}
    /\ rec \in Held /\ rec.fresh => rec.sas = sas[rec.name]

\* The shapes of the state; a copy with the stored version has the stored
\* content, and a schedule that is being deleted still has its finalizer.
TypeOK ==
    /\ AutoscalerTyped /\ SchedulesTyped /\ RecTyped
    /\ crons \in (SUBSET Names) \cup {Absent}
    /\ changes \in 0 .. MaxChanges

\* A name is registered only while its schedule has the finalizer that will
\* have it unregistered, whatever happened to the schedule since it was read.
Protected ==
    \A n \in Names :
        sa # Absent /\ sa' # Absent /\ n \in sa' \ sa => sas[n] # Absent /\ sas[n].finalizer

RegisteredProtected == [][Protected]_vars

\* Registering or unregistering one schedule leaves the others registered as
\* they are, though each update writes the whole list.
OthersKept ==
    \A n \in Names :
        sa # Absent /\ sa' # Absent /\ (n \in sa) # (n \in sa') =>
            rec.pc # "idle" /\ rec.name = n

RegistrationsIndependent == [][OthersKept]_vars

\* A schedule that stays, with an autoscaler that stays, is registered in the
\* end: also if the autoscaler came later or was deleted and created again.
RegisteredInTheEnd ==
    \A n \in Names :
        <>[](sa # Absent /\ sas[n] # Absent /\ ~sas[n].deleting) =>
            <>[](sa # Absent /\ n \in sa)

\* A schedule that is deleted goes: the finalizer does not hold it back for
\* ever, whether its autoscaler exists, is gone or is written all the time.
DeletionCompletes ==
    \A n \in Names : (sas[n] # Absent /\ sas[n].deleting) ~> (sas[n] = Absent)

\* The jobs of the cron become the registered schedules, as long as those exist.
JobsFollow ==
    <>[](sa # Absent /\ \A n \in sa : sas[n] # Absent) =>
        <>[](crons = sa \/ (sa = {} /\ crons = Absent))

\* "remove the schedule from the autoscaler list": no name stays registered when
\* its schedule has gone.
NoDanglingName == sa # Absent => \A n \in sa : sas[n] # Absent
=============================================================================
