------------------------------ MODULE Resource ------------------------------
(***************************************************************************)
(* The SpannerAutoscaler object: its specification, its status, and what   *)
(* each of its writers computes from one version of it.                    *)
(*                                                                         *)
(*   reconciler   Planned    active (prune only), desired, desiredMin,     *)
(*                           desiredMax, lastScaleTime                     *)
(*   syncer       Measured   current, ready, cpu, metricType               *)
(*   schedules    Activated, Expired   active                              *)
(*                Registered, Unregistered   schedules                     *)
(*                                                                         *)
(* No SpannerManualScaling targets the autoscaler here, so the reconciler  *)
(* always takes the CPU path.  lastSyncTime is written and never read.     *)
(***************************************************************************)
EXTENDS Scaling

CONSTANTS
    Specs,      \* scale configurations the user may apply
    Schedules,  \* schedule name -> [duration, additionalPU, policy]
    CPUReadings \* what the monitoring API may report, in percent

ASSUME ReadingsAssumption == CPUReadings \subseteq Nat

Names == DOMAIN Schedules

ASSUME SpecsAssumption == \A s \in Specs : SpecTyped(s)

\* The range of every configuration is one that Cloud Spanner accepts.
ASSUME RangeAssumption == \A s \in Specs : ValidPU(s.min) /\ ValidPU(s.max)

Amounts == {Schedules[n].additionalPU : n \in Names} \cup {0}

ASSUME SchedulesAssumption ==
    \A n \in Names : /\ Schedules[n].duration \in Nat
                     /\ Schedules[n].additionalPU \in Nat
                     /\ Schedules[n].policy \in {"Exceed", "Cap"}

\* Sums of whole hundreds are whole hundreds.  Stated, because what a fold
\* computes is beyond the provers' induction.
ASSUME SumsAssumption ==
    \A S \in SUBSET Names : \A f \in [S -> Amounts] :
        SumFunction(f) \in Nat /\ SumFunction(f) % 100 = 0

\* CurrentlyActiveSchedules, by schedule name; Job.Run keeps one entry per name.
Entries == [additionalPU : Amounts, policy : {"Exceed", "Cap"}, endTime : Nat]
NotActive == [additionalPU |-> 0, policy |-> "Exceed", endTime |-> ZeroTime]

Statuses ==
    [current : Nat, ready : BOOLEAN, cpu : [CPUMetrics -> Nat],
     metricType : SUBSET CPUMetrics, schedules : SUBSET Names, active : [Names -> Entries],
     desired : Nat, desiredMin : Nat, desiredMax : Nat, lastScaleTime : Nat]

Readings ==
    [pu : Nat, ready : BOOLEAN, cpu : [CPUMetrics -> Nat], flags : SUBSET CPUMetrics]

-----------------------------------------------------------------------------
(* Reconciler                                                              *)

Only(active, S) == [n \in Names |-> IF n \in S THEN active[n] ELSE NotActive]

\* pruneActiveSchedules
Pruned(status) == [status EXCEPT !.active = Only(@, status.schedules)]

calcDesiredPURange(spec, status) ==
    DesiredPURange(spec, AdditionalMin(status.active), AdditionalMax(status.active))

Ranged(spec, status) ==
    LET range == calcDesiredPURange(spec, status) IN
    [status EXCEPT !.desiredMin = range.min, !.desiredMax = range.max]

\* The status the decision is taken on.
Considered(spec, status) == Ranged(spec, Pruned(status))

\* The early returns: nothing is decided, nothing is written.
Decidable(status) == status.ready /\ status.current # 0

DesiredPU(spec, status) == DesiredProcessingUnits(spec, Considered(spec, status))

needUpdateProcessingUnits(spec, status, t) ==
    Decide(spec, Considered(spec, status), DesiredPU(spec, status), t) = "Scale"

statusChanged(spec, status, t) ==
    \/ Considered(spec, status) # status
    \/ needUpdateProcessingUnits(spec, status, t)

\* What a reconcile at time t that reaches its end writes back.
Planned(spec, status, t) ==
    [Considered(spec, status) EXCEPT
        !.desired = DesiredPU(spec, status),
        !.lastScaleTime = IF needUpdateProcessingUnits(spec, status, t) THEN t ELSE @]

-----------------------------------------------------------------------------
(* Syncer and schedules                                                    *)

\* The metrics of flags were read, the others are zero.
CPURead(cpu, flags) ==
    \A m \in CPUMetrics : cpu[m] \in IF m \in flags THEN CPUReadings ELSE {0}

\* Defect: the metric type is not updated with the metrics.
MeasuredUntyped(status, reading) ==
    [status EXCEPT !.current = reading.pu, !.ready = reading.ready, !.cpu = reading.cpu]

Measured(status, reading) ==
    [status EXCEPT !.current = reading.pu, !.ready = reading.ready,
                   !.cpu = reading.cpu, !.metricType = reading.flags]

Published(status) ==
    [pu |-> status.current, ready |-> status.ready,
     cpu |-> status.cpu, flags |-> status.metricType]

\* Job.Run goes on after a failed read of its schedule, with a zero one.
NoSchedule == [duration |-> 0, additionalPU |-> 0, policy |-> "Exceed"]

Activated(status, n, sas, t) ==
    LET entry == [additionalPU |-> sas.additionalPU, policy |-> sas.policy,
                  endTime |-> t + sas.duration] IN
    [status EXCEPT !.active[n] = entry]

\* Defect: a schedule ends at the minute of its end.
ExpiredEarly(status, t) ==
    {n \in Names : status.active[n] # NotActive /\ status.active[n].endTime <= t}

ExpiredAt(status, t) ==
    {n \in Names : status.active[n] # NotActive /\ status.active[n].endTime < t}

\* cleanupActiveSchedules
Expired(status, t) ==
    [status EXCEPT !.active = Only(@, Names \ ExpiredAt(status, t))]

Registered(status, n) == [status EXCEPT !.schedules = @ \cup {n}]
Unregistered(status, n) == [status EXCEPT !.schedules = @ \ {n}]

-----------------------------------------------------------------------------

NewStatus ==
    [current |-> 0, ready |-> FALSE, cpu |-> [m \in CPUMetrics |-> 0], metricType |-> {},
     schedules |-> {}, active |-> [n \in Names |-> NotActive],
     desired |-> 0, desiredMin |-> 0, desiredMax |-> 0, lastScaleTime |-> ZeroTime]

\* One run of each writer as a relation between two statuses.  A reconcile may
\* record a time that has passed: it reads the clock before it calls the Cloud
\* Spanner API.
ReconcileOf(spec, old, new, now) ==
    /\ Decidable(old)
    /\ \E t \in 1 .. now : statusChanged(spec, old, t) /\ new = Planned(spec, old, t)

\* A sync reads each of a set of metrics and zeroes the others.
SyncOf(old, new) ==
    /\ new = Measured(old, Published(new))
    /\ CPURead(new.cpu, new.metricType)

ScheduleOf(old, new, now) ==
    \/ \E n \in Names, sas \in {Schedules[m] : m \in Names} \cup {NoSchedule} :
          new = Activated(old, n, sas, now)
    \/ ExpiredAt(old, now) # {} /\ new = Expired(old, now)
    \/ \E n \in Names : new \in {Registered(old, n), Unregistered(old, n)}

\* What every stored status satisfies beyond its type: a known size is a valid
\* one, and the CPU load is a reading of exactly the metrics of the recorded type.
StatusSound(status) ==
    /\ status.current # 0 => ValidPU(status.current)
    /\ CPURead(status.cpu, status.metricType)
=============================================================================
