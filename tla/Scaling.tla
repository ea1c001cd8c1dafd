------------------------------- MODULE Scaling -------------------------------
(***************************************************************************)
(* The scaling decisions of internal/scaling, shared by the controller's   *)
(* reconcile loop and by the simulator: step sizes, the processing units   *)
(* (PU) a CPU reading calls for, the range that active schedules leave,    *)
(* cooldowns and scale-down windows.  Everything here is a pure operator.  *)
(*                                                                         *)
(* Data abstractions.                                                      *)
(*  - A CPU metric is a member of CPUMetrics.  The optional targets        *)
(*    spec.targetCPUUtilization.{highPriority,total} are one function      *)
(*    spec.target whose domain is the set of configured metrics, and       *)
(*    status.currentCPUMetricType is the set of metrics the last sync read *)
(*    ({} stands for the empty type, the pair for "Both").                 *)
(*  - An int-or-percent step size is a record [kind, val]; kind "bad" is a *)
(*    string that is no percentage, "nil" an absent pointer.               *)
(*  - Time counts minutes and ZeroTime is Go's zero time.  A cron          *)
(*    expression is the set of minutes it matches, an unparsable one is    *)
(*    the empty set.                                                       *)
(***************************************************************************)
EXTENDS Integers, FiniteSetsExt

CPUMetrics == {"highPriority", "total"}

ZeroTime == 0

\* What Cloud Spanner accepts as a number of processing units.
ValidPU(pu) ==
    /\ pu > 0
    /\ pu < 1000 => pu % 100 = 0
    /\ pu >= 1000 => pu % 1000 = 0

-----------------------------------------------------------------------------
(* Step sizes: stepsize.go                                                 *)

Steps == [kind : {"int", "percent", "bad", "nil"}, val : Nat]

\* intstr.GetScaledValueFromIntOrPercent(s, basePU, roundUp = false)
ScaledValue(s, basePU) ==
    IF s.kind = "percent" THEN (s.val * basePU) \div 100 ELSE s.val

RoundDown(size) ==
    IF size < 1000 THEN (size \div 100) * 100 ELSE (size \div 1000) * 1000

RequestedStep(s, basePU) ==
    RoundDown(IF s.kind = "nil" THEN 0 ELSE ScaledValue(s, basePU))

ResolveScaledownStep(s, basePU) ==
    LET size == RequestedStep(s, basePU) IN
    IF s.kind = "bad" THEN 2000
    ELSE IF size < 1000 /\ basePU > 1000 THEN 1000
    ELSE IF size < 100 /\ basePU <= 1000 THEN 100
    ELSE size

\* Scale-up keeps 0, which callers read as "no cap".
ResolveScaleupStep(s, basePU) ==
    LET size == RequestedStep(s, basePU) IN
    IF s.kind = "bad" THEN 0
    ELSE IF size # 0 /\ size < 1000 /\ basePU + size > 1000 THEN 1000
    ELSE IF size # 0 /\ size < 100 /\ basePU + size <= 1000 THEN 100
    ELSE size

\* Defect: the interval is not waited for.
NextRampUnpaced(current, target, up, down, lastScaleTime, now) ==
    LET ramp == IF target > current THEN up ELSE down
        next == IF target > current
                  THEN Min({current + ResolveScaleupStep(ramp.step, current), target})
                  ELSE Max({current - ResolveScaledownStep(ramp.step, current), target})
    IN  [pu |-> IF ramp.step.kind = "nil" THEN target ELSE next, wait |-> ramp.interval]

\* One ramp step of a manual override.  up and down are [step, interval],
\* with interval already defaulted; wait is the requeue delay.
NextRampPU(current, target, up, down, lastScaleTime, now) ==
    LET ramp == IF target > current THEN up ELSE down
        size == IF target > current
                  THEN ResolveScaleupStep(ramp.step, current)
                  ELSE ResolveScaledownStep(ramp.step, current)
        cooling == /\ lastScaleTime # ZeroTime
                   /\ ramp.interval > 0
                   /\ now - lastScaleTime < ramp.interval
        next == IF size <= 0 THEN target
                ELSE IF target > current
                  THEN IF current + size < target THEN current + size ELSE target
                  ELSE IF current - size > target THEN current - size ELSE target
    IN  IF current = target \/ ramp.step.kind = "nil" THEN [pu |-> target, wait |-> 0]
        ELSE IF cooling
          THEN [pu |-> current, wait |-> ramp.interval - (now - lastScaleTime)]
        ELSE [pu |-> next, wait |-> ramp.interval]

-----------------------------------------------------------------------------
(* Configurations: the shape admission guarantees                          *)

SpecTyped(s) ==
    /\ s.min \in Nat /\ s.max \in Nat
    /\ s.scaledownStep \in Steps /\ s.scaleupStep \in Steps
    /\ s.scaledownInterval \in Nat /\ s.scaleupInterval \in Nat
    /\ DOMAIN s.target \subseteq CPUMetrics /\ DOMAIN s.target # {}
    /\ s.target \in [DOMAIN s.target -> Nat \ {0}]

-----------------------------------------------------------------------------
(* Desired processing units: scaling.go                                    *)

\* The next valid PU strictly above what the workload requires.
NextValidPU(required) ==
    IF required < 1000 THEN (required \div 100 + 1) * 100
                       ELSE (required \div 1000 + 1) * 1000

\* Defect: the sum is used as it is.
NoRoundUp(pu) == pu

RoundUpThousand(pu) ==
    IF pu > 1000 /\ pu % 1000 # 0 THEN (pu \div 1000 + 1) * 1000 ELSE pu

\* Defect: the schedules do not raise the minimum.
SpecMin(spec, status) == spec.min

\* The spec's bound, replaced by the schedule-adjusted one once published.
EffectiveMin(spec, status) ==
    IF status.desiredMin > 0 THEN status.desiredMin ELSE spec.min
EffectiveMax(spec, status) ==
    IF status.desiredMax > 0 THEN status.desiredMax ELSE spec.max

\* Defect: the scale-down step is not applied.
StepLimitedUpOnly(desired, spec, status) ==
    LET suStep == ResolveScaleupStep(spec.scaleupStep, status.current) IN
    IF suStep # 0 /\ status.current + suStep < desired
      THEN RoundUpThousand(status.current + suStep) ELSE desired

StepLimited(desired, spec, status) ==
    LET floor  == status.current - ResolveScaledownStep(spec.scaledownStep, status.current)
        suStep == ResolveScaleupStep(spec.scaleupStep, status.current)
        kept   == IF desired < floor THEN floor ELSE desired
    IN  IF suStep # 0 /\ status.current + suStep < kept
          THEN RoundUpThousand(status.current + suStep)
          ELSE kept

Clamped(desired, lo, hi) ==
    LET raised == IF desired < lo THEN lo ELSE desired
    IN  IF raised > hi THEN hi ELSE raised

DesiredPUFromCPU(currentCPU, targetCPU, spec, status) ==
    IF targetCPU = 0 THEN status.current
    ELSE Clamped(StepLimited(NextValidPU((currentCPU * status.current) \div targetCPU),
                             spec, status),
                 EffectiveMin(spec, status), EffectiveMax(spec, status))

\* Defect: the smallest vote wins.
DesiredByEasiest(spec, status) ==
    Min({DesiredPUFromCPU(status.cpu[m], spec.target[m], spec, status) :
            m \in DOMAIN spec.target})

\* Defect: the metric type of the status is not looked at.
DesiredOnAnyStatus(spec, status) ==
    Max({DesiredPUFromCPU(status.cpu[m], spec.target[m], spec, status) :
            m \in DOMAIN spec.target})

\* Hold the current PU until the status was synced for exactly the metrics
\* the spec configures; otherwise every configured metric votes and the
\* largest vote wins.
DesiredProcessingUnits(spec, status) ==
    LET flags == DOMAIN spec.target IN
    IF flags = {} \/ status.metricType # flags THEN status.current
    ELSE Max({DesiredPUFromCPU(status.cpu[m], spec.target[m], spec, status) : m \in flags})

\* active maps the name of an active schedule to [additionalPU, policy, endTime].
AdditionalMin(active) == SumFunction([n \in DOMAIN active |-> active[n].additionalPU])
AdditionalMax(active) ==
    SumFunction([n \in {m \in DOMAIN active : active[m].policy = "Exceed"} |->
                    active[n].additionalPU])

\* The loop over the active schedules is given by its two sums.
DesiredPURange(spec, addMin, addMax) ==
    LET lo == RoundUpThousand(spec.min + addMin)
        hi == RoundUpThousand(spec.max + addMax)
    IN  [min |-> IF lo > hi THEN hi ELSE lo, max |-> hi, capped |-> lo > hi]

-----------------------------------------------------------------------------
(* Cooldowns and windows: Decide                                           *)

isTimeInCronSchedules(crons, now) == \E c \in crons : now \in c

\* Both lists set is a configuration error, and no scale-down either.
IsScaledownAllowed(allowedTimes, notAllowedTimes, now) ==
    /\ allowedTimes = {} \/ notAllowedTimes = {}
    /\ allowedTimes # {} => isTimeInCronSchedules(allowedTimes, now)
    /\ notAllowedTimes # {} => ~isTimeInCronSchedules(notAllowedTimes, now)

\* Defect: the interval is one minute short.
CoolingDownShort(lastScaleTime, interval, now) ==
    lastScaleTime # ZeroTime /\ now + 1 < lastScaleTime + interval

CoolingDown(lastScaleTime, interval, now) ==
    lastScaleTime # ZeroTime /\ now < lastScaleTime + interval

Decide(spec, status, desired, now) ==
    IF desired = status.current THEN "SkipSame"
    ELSE IF desired > status.current
      THEN IF CoolingDown(status.lastScaleTime, spec.scaleupInterval, now)
             THEN "SkipScaleUpInterval" ELSE "Scale"
    ELSE IF CoolingDown(status.lastScaleTime, spec.scaledownInterval, now)
      THEN "SkipScaleDownInterval"
    ELSE IF IsScaledownAllowed(spec.scaledownAllowedTimes, spec.scaledownNotAllowedTimes, now)
      THEN "Scale" ELSE "SkipScaleDownWindow"
=============================================================================
