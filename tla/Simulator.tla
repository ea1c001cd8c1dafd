------------------------------ MODULE Simulator ------------------------------
(***************************************************************************)
(* internal/simulator: the trace-driven replay of recorded metric points   *)
(* against a SpannerAutoscaler configuration.  One ReplayTick is one       *)
(* iteration of the loop in Run.  The recorded trace is chosen step by     *)
(* step: the next point's data from Points, the distance in minutes to the *)
(* point after it from Gaps.  The decision logic is that of Scaling, which *)
(* is also the controller's.                                               *)
(*                                                                         *)
(* The aggregator keeps the minute counters; PU-hours, CPU percentiles and *)
(* the counters over result.Events are sums that no property here is       *)
(* about.                                                                  *)
(***************************************************************************)
EXTENDS Scaling

CONSTANTS
    Specs,       \* candidate scale configurations, one per run
    Schedules,   \* schedule name -> [fires, duration, additionalPU, policy]
    Points,      \* recorded points [pu, cpu]; DOMAIN cpu is what was recorded
    Gaps,        \* minutes between two consecutive points
    InitialPUs,  \* possible initial sizes of the simulated instance
    MaxTime      \* bound: the trace ends at or before this minute

Start == 1

ASSUME PointsAssumption ==
    \A p \in Points : /\ p.pu \in Nat /\ DOMAIN p.cpu \subseteq CPUMetrics
                      /\ \A m \in DOMAIN p.cpu : p.cpu[m] \in Nat
ASSUME GapsAssumption == Gaps \subseteq Nat /\ MaxTime \in Nat /\ MaxTime >= Start
\* What admission guarantees of a configuration with a minimum.
ASSUME SpecsAssumption ==
    \A s \in Specs : SpecTyped(s) /\ ValidPU(s.min) /\ ValidPU(s.max)
\* Schedules add whole hundreds, and so does every sum of them.  Stated, because
\* what a fold computes is beyond the provers' induction.
ASSUME SumsAssumption ==
    \A S \in SUBSET DOMAIN Schedules :
        LET sum == SumFunction([n \in S |-> Schedules[n].additionalPU]) IN
        sum \in Nat /\ sum % 100 = 0
\* With both lists set, Run stops with an error at the first scale-down.
ASSUME WindowsAssumption ==
    \A s \in Specs : s.scaledownAllowedTimes = {} \/ s.scaledownNotAllowedTimes = {}
\* A recorded size, or one given on the command line that an instance can have.
ASSUME InitialAssumption == \A pu \in InitialPUs : pu \in Nat /\ ValidPU(pu)

VARIABLES
    spec,           \* the configuration being replayed
    now,            \* time of the next point
    prevTick,       \* time of the point replayed last
    simPU,          \* processing units of the simulated instance
    lastScaleTime,  \* sa.Status.LastScaleTime
    active,         \* currently active schedules, by name
    agg,            \* the aggregator's minute counters
    last,           \* the decision of the last tick, with what it was based on
    done            \* the trace is exhausted

vars == <<spec, now, prevTick, simPU, lastScaleTime, active, agg, last, done>>

\* Defect: the last point reuses the previous gap.
PreviousGap == now - prevTick

\* tickDuration for the last point of the trace
LastTickDuration == Min({now - prevTick, 1})

-----------------------------------------------------------------------------
(* Schedules                                                               *)

Fires(n, from, to) == {f \in Schedules[n].fires : from < f /\ f <= to}

Entry(n, fire) ==
    [additionalPU |-> Schedules[n].additionalPU,
     policy       |-> Schedules[n].policy,
     endTime      |-> fire + Schedules[n].duration]

\* Defect: a fire activates although its window has ended.
fireSchedulesLate(prev) ==
    LET kept  == {n \in DOMAIN active : active[n].endTime >= now}
        fired == {n \in DOMAIN Schedules : Fires(n, prev, now) # {}}
    IN  [n \in kept \cup fired |->
            IF n \in fired THEN Entry(n, Max(Fires(n, prev, now))) ELSE active[n]]

\* Drop what ended before now, then activate every schedule whose latest fire
\* in (prev, now] still covers now.
fireSchedules(prev) ==
    LET kept  == {n \in DOMAIN active : active[n].endTime >= now}
        fired == {n \in DOMAIN Schedules :
                    /\ Fires(n, prev, now) # {}
                    /\ Entry(n, Max(Fires(n, prev, now))).endTime >= now}
    IN  [n \in kept \cup fired |->
            IF n \in fired THEN Entry(n, Max(Fires(n, prev, now))) ELSE active[n]]

-----------------------------------------------------------------------------
(* One point                                                               *)

\* The metrics the configuration needs were recorded at this point.
HasData(p) == p.pu > 0 /\ DOMAIN spec.target \subseteq DOMAIN p.cpu

\* setStatusCPU: the workload cpu * pu spread over simPU, as integer percent
SimulatedCPU(p) ==
    [m \in CPUMetrics |->
        IF m \in DOMAIN spec.target THEN (p.cpu[m] * p.pu) \div simPU ELSE 0]

Exceeded(p) ==
    \E m \in DOMAIN spec.target : p.cpu[m] * p.pu > spec.target[m] * simPU

\* The part of sa that the tick feeds into the scaling package.
TickStatus(p, act) ==
    LET range == DesiredPURange(spec, AdditionalMin(act), AdditionalMax(act)) IN
    [current |-> simPU, cpu |-> SimulatedCPU(p), metricType |-> DOMAIN spec.target,
     desiredMin |-> range.min, desiredMax |-> range.max,
     lastScaleTime |-> lastScaleTime]

\* At most one minute of dt belongs to this point, the rest is a gap.
Covered(dt) == Min({dt, 1})

Decided(p, dt, act) ==
    LET status   == TickStatus(p, act)
        desired  == DesiredProcessingUnits(spec, status)
        decision == Decide(spec, status, desired, now)
        pu       == IF decision = "Scale" THEN desired ELSE simPU
        minutes(b) == IF b THEN Covered(dt) ELSE 0
    IN  /\ simPU' = pu
        /\ lastScaleTime' = IF decision = "Scale" THEN now ELSE lastScaleTime
        /\ last' = [decision |-> decision, from |-> simPU, time |-> now,
                    min |-> status.desiredMin, max |-> status.desiredMax,
                    below |-> \A m \in DOMAIN spec.target : status.cpu[m] < spec.target[m]]
        /\ agg' = [total  |-> agg.total + Covered(dt),
                   gap    |-> agg.gap + (dt - Covered(dt)),
                   exceeded |-> agg.exceeded + minutes(Exceeded(p)),
                   exceededAtMin |-> agg.exceededAtMin
                       + minutes(Exceeded(p) /\ simPU <= status.desiredMin),
                   pinned |-> agg.pinned + minutes(pu <= status.desiredMin)]

\* Missing data: hold the PU, take no decision.
Skipped(dt) ==
    /\ last' = [last EXCEPT !.decision = "Gap"]
    /\ agg' = [agg EXCEPT !.total = @ + Covered(dt), !.gap = @ + dt]
    /\ UNCHANGED <<simPU, lastScaleTime>>

Replay(p, dt) ==
    /\ ~done
    /\ active' = fireSchedules(prevTick)
    /\ prevTick' = now
    /\ \/ HasData(p) /\ Decided(p, dt, active')
       \/ ~HasData(p) /\ Skipped(dt)
    /\ UNCHANGED spec

-----------------------------------------------------------------------------

Init ==
    /\ spec \in Specs
    /\ simPU \in InitialPUs
    /\ now = Start
    /\ prevTick = Start - 1
    /\ lastScaleTime = ZeroTime
    /\ active = [n \in {} |-> {}]
    /\ agg = [total |-> 0, gap |-> 0, exceeded |-> 0, exceededAtMin |-> 0, pinned |-> 0]
    /\ last = [decision |-> "None", from |-> simPU, time |-> ZeroTime,
               min |-> spec.min, max |-> spec.max, below |-> FALSE]
    /\ done = FALSE

ReplayTick ==
    \E p \in Points, dt \in Gaps :
        /\ now + dt <= MaxTime
        /\ Replay(p, dt)
        /\ now' = now + dt
        /\ UNCHANGED done

ReplayLastTick ==
    \E p \in Points :
        /\ Replay(p, LastTickDuration)
        /\ done' = TRUE
        /\ UNCHANGED now

Next == ReplayTick \/ ReplayLastTick

Spec == Init /\ [][Next]_vars

-----------------------------------------------------------------------------
(* Properties                                                              *)

\* The variables hold values of the shapes the loop in Run gives them.
TypeOK ==
    /\ spec \in Specs
    /\ now \in Start .. MaxTime
    /\ prevTick \in 0 .. now
    /\ simPU \in Nat \ {0}
    /\ lastScaleTime \in 0 .. now
    /\ DOMAIN active \subseteq DOMAIN Schedules
    /\ agg \in [{"total", "gap", "exceeded", "exceededAtMin", "pinned"} -> Nat]
    /\ done \in BOOLEAN

\* The incremental upkeep of the active list (expire, then upsert what fired
\* since the previous tick) yields what the schedules say: at the tick last
\* replayed, exactly the schedules whose most recent fire still covers it, each
\* with the end of that fire, however sparse the recorded points are.
ActiveAsScheduled ==
    LET fires(n)   == Fires(n, Start - 1, prevTick)
        covered(n) == fires(n) # {} /\ Max(fires(n)) + Schedules[n].duration >= prevTick
    IN  /\ DOMAIN active = {n \in DOMAIN Schedules : covered(n)}
        /\ \A n \in DOMAIN active : active[n] = Entry(n, Max(fires(n)))

\* The simulated instance always has a size that Cloud Spanner accepts:
\* rounding, step limits, clamping and the sum of the active schedules ("round
\* up, in case any schedule adds small number of PUs") never leave an
\* intermediate value.
SimPUValid == ValidPU(simPU)

\* A tick that no cooldown or window held back leaves the instance inside the
\* range that the spec and the schedules active at that tick define: a step
\* limit never keeps it outside.
RangeRespected ==
    last.decision \in {"Scale", "SkipSame"} =>
        last.min <= simPU /\ simPU <= last.max

\* Scale-in fires only when every configured metric is below its target, unless
\* the instance is above the maximum of the range (README, dual CPU targets).
ScaleInOnlyBelowTargets ==
    last.decision = "Scale" /\ simPU < last.from =>
        last.below \/ last.from > last.max

\* A scale-down removes at most the resolved scale-down step, unless it brings
\* an instance above the maximum back into the range.
ScaledownStepRespected ==
    last.decision = "Scale" /\ simPU < last.from =>
        \/ last.from - simPU <= ResolveScaledownStep(spec.scaledownStep, last.from)
        \/ simPU = last.max

\* Each recorded minute is counted once: what the summary reports as covered
\* plus missing time is the length of the trace, and the exceeded and pinned
\* minutes are part of the time that was not a gap.
MinutesAccounted ==
    LET length == now - Start + (IF done THEN 1 ELSE 0) IN
    /\ agg.total <= length
    /\ agg.exceeded + agg.gap <= length
    /\ agg.pinned + agg.gap <= length
    /\ agg.total + agg.gap >= now - Start
    /\ agg.exceededAtMin <= agg.exceeded

\* Two consecutive scale events are apart by at least the cooldown of the later
\* one's direction, whatever happened in between (gaps, schedules, skips).
EventsCooledDown ==
    [][simPU' # simPU /\ lastScaleTime # ZeroTime =>
        now - lastScaleTime >= IF simPU' > simPU THEN spec.scaleupInterval
                                                 ELSE spec.scaledownInterval]_vars
=============================================================================
