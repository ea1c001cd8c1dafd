--------------------------- MODULE ResourceProofs ---------------------------
(***************************************************************************)
(* What each writer of the SpannerAutoscaler object does to its status.    *)
(***************************************************************************)
EXTENDS Resource, ScalingProofs

\* What pruneActiveSchedules and calcDesiredPURange leave alone.
LEMMA ConsideredFields ==
    ASSUME NEW spec \in Specs, NEW status \in Statuses
    PROVE  LET c == Considered(spec, status) IN
           /\ c.current = status.current /\ c.ready = status.ready
           /\ c.cpu = status.cpu /\ c.metricType = status.metricType
           /\ c.schedules = status.schedules /\ c.desired = status.desired
           /\ c.lastScaleTime = status.lastScaleTime
           /\ c.active = Only(status.active, status.schedules)
BY DEF Considered, Ranged, Pruned, Statuses

\* Pruning keeps an entry or empties it.
LEMMA OnlyTyped ==
    ASSUME NEW active \in [Names -> Entries], NEW S
    PROVE  /\ Only(active, S) \in [Names -> Entries]
           /\ \A n \in Names : Only(active, S)[n] \in {active[n], NotActive}
<1>1. NotActive \in Entries
  BY DEF NotActive, Entries, Amounts, ZeroTime
<1> QED BY <1>1 DEF Only

\* The schedules add whole hundreds to the bounds of the range.
LEMMA SumsWhole ==
    ASSUME NEW active \in [Names -> Entries]
    PROVE  /\ AdditionalMin(active) \in Nat /\ AdditionalMin(active) % 100 = 0
           /\ AdditionalMax(active) \in Nat /\ AdditionalMax(active) % 100 = 0
<1> DEFINE E == {m \in DOMAIN active : active[m].policy = "Exceed"}
           f == [n \in DOMAIN active |-> active[n].additionalPU]
           g == [n \in E |-> active[n].additionalPU]
<1>1. \A n \in Names : active[n].additionalPU \in Amounts
  BY DEF Entries
<1>2. f \in [Names -> Amounts] /\ E \in SUBSET Names /\ g \in [E -> Amounts]
  BY <1>1
<1>3. AdditionalMin(active) = SumFunction(f) /\ AdditionalMax(active) = SumFunction(g)
  BY DEF AdditionalMin, AdditionalMax
<1> HIDE DEF f, g, E
<1> QED BY <1>2, <1>3, SumsAssumption

\* The range in force at a decision is ordered and valid.
LEMMA ConsideredRange ==
    ASSUME NEW spec \in Specs, NEW status \in Statuses
    PROVE  LET c == Considered(spec, status) IN
           /\ c \in Statuses
           /\ c.desiredMin > 0 /\ c.desiredMax > 0
           /\ EffectiveRangeOK(spec, c)
<1> DEFINE c == Considered(spec, status)
           act == Only(status.active, status.schedules)
           range == DesiredPURange(spec, AdditionalMin(act), AdditionalMax(act))
<1>1. act \in [Names -> Entries]
  BY OnlyTyped DEF Statuses
<1>2. /\ spec.min \in Nat /\ spec.max \in Nat
      /\ ValidPU(spec.min) /\ ValidPU(spec.max)
  BY SpecsAssumption, RangeAssumption DEF SpecTyped
<1>3. /\ AdditionalMin(act) \in Nat /\ AdditionalMin(act) % 100 = 0
      /\ AdditionalMax(act) \in Nat /\ AdditionalMax(act) % 100 = 0
  BY <1>1, SumsWhole
<1>4. /\ range.min \in Nat /\ ValidPU(range.min)
      /\ range.max \in Nat /\ ValidPU(range.max)
      /\ range.min <= range.max
  BY <1>2, <1>3, DesiredPURangeOrdered
<1>5. Pruned(status) = [status EXCEPT !.active = act] /\ Pruned(status).active = act
  BY DEF Pruned, Statuses
<1>6. c = [[status EXCEPT !.active = act]
              EXCEPT !.desiredMin = range.min, !.desiredMax = range.max]
  BY <1>5 DEF Considered, Ranged, calcDesiredPURange
<1> HIDE DEF act, range, c
<1>7. c \in Statuses /\ c.desiredMin = range.min /\ c.desiredMax = range.max
  BY <1>1, <1>4, <1>6 DEF Statuses
<1>8. range.min > 0 /\ range.max > 0
  BY <1>4 DEF ValidPU
<1>9. EffectiveRangeOK(spec, c)
  BY <1>4, <1>7, <1>8 DEF EffectiveRangeOK, EffectiveMin, EffectiveMax
<1> QED BY <1>7, <1>8, <1>9 DEF c

\* A reconcile that gets as far as deciding has what the decision needs.
LEMMA DecisionInputOK ==
    ASSUME NEW spec \in Specs, NEW status \in Statuses,
           Decidable(status), StatusSound(status)
    PROVE  InputOK(spec, Considered(spec, status))
<1> DEFINE c == Considered(spec, status)
<1>1. c \in Statuses /\ EffectiveRangeOK(spec, c)
  BY ConsideredRange
<1>2. c.current = status.current /\ c.cpu = status.cpu
  BY ConsideredFields
<1>3. SpecTyped(spec)
  BY SpecsAssumption
<1> HIDE DEF c
<1>4. c.current \in Nat /\ ValidPU(c.current)
  BY <1>1, <1>2 DEF Decidable, StatusSound, Statuses
<1>5. \A m \in CPUMetrics : c.cpu[m] \in Nat
  BY <1>1 DEF Statuses
<1>6. \A m \in DOMAIN spec.target : spec.target[m] \in Nat \ {0}
  BY <1>3 DEF SpecTyped
<1> QED BY <1>1, <1>3, <1>4, <1>5, <1>6 DEF InputOK, SpecTyped, c

\* What UpdateInstance is called with is valid.
LEMMA DesiredPUValid ==
    ASSUME NEW spec \in Specs, NEW status \in Statuses,
           Decidable(status), StatusSound(status)
    PROVE  DesiredPU(spec, status) \in Nat /\ ValidPU(DesiredPU(spec, status))
BY DecisionInputOK, DesiredProcessingUnitsValid DEF DesiredPU

\* A reconcile writes the plan, prunes active schedules, and nothing else.
LEMMA PlannedFields ==
    ASSUME NEW spec \in Specs, NEW status \in Statuses, NEW t \in Nat
    PROVE  LET p == Planned(spec, status, t) IN
           /\ p.current = status.current /\ p.ready = status.ready
           /\ p.cpu = status.cpu /\ p.metricType = status.metricType
           /\ p.schedules = status.schedules
           /\ p.active = Only(status.active, status.schedules)
           /\ \A n \in Names : p.active[n] \in {status.active[n], NotActive}
           /\ p.desired = DesiredPU(spec, status)
           /\ p.lastScaleTime = IF needUpdateProcessingUnits(spec, status, t)
                                  THEN t ELSE status.lastScaleTime
<1> DEFINE c == Considered(spec, status)
<1>1. c \in Statuses
  BY ConsideredRange
<1>2. /\ c.current = status.current /\ c.ready = status.ready
      /\ c.cpu = status.cpu /\ c.metricType = status.metricType
      /\ c.schedules = status.schedules
      /\ c.lastScaleTime = status.lastScaleTime
      /\ c.active = Only(status.active, status.schedules)
  BY ConsideredFields
<1>3. \A n \in Names : c.active[n] \in {status.active[n], NotActive}
  BY <1>2, OnlyTyped DEF Statuses
<1>4. Planned(spec, status, t) =
        [c EXCEPT !.desired = DesiredPU(spec, status),
                  !.lastScaleTime = IF needUpdateProcessingUnits(spec, status, t)
                                      THEN t ELSE c.lastScaleTime]
  <2> HIDE DEF c
  <2>1. Planned(spec, status, t) =
        [c EXCEPT !.desired = DesiredPU(spec, status),
                  !.lastScaleTime = IF needUpdateProcessingUnits(spec, status, t) THEN t ELSE @]
    BY DEF Planned, c
  <2> QED BY <2>1, <1>1 DEF Statuses
<1> HIDE DEF c
<1>5. LET p == Planned(spec, status, t) IN
      /\ p.current = c.current /\ p.ready = c.ready
      /\ p.cpu = c.cpu /\ p.metricType = c.metricType
      /\ p.schedules = c.schedules /\ p.active = c.active
      /\ p.desired = DesiredPU(spec, status)
      /\ p.lastScaleTime = IF needUpdateProcessingUnits(spec, status, t)
                             THEN t ELSE c.lastScaleTime
  BY <1>1, <1>4 DEF Statuses
<1> QED BY <1>2, <1>3, <1>5

\* What the reconciler writes is a status, and as sound as the one it read.
LEMMA PlannedTyped ==
    ASSUME NEW spec \in Specs, NEW status \in Statuses, NEW t \in Nat,
           Decidable(status), StatusSound(status)
    PROVE  /\ Planned(spec, status, t) \in Statuses
           /\ StatusSound(Planned(spec, status, t))
<1> DEFINE c == Considered(spec, status)
           p == Planned(spec, status, t)
<1>1. c \in Statuses
  BY ConsideredRange
<1>2. DesiredPU(spec, status) \in Nat
  BY DesiredPUValid
<1>3. p \in Statuses
  <2> HIDE DEF c
  <2>1. p = [c EXCEPT !.desired = DesiredPU(spec, status),
                  !.lastScaleTime = IF needUpdateProcessingUnits(spec, status, t) THEN t ELSE @]
    BY DEF Planned, c
  <2> HIDE DEF p
  <2> QED BY <2>1, <1>1, <1>2 DEF Statuses
<1>4. StatusSound(p)
  BY PlannedFields DEF StatusSound
<1> QED BY <1>3, <1>4

\* A sync replaces the measurements and nothing else.
LEMMA MeasuredTyped ==
    ASSUME NEW status \in Statuses, NEW reading \in Readings, ValidPU(reading.pu),
           CPURead(reading.cpu, reading.flags)
    PROVE  LET s == Measured(status, reading) IN
           /\ s \in Statuses /\ StatusSound(s) /\ Published(s) = reading
           /\ s.desired = status.desired /\ s.desiredMin = status.desiredMin
           /\ s.desiredMax = status.desiredMax /\ s.lastScaleTime = status.lastScaleTime
           /\ s.schedules = status.schedules /\ s.active = status.active
<1> DEFINE s == Measured(status, reading)
<1>1. s = [status EXCEPT !.current = reading.pu, !.ready = reading.ready,
                   !.cpu = reading.cpu, !.metricType = reading.flags]
  BY DEF Measured
<1> HIDE DEF s
<1>2. /\ s \in Statuses
      /\ s.current = reading.pu /\ s.ready = reading.ready
      /\ s.cpu = reading.cpu /\ s.metricType = reading.flags
      /\ s.desired = status.desired /\ s.desiredMin = status.desiredMin
      /\ s.desiredMax = status.desiredMax /\ s.lastScaleTime = status.lastScaleTime
      /\ s.schedules = status.schedules /\ s.active = status.active
  BY <1>1 DEF Statuses, Readings
<1>3. StatusSound(s)
  BY <1>2 DEF StatusSound
<1>4. Published(s) = reading
  BY <1>2 DEF Published, Readings
<1> QED BY <1>2, <1>3, <1>4 DEF s

\* What the writers of the schedule lists keep.
SameMeasurementsAndPlan(s, status) ==
    /\ s.current = status.current /\ s.ready = status.ready
    /\ s.cpu = status.cpu /\ s.metricType = status.metricType
    /\ s.desired = status.desired /\ s.desiredMin = status.desiredMin
    /\ s.desiredMax = status.desiredMax /\ s.lastScaleTime = status.lastScaleTime

\* Activating a schedule touches the active schedules only.
LEMMA ActivatedTyped ==
    ASSUME NEW status \in Statuses, StatusSound(status), NEW n \in Names, NEW t \in Nat,
           NEW sas \in {Schedules[m] : m \in Names} \cup {NoSchedule}
    PROVE  LET s == Activated(status, n, sas, t) IN
           s \in Statuses /\ StatusSound(s) /\ SameMeasurementsAndPlan(s, status)
<1> DEFINE entry == [additionalPU |-> sas.additionalPU, policy |-> sas.policy,
                     endTime |-> t + sas.duration]
           s == Activated(status, n, sas, t)
<1>1. /\ sas.additionalPU \in Amounts /\ sas.policy \in {"Exceed", "Cap"}
      /\ sas.duration \in Nat
  BY SchedulesAssumption DEF NoSchedule, Amounts
<1>2. entry \in Entries
  BY <1>1 DEF Entries
<1>3. s = [status EXCEPT !.active[n] = entry]
  BY DEF Activated
<1> HIDE DEF s, entry
<1>4. s \in Statuses /\ SameMeasurementsAndPlan(s, status)
  BY <1>2, <1>3 DEF Statuses, SameMeasurementsAndPlan
<1>5. StatusSound(s)
  BY <1>4 DEF StatusSound, SameMeasurementsAndPlan
<1> QED BY <1>4, <1>5 DEF s

\* Dropping the schedules whose end has passed touches the active ones only.
LEMMA ExpiredTyped ==
    ASSUME NEW status \in Statuses, StatusSound(status), NEW t \in Nat
    PROVE  LET s == Expired(status, t) IN
           s \in Statuses /\ StatusSound(s) /\ SameMeasurementsAndPlan(s, status)
<1> DEFINE act == Only(status.active, Names \ ExpiredAt(status, t))
           s == Expired(status, t)
<1>1. act \in [Names -> Entries]
  BY OnlyTyped DEF Statuses
<1>2. s = [status EXCEPT !.active = act]
  BY DEF Expired
<1> HIDE DEF s, act
<1>3. s \in Statuses /\ SameMeasurementsAndPlan(s, status)
  BY <1>1, <1>2 DEF Statuses, SameMeasurementsAndPlan
<1>4. StatusSound(s)
  BY <1>3 DEF StatusSound, SameMeasurementsAndPlan
<1> QED BY <1>3, <1>4 DEF s

\* Registering and unregistering touch the list of schedule names only.
LEMMA RegisteredTyped ==
    ASSUME NEW status \in Statuses, StatusSound(status), NEW n \in Names,
           NEW s \in {Registered(status, n), Unregistered(status, n)}
    PROVE  s \in Statuses /\ StatusSound(s) /\ SameMeasurementsAndPlan(s, status)
<1>1. s \in Statuses /\ SameMeasurementsAndPlan(s, status)
  BY DEF Registered, Unregistered, Statuses, SameMeasurementsAndPlan
<1>2. StatusSound(s)
  BY <1>1 DEF StatusSound, SameMeasurementsAndPlan
<1> QED BY <1>1, <1>2

\* A scaling is decided only once the cooldown of its direction is over.
LEMMA DecidedAfterCooldown ==
    ASSUME NEW spec \in Specs, NEW status \in Statuses, NEW t \in Nat,
           Decidable(status), StatusSound(status),
           needUpdateProcessingUnits(spec, status, t)
    PROVE  /\ DesiredPU(spec, status) # status.current
           /\ status.lastScaleTime # ZeroTime =>
                t - status.lastScaleTime >=
                    IF DesiredPU(spec, status) > status.current
                      THEN spec.scaleupInterval ELSE spec.scaledownInterval
<1> DEFINE c == Considered(spec, status)
           pu == DesiredPU(spec, status)
<1>1. c.current = status.current /\ c.lastScaleTime = status.lastScaleTime
  BY ConsideredFields
<1>2. /\ status.current \in Nat /\ status.lastScaleTime \in Nat /\ pu \in Nat
      /\ spec.scaleupInterval \in Nat /\ spec.scaledownInterval \in Nat
  BY DesiredPUValid, SpecsAssumption DEF Statuses, SpecTyped
<1>3. Decide(spec, c, pu, t) = "Scale"
  BY DEF needUpdateProcessingUnits
<1> HIDE DEF c, pu
<1>4. /\ pu # c.current
      /\ pu > c.current => ~CoolingDown(c.lastScaleTime, spec.scaleupInterval, t)
      /\ ~(pu > c.current) => ~CoolingDown(c.lastScaleTime, spec.scaledownInterval, t)
  BY <1>3 DEF Decide
<1>5. CASE pu > c.current
  BY <1>1, <1>2, <1>4, <1>5 DEF CoolingDown, pu
<1>6. CASE ~(pu > c.current)
  BY <1>1, <1>2, <1>4, <1>6 DEF CoolingDown, pu
<1> QED BY <1>5, <1>6

\* A scaling is decided only on a status synced for the metrics of the spec.
LEMMA DecidedOnOwnMetrics ==
    ASSUME NEW spec \in Specs, NEW status \in Statuses, NEW t \in Nat,
           Decidable(status), StatusSound(status),
           needUpdateProcessingUnits(spec, status, t)
    PROVE  \A m \in DOMAIN spec.target : status.cpu[m] \in CPUReadings
<1> DEFINE c == Considered(spec, status)
<1>1. /\ c.current = status.current /\ c.metricType = status.metricType
  BY ConsideredFields
<1>2. DesiredProcessingUnits(spec, c) # c.current
  BY <1>1, DecidedAfterCooldown DEF DesiredPU
<1>3. c.metricType = DOMAIN spec.target
  BY <1>2 DEF DesiredProcessingUnits
<1>4. DOMAIN spec.target \subseteq CPUMetrics
  BY SpecsAssumption DEF SpecTyped
<1> QED BY <1>1, <1>3, <1>4 DEF StatusSound, CPURead
=============================================================================
