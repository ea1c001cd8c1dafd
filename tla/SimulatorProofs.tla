--------------------------- MODULE SimulatorProofs ---------------------------
(***************************************************************************)
(* The replay, for every trace, configuration and set of schedules: what   *)
(* ScalingProofs shows of one decision, carried through a whole run.       *)
(***************************************************************************)
EXTENDS Simulator, ScalingProofs

\* An active schedule has the amount and the policy of its definition.
ActiveOK(act) ==
    /\ DOMAIN act \subseteq DOMAIN Schedules
    /\ \A n \in DOMAIN act : /\ act[n].additionalPU = Schedules[n].additionalPU
                             /\ act[n].policy = Schedules[n].policy

\* The inductive invariant.
IndInv ==
    /\ TypeOK /\ SimPUValid /\ ActiveOK(active)
    /\ "decision" \in DOMAIN last
    /\ RangeRespected /\ ScaleInOnlyBelowTargets /\ ScaledownStepRespected
    /\ MinutesAccounted

\* At most a minute is covered, and never more than there is.
LEMMA CoveredBounds ==
    ASSUME NEW dt \in Nat
    PROVE  Covered(dt) \in Nat /\ Covered(dt) <= dt /\ Covered(dt) <= 1
           /\ (dt <= 1 => Covered(dt) = dt)
<1>1. \E x \in {dt, 1} : \A y \in {dt, 1} : x =< y
  <2>1. CASE dt <= 1
    BY <2>1
  <2>2. CASE dt > 1
    BY <2>2
  <2> QED BY <2>1, <2>2
<1>2. Covered(dt) \in {dt, 1} /\ \A y \in {dt, 1} : Covered(dt) =< y
  BY <1>1 DEF Covered, Min
<1> QED BY <1>2

\* The last point of a trace counts for a minute at most.
LEMMA LastTickBounds ==
    ASSUME TypeOK
    PROVE  LastTickDuration \in 0 .. 1
<1>1. now - prevTick \in Nat
  BY DEF TypeOK, Start
<1>2. LastTickDuration = Covered(now - prevTick)
  BY DEF LastTickDuration, Covered
<1> QED BY <1>1, <1>2, CoveredBounds

\* Whatever fires, an active schedule is as defined.
LEMMA FireSchedulesOK ==
    ASSUME ActiveOK(active), NEW prev
    PROVE  ActiveOK(fireSchedules(prev))
<1> DEFINE kept == {n \in DOMAIN active : active[n].endTime >= now}
           fired == {n \in DOMAIN Schedules :
                       /\ Fires(n, prev, now) # {}
                       /\ Entry(n, Max(Fires(n, prev, now))).endTime >= now}
           entry(n) == Entry(n, Max(Fires(n, prev, now)))
           act == fireSchedules(prev)
<1>1. act = [n \in kept \cup fired |-> IF n \in fired THEN entry(n) ELSE active[n]]
  BY DEF fireSchedules
<1>2. \A n : /\ entry(n).additionalPU = Schedules[n].additionalPU
             /\ entry(n).policy = Schedules[n].policy
  BY DEF Entry
<1>3. kept \subseteq DOMAIN active /\ fired \subseteq DOMAIN Schedules
  OBVIOUS
<1> HIDE DEF kept, fired, entry, act
<1>4. DOMAIN act = kept \cup fired
  BY <1>1
<1>5. ASSUME NEW n \in DOMAIN act
      PROVE  /\ act[n].additionalPU = Schedules[n].additionalPU
             /\ act[n].policy = Schedules[n].policy
  <2>1. CASE n \in fired
    BY <1>1, <1>2, <1>4, <2>1
  <2>2. CASE n \notin fired
    BY <1>1, <1>3, <1>4, <2>2 DEF ActiveOK
  <2> QED BY <2>1, <2>2
<1> QED BY <1>3, <1>4, <1>5 DEF ActiveOK, act

\* The active schedules add whole hundreds to both bounds.
LEMMA SumsWhole ==
    ASSUME NEW act, ActiveOK(act)
    PROVE  /\ AdditionalMin(act) \in Nat /\ AdditionalMin(act) % 100 = 0
           /\ AdditionalMax(act) \in Nat /\ AdditionalMax(act) % 100 = 0
<1> DEFINE E == {n \in DOMAIN act : act[n].policy = "Exceed"}
           amounts(S) == [n \in S |-> Schedules[n].additionalPU]
<1>1. /\ [n \in DOMAIN act |-> act[n].additionalPU] = amounts(DOMAIN act)
      /\ [n \in E |-> act[n].additionalPU] = amounts(E)
  BY DEF ActiveOK
<1>2. AdditionalMin(act) = SumFunction(amounts(DOMAIN act))
  BY <1>1 DEF AdditionalMin
<1>3. AdditionalMax(act) = SumFunction(amounts(E))
  BY <1>1 DEF AdditionalMax
<1>4. DOMAIN act \in SUBSET DOMAIN Schedules /\ E \in SUBSET DOMAIN Schedules
  BY DEF ActiveOK
<1> QED BY <1>2, <1>3, <1>4, SumsAssumption

\* The object a tick feeds into the scaling package is one it can decide on, with
\* the range of the tick in force.
LEMMA TickInputOK ==
    ASSUME spec \in Specs, simPU \in Nat, SimPUValid, NEW p \in Points, HasData(p),
           NEW act, ActiveOK(act)
    PROVE  LET status == TickStatus(p, act) IN
           /\ InputOK(spec, status)
           /\ status.current = simPU /\ status.lastScaleTime = lastScaleTime
           /\ status.metricType = DOMAIN spec.target /\ DOMAIN spec.target # {}
           /\ EffectiveMin(spec, status) = status.desiredMin
           /\ EffectiveMax(spec, status) = status.desiredMax
           /\ status.desiredMin \in Nat /\ status.desiredMax \in Nat
<1> DEFINE range == DesiredPURange(spec, AdditionalMin(act), AdditionalMax(act))
           status == TickStatus(p, act)
<1>1. SpecTyped(spec) /\ ValidPU(spec.min) /\ ValidPU(spec.max)
  BY SpecsAssumption
<1>2. /\ range.min \in Nat /\ ValidPU(range.min)
      /\ range.max \in Nat /\ ValidPU(range.max)
      /\ range.min <= range.max
  BY <1>1, SumsWhole, DesiredPURangeOrdered DEF SpecTyped
<1>3. /\ status.current = simPU /\ status.lastScaleTime = lastScaleTime
      /\ status.metricType = DOMAIN spec.target
      /\ status.cpu = SimulatedCPU(p)
      /\ status.desiredMin = range.min /\ status.desiredMax = range.max
  BY DEF TickStatus
<1> HIDE DEF status, range
<1>4. \A m \in CPUMetrics : status.cpu[m] \in Nat
  <2> SUFFICES ASSUME NEW m \in CPUMetrics PROVE SimulatedCPU(p)[m] \in Nat
    BY <1>3
  <2>1. CASE m \in DOMAIN spec.target
    <3>1. p.cpu[m] \in Nat /\ p.pu \in Nat /\ simPU > 0
      BY <2>1, PointsAssumption DEF HasData, SimPUValid, ValidPU
    <3>2. p.cpu[m] * p.pu \in Nat
      BY <3>1
    <3>3. (p.cpu[m] * p.pu) \div simPU \in Nat
      BY <3>1, <3>2, Z3
    <3> QED BY <2>1, <3>3 DEF SimulatedCPU
  <2>2. CASE m \notin DOMAIN spec.target
    BY <2>2 DEF SimulatedCPU
  <2> QED BY <2>1, <2>2
<1>5. EffectiveMin(spec, status) = range.min /\ EffectiveMax(spec, status) = range.max
  BY <1>2, <1>3 DEF EffectiveMin, EffectiveMax, ValidPU
<1>6. EffectiveRangeOK(spec, status)
  BY <1>2, <1>5 DEF EffectiveRangeOK
<1>7. InputOK(spec, status)
  BY <1>1, <1>3, <1>4, <1>6 DEF InputOK, SpecTyped, SimPUValid
<1> QED BY <1>1, <1>2, <1>3, <1>5, <1>7 DEF SpecTyped, status

\* What one decision does to the simulated instance.
DecisionSound(pu, status, decision) ==
    /\ pu \in Nat /\ ValidPU(pu)
    /\ decision \in {"Scale", "SkipSame"} => status.desiredMin <= pu /\ pu <= status.desiredMax
    /\ decision = "Scale" /\ pu < simPU =>
         /\ \/ \A m \in DOMAIN spec.target : status.cpu[m] < spec.target[m]
            \/ simPU > status.desiredMax
         /\ \/ simPU - pu <= ResolveScaledownStep(spec.scaledownStep, simPU)
            \/ pu = status.desiredMax
    /\ pu # simPU /\ lastScaleTime # ZeroTime =>
         now - lastScaleTime >= IF pu > simPU THEN spec.scaleupInterval
                                              ELSE spec.scaledownInterval

\* Applied or not, a decision of Decide on the desired size is sound.
LEMMA TickDecisionSound ==
    ASSUME TypeOK, SimPUValid, NEW p \in Points, HasData(p), NEW act, ActiveOK(act)
    PROVE  LET status   == TickStatus(p, act)
               desired  == DesiredProcessingUnits(spec, status)
               decision == Decide(spec, status, desired, now)
           IN  DecisionSound(IF decision = "Scale" THEN desired ELSE simPU, status, decision)
<1> DEFINE status   == TickStatus(p, act)
           desired  == DesiredProcessingUnits(spec, status)
           decision == Decide(spec, status, desired, now)
           down     == ResolveScaledownStep(spec.scaledownStep, simPU)
           below    == \A m \in DOMAIN spec.target : status.cpu[m] < spec.target[m]
           pu       == IF decision = "Scale" THEN desired ELSE simPU
<1>1. spec \in Specs /\ simPU \in Nat /\ now \in Nat /\ lastScaleTime \in Nat
  BY GapsAssumption DEF TypeOK, Start
<1>2. /\ InputOK(spec, status)
      /\ status.current = simPU /\ status.lastScaleTime = lastScaleTime
      /\ status.metricType = DOMAIN spec.target /\ DOMAIN spec.target # {}
      /\ EffectiveMin(spec, status) = status.desiredMin
      /\ EffectiveMax(spec, status) = status.desiredMax
      /\ status.desiredMin \in Nat /\ status.desiredMax \in Nat
  BY <1>1, TickInputOK
<1> HIDE DEF status
<1>3. /\ desired \in Nat /\ ValidPU(desired)
      /\ status.desiredMin <= desired /\ desired <= status.desiredMax
  BY <1>2, DesiredProcessingUnitsValid
<1>4. desired < simPU => below \/ simPU > status.desiredMax
  BY <1>2, ScaleInNeedsAllBelowTarget
<1>5. desired < simPU => simPU - desired <= down \/ desired = status.desiredMax
  BY <1>2, ScaleInWithinStep
<1>6. spec.scaleupInterval \in Nat /\ spec.scaledownInterval \in Nat
  BY <1>1, SpecsAssumption DEF SpecTyped
<1> HIDE DEF desired, down, below
<1>7. decision = "SkipSame" => desired = simPU
  BY <1>2 DEF Decide
<1>8. decision = "Scale" =>
        /\ desired # simPU
        /\ desired > simPU => ~CoolingDown(lastScaleTime, spec.scaleupInterval, now)
        /\ desired <= simPU => ~CoolingDown(lastScaleTime, spec.scaledownInterval, now)
  BY <1>1, <1>2, <1>3 DEF Decide
<1> HIDE DEF decision
<1>9. pu \in Nat /\ ValidPU(pu)
  BY <1>1, <1>3 DEF SimPUValid
<1>10. decision \in {"Scale", "SkipSame"} => status.desiredMin <= pu /\ pu <= status.desiredMax
  BY <1>3, <1>7
<1>11. decision = "Scale" /\ pu < simPU =>
         /\ below \/ simPU > status.desiredMax
         /\ simPU - pu <= down \/ pu = status.desiredMax
  BY <1>4, <1>5
<1>12. pu # simPU /\ lastScaleTime # ZeroTime =>
         now - lastScaleTime >= IF pu > simPU THEN spec.scaleupInterval
                                              ELSE spec.scaledownInterval
  BY <1>1, <1>3, <1>6, <1>8 DEF CoolingDown
<1>13. DecisionSound(pu, status, decision)
  BY <1>9, <1>10, <1>11, <1>12 DEF DecisionSound, below, down
<1> QED BY <1>13 DEF status, desired, decision

Counters == {"total", "gap", "exceeded", "exceededAtMin", "pinned"}

\* What a tick of dt minutes adds to the counters: of the time at most what was
\* covered is exceeded or pinned, and the rest is a gap.
CountersAdded(dt) ==
    /\ agg' \in [Counters -> Nat]
    /\ agg'["total"] = agg["total"] + Covered(dt)
    /\ \E g, e, a, q \in Nat :
         /\ g + e <= dt /\ g + q <= dt /\ a <= e /\ dt <= g + Covered(dt)
         /\ agg'["gap"] = agg["gap"] + g
         /\ agg'["exceeded"] = agg["exceeded"] + e
         /\ agg'["exceededAtMin"] = agg["exceededAtMin"] + a
         /\ agg'["pinned"] = agg["pinned"] + q

\* A decided tick adds its covered part to the counters that apply.
LEMMA DecidedCounts ==
    ASSUME TypeOK, NEW p, NEW dt \in Nat, NEW act, Decided(p, dt, act)
    PROVE  CountersAdded(dt)
<1> DEFINE status == TickStatus(p, act)
           c == Covered(dt)
           decision == Decide(spec, status, DesiredProcessingUnits(spec, status), now)
           pu == IF decision = "Scale" THEN DesiredProcessingUnits(spec, status) ELSE simPU
           e == IF Exceeded(p) THEN c ELSE 0
           a == IF Exceeded(p) /\ simPU <= status.desiredMin THEN c ELSE 0
           q == IF pu <= status.desiredMin THEN c ELSE 0
<1>1. agg' = [total |-> agg.total + c, gap |-> agg.gap + (dt - c),
              exceeded |-> agg.exceeded + e, exceededAtMin |-> agg.exceededAtMin + a,
              pinned |-> agg.pinned + q]
  BY DEF Decided
<1>2. c \in Nat /\ c <= dt
  BY CoveredBounds
<1> HIDE DEF c
<1>3. e \in {0, c} /\ a \in {0, c} /\ q \in {0, c} /\ (e = 0 => a = 0)
  OBVIOUS
<1> HIDE DEF e, a, q
<1>4. agg \in [Counters -> Nat]
  BY DEF TypeOK, Counters
<1>5. e \in Nat /\ a \in Nat /\ q \in Nat /\ dt - c \in Nat /\ a <= e /\ e <= c /\ q <= c
  BY <1>2, <1>3
<1>6. agg' \in [Counters -> Nat]
  BY <1>1, <1>2, <1>4, <1>5 DEF Counters
<1>7. /\ agg'["total"] = agg["total"] + c
      /\ agg'["gap"] = agg["gap"] + (dt - c)
      /\ agg'["exceeded"] = agg["exceeded"] + e
      /\ agg'["exceededAtMin"] = agg["exceededAtMin"] + a
      /\ agg'["pinned"] = agg["pinned"] + q
  BY <1>1
<1>8. (dt - c) + e <= dt /\ (dt - c) + q <= dt /\ dt <= (dt - c) + c
  BY <1>2, <1>5
<1> QED BY <1>5, <1>6, <1>7, <1>8 DEF CountersAdded, c

\* A skipped tick is a gap from end to end.
LEMMA SkippedCounts ==
    ASSUME TypeOK, NEW dt \in Nat, Skipped(dt)
    PROVE  CountersAdded(dt)
<1>1. Covered(dt) \in Nat
  BY CoveredBounds
<1>2. agg \in [Counters -> Nat]
  BY DEF TypeOK, Counters
<1>3. agg' = [agg EXCEPT !["total"] = @ + Covered(dt), !["gap"] = @ + dt]
  BY DEF Skipped
<1>4. agg' \in [Counters -> Nat]
  BY <1>1, <1>2, <1>3 DEF Counters
<1>5. /\ agg'["total"] = agg["total"] + Covered(dt)
      /\ agg'["gap"] = agg["gap"] + dt
      /\ agg'["exceeded"] = agg["exceeded"] + 0
      /\ agg'["exceededAtMin"] = agg["exceededAtMin"] + 0
      /\ agg'["pinned"] = agg["pinned"] + 0
  BY <1>2, <1>3 DEF Counters
<1>6. dt + 0 <= dt /\ dt <= dt + Covered(dt) /\ 0 <= 0
  BY <1>1
<1> QED BY <1>4, <1>5, <1>6 DEF CountersAdded

\* A tick leaves the counters in step with the time that has passed.
LEMMA MinutesStay ==
    ASSUME TypeOK, MinutesAccounted, ~done, NEW dt \in Nat, CountersAdded(dt),
           \/ now' = now + dt /\ ~done'
           \/ now' = now /\ done' /\ dt <= 1
    PROVE  MinutesAccounted'
<1> DEFINE length == now' - Start + (IF done' THEN 1 ELSE 0)
<1>1. now \in Nat /\ agg \in [Counters -> Nat] /\ agg' \in [Counters -> Nat]
  BY GapsAssumption DEF TypeOK, Counters, CountersAdded, Start
<1>2. Covered(dt) \in Nat /\ Covered(dt) <= dt
  BY CoveredBounds
<1>3. /\ agg["total"] <= now - Start
      /\ agg["exceeded"] + agg["gap"] <= now - Start
      /\ agg["pinned"] + agg["gap"] <= now - Start
      /\ agg["total"] + agg["gap"] >= now - Start
      /\ agg["exceededAtMin"] <= agg["exceeded"]
  BY <1>1 DEF MinutesAccounted, Start, Counters
<1>4. PICK g, e, a, q \in Nat :
         /\ g + e <= dt /\ g + q <= dt /\ a <= e /\ dt <= g + Covered(dt)
         /\ agg'["gap"] = agg["gap"] + g
         /\ agg'["exceeded"] = agg["exceeded"] + e
         /\ agg'["exceededAtMin"] = agg["exceededAtMin"] + a
         /\ agg'["pinned"] = agg["pinned"] + q
  BY DEF CountersAdded
<1>5. agg'["total"] = agg["total"] + Covered(dt)
  BY DEF CountersAdded
<1>6. \A k \in Counters : agg[k] \in Nat /\ agg'[k] \in Nat
  BY <1>1
<1>7. now' - Start <= length /\ length = now - Start + (IF done' THEN 1 ELSE dt) /\ length \in Int
  BY <1>1 DEF Start
<1>8. (IF done' THEN 1 ELSE dt) >= dt /\ now' - Start <= now - Start + dt
  BY <1>1 DEF Start
<1>9. /\ agg'["total"] <= length
      /\ agg'["exceeded"] + agg'["gap"] <= length
      /\ agg'["pinned"] + agg'["gap"] <= length
      /\ agg'["total"] + agg'["gap"] >= now' - Start
      /\ agg'["exceededAtMin"] <= agg'["exceeded"]
  BY <1>1, <1>2, <1>3, <1>4, <1>5, <1>6, <1>7, <1>8 DEF Counters, Start
<1> QED BY <1>9 DEF MinutesAccounted

\* The cooldown of the direction in which the size changes has passed.
CooledDown ==
    simPU' # simPU /\ lastScaleTime # ZeroTime =>
        now - lastScaleTime >= IF simPU' > simPU THEN spec.scaleupInterval
                                                 ELSE spec.scaledownInterval

\* What a tick leaves behind, apart from the counters.
TickSound ==
    /\ simPU' \in Nat /\ SimPUValid'
    /\ lastScaleTime' \in {lastScaleTime, now}
    /\ RangeRespected' /\ ScaleInOnlyBelowTargets' /\ ScaledownStepRespected'
    /\ "decision" \in DOMAIN last'
    /\ CooledDown

\* A decided tick leaves a sound size, and records what it was based on.
LEMMA DecidedSound ==
    ASSUME IndInv, NEW p \in Points, NEW dt, HasData(p), NEW act, ActiveOK(act),
           Decided(p, dt, act), spec' = spec
    PROVE  TickSound
<1> DEFINE status   == TickStatus(p, act)
           desired  == DesiredProcessingUnits(spec, status)
           decision == Decide(spec, status, desired, now)
           pu       == IF decision = "Scale" THEN desired ELSE simPU
           below    == \A m \in DOMAIN spec.target : status.cpu[m] < spec.target[m]
<1>1. DecisionSound(pu, status, decision)
  BY TickDecisionSound DEF IndInv
<1>2. /\ simPU' = pu
      /\ lastScaleTime' = IF decision = "Scale" THEN now ELSE lastScaleTime
      /\ last' = [decision |-> decision, from |-> simPU, time |-> now,
                  min |-> status.desiredMin, max |-> status.desiredMax, below |-> below]
  BY Zenon DEF Decided
<1>3. /\ pu \in Nat /\ ValidPU(pu)
      /\ decision \in {"Scale", "SkipSame"} =>
           status.desiredMin <= pu /\ pu <= status.desiredMax
      /\ decision = "Scale" /\ pu < simPU =>
           /\ below \/ simPU > status.desiredMax
           /\ \/ simPU - pu <= ResolveScaledownStep(spec.scaledownStep, simPU)
              \/ pu = status.desiredMax
      /\ pu # simPU /\ lastScaleTime # ZeroTime =>
           now - lastScaleTime >= IF pu > simPU THEN spec.scaleupInterval
                                                ELSE spec.scaledownInterval
  BY <1>1, Zenon DEF DecisionSound
<1> HIDE DEF status, desired, decision, pu, below
<1>4. /\ last'.decision = decision /\ last'.from = simPU
      /\ last'.min = status.desiredMin /\ last'.max = status.desiredMax
      /\ last'.below = below
  BY <1>2, Zenon
<1>5. lastScaleTime' \in {lastScaleTime, now}
  BY <1>2, Zenon
<1>6. SimPUValid' /\ simPU' \in Nat
  BY <1>2, <1>3 DEF SimPUValid, ValidPU
<1>7. RangeRespected'
  BY <1>2, <1>3, <1>4, Zenon DEF RangeRespected
<1>8. ScaleInOnlyBelowTargets'
  BY <1>2, <1>3, <1>4, Zenon DEF ScaleInOnlyBelowTargets
<1>9. ScaledownStepRespected'
  BY <1>2, <1>3, <1>4, Zenon DEF ScaledownStepRespected
<1>10. CooledDown
  BY <1>2, <1>3, Zenon DEF CooledDown
<1>11. "decision" \in DOMAIN last'
  BY <1>2
<1> QED BY <1>5, <1>6, <1>7, <1>8, <1>9, <1>10, <1>11 DEF TickSound

\* A skipped tick decides nothing.
LEMMA SkippedSound ==
    ASSUME IndInv, NEW dt, Skipped(dt)
    PROVE  TickSound
<1>1. simPU' = simPU /\ lastScaleTime' = lastScaleTime
  BY DEF Skipped
<1>2. last' = [last EXCEPT !.decision = "Gap"]
  BY DEF Skipped
<1>3. last'.decision = "Gap" /\ "decision" \in DOMAIN last'
  BY <1>2 DEF IndInv
<1>4. RangeRespected' /\ ScaleInOnlyBelowTargets' /\ ScaledownStepRespected'
  BY <1>3 DEF RangeRespected, ScaleInOnlyBelowTargets, ScaledownStepRespected
<1>5. SimPUValid' /\ simPU' \in Nat
  BY <1>1 DEF IndInv, TypeOK, SimPUValid
<1>6. CooledDown
  BY <1>1 DEF CooledDown
<1> QED BY <1>1, <1>3, <1>4, <1>5, <1>6 DEF TickSound

\* One iteration of the loop in Run, with or without data.
LEMMA ReplaySound ==
    ASSUME IndInv, NEW p \in Points, NEW dt \in Nat, Replay(p, dt)
    PROVE  /\ TickSound /\ CountersAdded(dt) /\ ActiveOK(active')
           /\ spec' = spec /\ prevTick' = now /\ ~done
<1>1. /\ ~done /\ active' = fireSchedules(prevTick)
      /\ prevTick' = now /\ spec' = spec
  BY DEF Replay
<1>2. ActiveOK(active')
  BY <1>1, FireSchedulesOK DEF IndInv
<1>3. CASE HasData(p) /\ Decided(p, dt, active')
  BY <1>1, <1>2, <1>3, DecidedSound, DecidedCounts DEF IndInv
<1>4. CASE ~HasData(p) /\ Skipped(dt)
  BY <1>1, <1>2, <1>4, SkippedSound, SkippedCounts DEF IndInv
<1> QED BY <1>3, <1>4 DEF Replay

\* At the start nothing is active, decided or counted.
LEMMA InitInv == Init => IndInv
<1> SUFFICES ASSUME Init PROVE IndInv
  OBVIOUS
<1>1. /\ simPU \in Nat /\ ValidPU(simPU) /\ simPU > 0
  BY InitialAssumption DEF Init, ValidPU
<1>2. TypeOK
  <2>1. now \in Start .. MaxTime /\ prevTick \in 0 .. now /\ lastScaleTime \in 0 .. now
    BY GapsAssumption DEF Init, Start, ZeroTime
  <2>2. DOMAIN active \subseteq DOMAIN Schedules
    BY DEF Init
  <2>3. agg \in [Counters -> Nat]
    BY DEF Init, Counters
  <2>4. done \in BOOLEAN /\ spec \in Specs
    BY Zenon DEF Init
  <2> QED BY <1>1, <2>1, <2>2, <2>3, <2>4 DEF TypeOK, Counters
<1>3. ActiveOK(active)
  BY DEF Init, ActiveOK
<1>4. last.decision = "None" /\ "decision" \in DOMAIN last
  BY DEF Init
<1>5. RangeRespected /\ ScaleInOnlyBelowTargets /\ ScaledownStepRespected
  BY <1>4 DEF RangeRespected, ScaleInOnlyBelowTargets, ScaledownStepRespected
<1>6. MinutesAccounted
  BY DEF Init, MinutesAccounted, Start
<1> QED BY <1>1, <1>2, <1>3, <1>4, <1>5, <1>6 DEF IndInv, SimPUValid

\* Every tick keeps the invariant and respects the cooldown.
LEMMA NextInv == IndInv /\ [Next]_vars => IndInv' /\ (CooledDown \/ UNCHANGED vars)
<1> SUFFICES ASSUME IndInv, [Next]_vars PROVE IndInv' /\ (CooledDown \/ UNCHANGED vars)
  OBVIOUS
<1>1. CASE ReplayTick
  <2>1. PICK p \in Points, dt \in Gaps :
           now + dt <= MaxTime /\ Replay(p, dt) /\ now' = now + dt /\ done' = done
    BY <1>1 DEF ReplayTick
  <2>2. dt \in Nat
    BY GapsAssumption
  <2>3. /\ TickSound /\ CountersAdded(dt) /\ ActiveOK(active')
        /\ spec' = spec /\ prevTick' = now /\ ~done
    BY <2>1, <2>2, ReplaySound
  <2>4. TypeOK'
    <3>1. now' \in Start .. MaxTime /\ now \in 0 .. now' /\ now \in Nat /\ now' \in Nat
      BY <2>1, <2>2, GapsAssumption DEF IndInv, TypeOK, Start
    <3>2. lastScaleTime' \in 0 .. now' /\ prevTick' \in 0 .. now'
      BY <2>3, <3>1 DEF IndInv, TypeOK, TickSound
    <3>3. simPU' \in Nat \ {0}
      BY <2>3 DEF TickSound, SimPUValid, ValidPU
    <3>4. done' \in BOOLEAN /\ spec' \in Specs
      BY <2>1, <2>3 DEF IndInv, TypeOK
    <3> QED BY <2>3, <3>1, <3>2, <3>3, <3>4 DEF TypeOK, ActiveOK, CountersAdded, Counters
  <2>5. MinutesAccounted'
    BY <2>1, <2>2, <2>3, MinutesStay DEF IndInv
  <2> QED BY <2>3, <2>4, <2>5 DEF IndInv, TickSound
<1>2. CASE ReplayLastTick
  <2> DEFINE dt == LastTickDuration
  <2>1. PICK p \in Points : Replay(p, dt) /\ done' = TRUE /\ now' = now
    BY <1>2 DEF ReplayLastTick
  <2>2. dt \in Nat /\ dt <= 1
    BY LastTickBounds DEF IndInv
  <2> HIDE DEF dt
  <2>3. /\ TickSound /\ CountersAdded(dt) /\ ActiveOK(active')
        /\ spec' = spec /\ prevTick' = now /\ ~done
    BY <2>1, <2>2, ReplaySound
  <2>4. TypeOK'
    <3>1. now' \in Start .. MaxTime /\ now \in 0 .. now'
      BY <2>1, GapsAssumption DEF IndInv, TypeOK, Start
    <3>2. lastScaleTime' \in 0 .. now' /\ prevTick' \in 0 .. now'
      BY <2>1, <2>3, <3>1 DEF IndInv, TypeOK, TickSound
    <3>3. simPU' \in Nat \ {0}
      BY <2>3 DEF TickSound, SimPUValid, ValidPU
    <3>4. done' \in BOOLEAN /\ spec' \in Specs
      BY <2>1, <2>3 DEF IndInv, TypeOK
    <3> QED BY <2>3, <3>1, <3>2, <3>3, <3>4 DEF TypeOK, ActiveOK, CountersAdded, Counters
  <2>5. MinutesAccounted'
    BY <2>1, <2>2, <2>3, MinutesStay DEF IndInv
  <2> QED BY <2>3, <2>4, <2>5 DEF IndInv, TickSound
<1>3. CASE UNCHANGED vars
  BY <1>3 DEF IndInv, TypeOK, SimPUValid, ActiveOK, RangeRespected, ScaleInOnlyBelowTargets,
              ScaledownStepRespected, MinutesAccounted, vars
<1> QED BY <1>1, <1>2, <1>3 DEF Next

\* The inductive invariant holds of every replay.
LEMMA Invariance == Spec => []IndInv
<1>1. IndInv /\ [Next]_vars => IndInv'
  BY NextInv
<1> QED BY InitInv, <1>1, PTL DEF Spec

\* The variables keep the shapes the loop in Run gives them.
THEOREM TypeCorrect == Spec => []TypeOK
<1>1. IndInv => TypeOK
  BY DEF IndInv
<1> QED BY <1>1, Invariance, PTL

\* The simulated instance always has a size that Cloud Spanner accepts, for all
\* valid configurations, traces and schedules of whole hundreds.
THEOREM SizesValid == Spec => []SimPUValid
<1>1. IndInv => SimPUValid
  BY DEF IndInv
<1> QED BY <1>1, Invariance, PTL

\* A tick that nothing held back leaves the instance inside the range of the spec
\* and the schedules active at that tick.
THEOREM RangeKept == Spec => []RangeRespected
<1>1. IndInv => RangeRespected
  BY DEF IndInv
<1> QED BY <1>1, Invariance, PTL

\* No replayed scale-in while a configured metric is at or above its target,
\* unless the instance is above the range.
THEOREM ScaleInSound == Spec => []ScaleInOnlyBelowTargets
<1>1. IndInv => ScaleInOnlyBelowTargets
  BY DEF IndInv
<1> QED BY <1>1, Invariance, PTL

\* No replayed scale-in removes more than the scale-down step, unless it ends at
\* the maximum of the range.
THEOREM StepKept == Spec => []ScaledownStepRespected
<1>1. IndInv => ScaledownStepRespected
  BY DEF IndInv
<1> QED BY <1>1, Invariance, PTL

\* The minute counters account for the whole trace, whatever its gaps.
THEOREM MinutesKept == Spec => []MinutesAccounted
<1>1. IndInv => MinutesAccounted
  BY DEF IndInv
<1> QED BY <1>1, Invariance, PTL

\* Two scale events are apart by the cooldown of the later one's direction.
THEOREM CooldownKept == Spec => EventsCooledDown
<1>1. IndInv /\ [Next]_vars => [CooledDown]_vars
  BY NextInv
<1>2. [][CooledDown]_vars => EventsCooledDown
  BY PTL DEF EventsCooledDown, CooledDown
<1> QED BY <1>1, <1>2, Invariance, PTL DEF Spec
=============================================================================
