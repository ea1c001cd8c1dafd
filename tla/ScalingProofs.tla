---------------------------- MODULE ScalingProofs ----------------------------
(***************************************************************************)
(* What the operators of Scaling return, for every input.                  *)
(***************************************************************************)
EXTENDS Scaling, TLAPS

\* An increment that keeps a valid size valid below and above 1000.
WholeStep(size) ==
    /\ size \in Nat
    /\ size < 1000 => size % 100 = 0
    /\ size >= 1000 => size % 1000 = 0

\* The rounding of DesiredPUFromCPU yields a valid size.
LEMMA NextValidPUValid ==
    ASSUME NEW r \in Nat
    PROVE  NextValidPU(r) \in Nat /\ ValidPU(NextValidPU(r)) /\ NextValidPU(r) > r
<1>1. CASE r < 1000
  BY <1>1 DEF NextValidPU, ValidPU
<1>2. CASE r >= 1000
  BY <1>2 DEF NextValidPU, ValidPU
<1> QED BY <1>1, <1>2

\* Rounding whole hundreds up yields a valid size.
LEMMA RoundUpThousandValid ==
    ASSUME NEW pu \in Nat, pu > 0, pu % 100 = 0
    PROVE  /\ RoundUpThousand(pu) \in Nat
           /\ ValidPU(RoundUpThousand(pu))
           /\ RoundUpThousand(pu) >= pu
BY DEF RoundUpThousand, ValidPU

\* A step rounded down is whole, and no larger than asked for.
LEMMA RoundDownWhole ==
    ASSUME NEW size \in Nat
    PROVE  WholeStep(RoundDown(size)) /\ RoundDown(size) <= size
BY DEF RoundDown, WholeStep

\* So is the step a specification asks for, absolute or a percentage.
LEMMA RequestedStepWhole ==
    ASSUME NEW s \in Steps, NEW base \in Nat
    PROVE  WholeStep(RequestedStep(s, base))
<1>1. s.val \in Nat /\ s.val * base \in Nat
  BY DEF Steps
<1>2. (s.val * base) \div 100 \in Nat
  BY <1>1
<1>3. ScaledValue(s, base) \in Nat
  BY <1>1, <1>2 DEF ScaledValue
<1>4. (IF s.kind = "nil" THEN 0 ELSE ScaledValue(s, base)) \in Nat
  BY <1>3
<1> QED BY <1>4, RoundDownWhole DEF RequestedStep

\* A scale-down step is whole, positive, and whole thousands above 1000 PU.
LEMMA ScaledownStepWhole ==
    ASSUME NEW s \in Steps, NEW base \in Nat
    PROVE  LET size == ResolveScaledownStep(s, base) IN
           /\ WholeStep(size) /\ size > 0
           /\ base > 1000 => size >= 1000
<1> DEFINE size == RequestedStep(s, base)
<1>1. WholeStep(size)
  BY RequestedStepWhole
<1> HIDE DEF size
<1>2. ResolveScaledownStep(s, base) =
        IF s.kind = "bad" THEN 2000
        ELSE IF size < 1000 /\ base > 1000 THEN 1000
        ELSE IF size < 100 /\ base <= 1000 THEN 100
        ELSE size
  BY DEF ResolveScaledownStep, size
<1>3. CASE s.kind = "bad"
  BY <1>2, <1>3 DEF WholeStep
<1>4. CASE s.kind # "bad"
  BY <1>1, <1>2, <1>4 DEF WholeStep
<1> QED BY <1>3, <1>4

\* A scale-up step is whole; it may be zero, which is no limit.
LEMMA ScaleupStepWhole ==
    ASSUME NEW s \in Steps, NEW base \in Nat
    PROVE  WholeStep(ResolveScaleupStep(s, base))
<1> DEFINE size == RequestedStep(s, base)
<1>1. WholeStep(size)
  BY RequestedStepWhole
<1> HIDE DEF size
<1>2. ResolveScaleupStep(s, base) =
        IF s.kind = "bad" THEN 0
        ELSE IF size # 0 /\ size < 1000 /\ base + size > 1000 THEN 1000
        ELSE IF size # 0 /\ size < 100 /\ base + size <= 1000 THEN 100
        ELSE size
  BY DEF ResolveScaleupStep, size
<1>3. CASE s.kind = "bad"
  BY <1>2, <1>3 DEF WholeStep
<1>4. CASE s.kind # "bad"
  BY <1>1, <1>2, <1>4 DEF WholeStep
<1> QED BY <1>3, <1>4

\* The step limits keep a valid size valid: the floor of a scale-down and the
\* rounded-up ceiling of a scale-up never are intermediate values.
LEMMA StepLimitedValid ==
    ASSUME NEW spec, NEW status, NEW desired \in Nat, ValidPU(desired),
           status.current \in Nat, ValidPU(status.current),
           spec.scaledownStep \in Steps, spec.scaleupStep \in Steps
    PROVE  LET pu == StepLimited(desired, spec, status) IN pu \in Nat /\ ValidPU(pu)
<1> DEFINE cur == status.current
           down == ResolveScaledownStep(spec.scaledownStep, cur)
           up == ResolveScaleupStep(spec.scaleupStep, cur)
           kept == IF desired < cur - down THEN cur - down ELSE desired
<1>1. WholeStep(down) /\ (cur > 1000 => down >= 1000)
  BY ScaledownStepWhole
<1>2. WholeStep(up)
  BY ScaleupStepWhole
<1>3. StepLimited(desired, spec, status) =
        IF up # 0 /\ cur + up < kept THEN RoundUpThousand(cur + up) ELSE kept
  BY DEF StepLimited
<1>c. cur \in Nat /\ ValidPU(cur)
  OBVIOUS
<1> HIDE DEF cur, down, up
<1>4. kept \in Nat /\ ValidPU(kept)
  <2>1. CASE desired < cur - down
    <3>1. cur - down \in Nat /\ cur - down > 0
      BY <2>1, <1>1, <1>c DEF WholeStep, ValidPU
    <3>2. CASE cur > 1000
      BY <3>1, <3>2, <1>1, <1>c DEF WholeStep, ValidPU
    <3>3. CASE cur <= 1000
      BY <3>1, <3>3, <1>1, <1>c DEF WholeStep, ValidPU
    <3> QED BY <2>1, <3>2, <3>3, <1>c
  <2>2. CASE ~(desired < cur - down)
    BY <2>2
  <2> QED BY <2>1, <2>2
<1> HIDE DEF kept
<1>5. CASE up # 0 /\ cur + up < kept
  <2>1. cur + up \in Nat /\ cur + up > 0 /\ (cur + up) % 100 = 0
    BY <1>2, <1>c DEF WholeStep, ValidPU
  <2> QED BY <1>3, <1>5, <2>1, RoundUpThousandValid
<1>6. CASE ~(up # 0 /\ cur + up < kept)
  BY <1>3, <1>4, <1>6
<1> QED BY <1>5, <1>6

\* Clamping picks its argument or a bound, and lands in the range.
LEMMA ClampedInRange ==
    ASSUME NEW pu \in Nat, NEW lo \in Nat, NEW hi \in Nat, lo <= hi
    PROVE  /\ Clamped(pu, lo, hi) \in {pu, lo, hi}
           /\ lo <= Clamped(pu, lo, hi) /\ Clamped(pu, lo, hi) <= hi
BY DEF Clamped

\* The bounds DesiredPUFromCPU clamps to.
EffectiveRangeOK(spec, status) ==
    LET lo == EffectiveMin(spec, status)
        hi == EffectiveMax(spec, status)
    IN  lo \in Nat /\ hi \in Nat /\ ValidPU(lo) /\ ValidPU(hi) /\ lo <= hi

\* One metric's vote is a valid size within the range in force.
LEMMA DesiredPUFromCPUValid ==
    ASSUME NEW spec, NEW status, NEW cpu \in Nat, NEW target \in Nat \ {0},
           status.current \in Nat, ValidPU(status.current),
           spec.scaledownStep \in Steps, spec.scaleupStep \in Steps,
           EffectiveRangeOK(spec, status)
    PROVE  LET pu == DesiredPUFromCPU(cpu, target, spec, status) IN
           /\ pu \in Nat /\ ValidPU(pu)
           /\ EffectiveMin(spec, status) <= pu /\ pu <= EffectiveMax(spec, status)
<1> DEFINE required == (cpu * status.current) \div target
           lo == EffectiveMin(spec, status)
           hi == EffectiveMax(spec, status)
           pu == StepLimited(NextValidPU(required), spec, status)
<1>1. required \in Nat
  BY Z3
<1>2. pu \in Nat /\ ValidPU(pu)
  <2> HIDE DEF required
  <2> QED BY <1>1, NextValidPUValid, StepLimitedValid
<1>3. lo \in Nat /\ hi \in Nat /\ ValidPU(lo) /\ ValidPU(hi) /\ lo <= hi
  BY DEF EffectiveRangeOK
<1>4. DesiredPUFromCPU(cpu, target, spec, status) = Clamped(pu, lo, hi)
  BY DEF DesiredPUFromCPU
<1> HIDE DEF pu, lo, hi
<1>5. /\ Clamped(pu, lo, hi) \in {pu, lo, hi}
      /\ lo <= Clamped(pu, lo, hi) /\ Clamped(pu, lo, hi) <= hi
  BY <1>2, <1>3, ClampedInRange
<1> QED BY <1>2, <1>3, <1>4, <1>5 DEF lo, hi

\* Max of one or two numbers is one of them and the largest.
LEMMA MaxOfVotes ==
    ASSUME NEW S, NEW a \in Int, NEW b \in Int, S = {a, b}
    PROVE  Max(S) \in S /\ \A v \in S : v <= Max(S)
<1>1. \E x \in S : \A y \in S : x >= y
  <2>1. CASE a >= b
    BY <2>1
  <2>2. CASE b >= a
    BY <2>2
  <2> QED BY <2>1, <2>2
<1>2. Max(S) \in S /\ \A y \in S : Max(S) >= y
  BY <1>1 DEF Max
<1> QED BY <1>2

\* What the scaling package may assume of its two arguments.
InputOK(spec, status) ==
    /\ spec.scaledownStep \in Steps /\ spec.scaleupStep \in Steps
    /\ DOMAIN spec.target \subseteq CPUMetrics
    /\ \A m \in DOMAIN spec.target : spec.target[m] \in Nat \ {0}
    /\ status.current \in Nat /\ ValidPU(status.current)
    /\ \A m \in CPUMetrics : status.cpu[m] \in Nat
    /\ EffectiveRangeOK(spec, status)

\* Every configured metric votes, and the largest vote wins.
LEMMA DesiredIsAVote ==
    ASSUME NEW spec, NEW status, InputOK(spec, status),
           DOMAIN spec.target # {}, status.metricType = DOMAIN spec.target
    PROVE  LET vote(m) == DesiredPUFromCPU(status.cpu[m], spec.target[m], spec, status)
               pu == DesiredProcessingUnits(spec, status)
           IN  /\ \E m \in DOMAIN spec.target : pu = vote(m)
               /\ \A m \in DOMAIN spec.target : vote(m) <= pu
<1> DEFINE flags == DOMAIN spec.target
           vote(m) == DesiredPUFromCPU(status.cpu[m], spec.target[m], spec, status)
           votes == {vote(m) : m \in flags}
<1>1. DesiredProcessingUnits(spec, status) = Max(votes)
  BY DEF DesiredProcessingUnits
<1>2. \A m \in flags : vote(m) \in Int
  BY DesiredPUFromCPUValid DEF InputOK
<1>3. \E m, k \in flags : flags = {m, k}
  BY DEF InputOK, CPUMetrics
<1>4. PICK m, k \in flags : flags = {m, k}
  BY <1>3
<1> HIDE DEF vote
<1>5. votes = {vote(m), vote(k)}
  BY <1>4
<1>6. Max(votes) \in votes /\ \A v \in votes : v <= Max(votes)
  BY <1>2, <1>5, MaxOfVotes
<1> QED BY <1>1, <1>6 DEF vote

\* DesiredProcessingUnits asks for a valid size, and for one within the range
\* in force unless it holds the current size because the status was synced for
\* other metrics.
THEOREM DesiredProcessingUnitsValid ==
    ASSUME NEW spec, NEW status, InputOK(spec, status)
    PROVE  LET pu == DesiredProcessingUnits(spec, status) IN
           /\ pu \in Nat /\ ValidPU(pu)
           /\ status.metricType = DOMAIN spec.target /\ DOMAIN spec.target # {} =>
                EffectiveMin(spec, status) <= pu /\ pu <= EffectiveMax(spec, status)
<1>1. CASE DOMAIN spec.target # {} /\ status.metricType = DOMAIN spec.target
  <2>1. PICK m \in DOMAIN spec.target : DesiredProcessingUnits(spec, status) =
            DesiredPUFromCPU(status.cpu[m], spec.target[m], spec, status)
    BY <1>1, DesiredIsAVote
  <2> QED BY <2>1, DesiredPUFromCPUValid DEF InputOK
<1>2. CASE DOMAIN spec.target = {} \/ status.metricType # DOMAIN spec.target
  BY <1>2 DEF DesiredProcessingUnits, InputOK
<1> QED BY <1>1, <1>2

\* Integer division does not fall below an exact lower bound.
LEMMA DivAtLeast ==
    ASSUME NEW a \in Nat, NEW t \in Nat \ {0}, NEW c \in Nat, a >= t * c
    PROVE  a \div t >= c
<1> DEFINE q == a \div t
           r == a % t
<1>1. q \in Int /\ r \in Int /\ a = t * q + r /\ r < t
  BY Z3
<1>2. SUFFICES ASSUME q < c PROVE FALSE
  BY <1>1
<1> HIDE DEF q, r
<1>3. q + 1 <= c
  BY <1>1, <1>2
<1>4. t * (q + 1) <= t * c
  BY <1>1, <1>3, Z3
<1>5. t * (q + 1) = t * q + t
  BY <1>1, Z3
<1> QED BY <1>1, <1>4, <1>5

\* A metric at or above its target never votes for less than the current size,
\* unless the range forces it down.
LEMMA BusyMetricHolds ==
    ASSUME NEW spec, NEW status, InputOK(spec, status), NEW m \in DOMAIN spec.target,
           status.cpu[m] >= spec.target[m],
           status.current <= EffectiveMax(spec, status)
    PROVE  DesiredPUFromCPU(status.cpu[m], spec.target[m], spec, status) >= status.current
<1> DEFINE cpu == status.cpu[m]
           target == spec.target[m]
           cur == status.current
           required == (cpu * cur) \div target
           desired == NextValidPU(required)
           down == ResolveScaledownStep(spec.scaledownStep, cur)
           up == ResolveScaleupStep(spec.scaleupStep, cur)
           limited == StepLimited(desired, spec, status)
           lo == EffectiveMin(spec, status)
           hi == EffectiveMax(spec, status)
<1>1. cpu \in Nat /\ target \in Nat \ {0} /\ cur \in Nat /\ ValidPU(cur)
  BY DEF InputOK
<1>2. down \in Nat /\ WholeStep(up)
  BY ScaledownStepWhole, ScaleupStepWhole DEF InputOK, WholeStep
<1>3. lo \in Nat /\ hi \in Nat /\ lo <= hi
  BY DEF InputOK, EffectiveRangeOK
<1>4. cpu >= target /\ cur <= hi
  OBVIOUS
<1>5. DesiredPUFromCPU(cpu, target, spec, status) = Clamped(limited, lo, hi)
  BY <1>1 DEF DesiredPUFromCPU
<1>6. limited = LET kept == IF desired < cur - down THEN cur - down ELSE desired
                IN  IF up # 0 /\ cur + up < kept THEN RoundUpThousand(cur + up) ELSE kept
  BY DEF StepLimited
<1> HIDE DEF cpu, target, cur, down, up, limited, lo, hi
<1>7. required >= cur /\ required \in Nat
  <2>1. cpu * cur >= target * cur /\ cpu * cur \in Nat
    BY <1>1, <1>4, Z3
  <2>2. required \in Nat
    BY <1>1, <2>1, Z3
  <2> QED BY <1>1, <2>1, <2>2, DivAtLeast
<1> HIDE DEF required
<1>8. desired \in Nat /\ desired >= cur
  BY <1>1, <1>7, NextValidPUValid
<1> HIDE DEF desired
<1>9. limited \in Int /\ limited >= cur
  <2>1. (cur + up) \in Nat /\ (cur + up) % 100 = 0 /\ cur + up > 0
    BY <1>1, <1>2 DEF WholeStep, ValidPU
  <2>2. RoundUpThousand(cur + up) \in Nat /\ RoundUpThousand(cur + up) >= cur
    BY <2>1, <1>1, <1>2, RoundUpThousandValid DEF WholeStep
  <2> QED BY <1>1, <1>2, <1>6, <1>8, <2>2 DEF WholeStep
<1>10. Clamped(limited, lo, hi) >= cur
  BY <1>1, <1>3, <1>4, <1>9 DEF Clamped
<1> QED BY <1>5, <1>10 DEF cpu, target, cur

\* Scale-in asks for every configured metric to be below its target, or for an
\* instance above the range: the rule of dual CPU targets, for any readings,
\* targets, steps and ranges.
THEOREM ScaleInNeedsAllBelowTarget ==
    ASSUME NEW spec, NEW status, InputOK(spec, status),
           DesiredProcessingUnits(spec, status) < status.current
    PROVE  \/ \A m \in DOMAIN spec.target : status.cpu[m] < spec.target[m]
           \/ status.current > EffectiveMax(spec, status)
<1>1. DOMAIN spec.target # {} /\ status.metricType = DOMAIN spec.target
  BY DEF DesiredProcessingUnits, InputOK
<1>2. SUFFICES ASSUME NEW m \in DOMAIN spec.target, status.cpu[m] >= spec.target[m],
                      status.current <= EffectiveMax(spec, status)
               PROVE  FALSE
  BY DEF InputOK, EffectiveRangeOK
<1>3. DesiredPUFromCPU(status.cpu[m], spec.target[m], spec, status)
        <= DesiredProcessingUnits(spec, status)
  BY <1>1, DesiredIsAVote
<1>4. DesiredPUFromCPU(status.cpu[m], spec.target[m], spec, status) >= status.current
  BY <1>2, BusyMetricHolds
<1>5. DesiredPUFromCPU(status.cpu[m], spec.target[m], spec, status) \in Nat
  BY DesiredPUFromCPUValid DEF InputOK
<1>6. DesiredProcessingUnits(spec, status) \in Nat /\ status.current \in Nat
  BY DesiredProcessingUnitsValid DEF InputOK
<1> QED BY <1>3, <1>4, <1>5, <1>6

\* No vote is below what the scale-down step leaves, unless the range ends there.
LEMMA VoteAboveFloor ==
    ASSUME NEW spec, NEW status, InputOK(spec, status), NEW m \in DOMAIN spec.target
    PROVE  LET pu == DesiredPUFromCPU(status.cpu[m], spec.target[m], spec, status) IN
           \/ pu >= status.current - ResolveScaledownStep(spec.scaledownStep, status.current)
           \/ pu = EffectiveMax(spec, status)
<1> DEFINE cur == status.current
           required == (status.cpu[m] * cur) \div spec.target[m]
           desired == NextValidPU(required)
           down == ResolveScaledownStep(spec.scaledownStep, cur)
           up == ResolveScaleupStep(spec.scaleupStep, cur)
           limited == StepLimited(desired, spec, status)
           lo == EffectiveMin(spec, status)
           hi == EffectiveMax(spec, status)
<1>1. /\ status.cpu[m] \in Nat /\ spec.target[m] \in Nat \ {0}
      /\ cur \in Nat /\ ValidPU(cur)
  BY DEF InputOK
<1>2. down \in Nat /\ WholeStep(up)
  BY ScaledownStepWhole, ScaleupStepWhole DEF InputOK, WholeStep
<1>3. lo \in Nat /\ hi \in Nat /\ lo <= hi
  BY DEF InputOK, EffectiveRangeOK
<1>4. desired \in Nat
  <2>1. required \in Nat
    BY <1>1, Z3
  <2> QED BY <2>1, NextValidPUValid
<1>5. DesiredPUFromCPU(status.cpu[m], spec.target[m], spec, status) = Clamped(limited, lo, hi)
  BY <1>1 DEF DesiredPUFromCPU
<1>6. limited = LET kept == IF desired < cur - down THEN cur - down ELSE desired
                IN  IF up # 0 /\ cur + up < kept THEN RoundUpThousand(cur + up) ELSE kept
  BY DEF StepLimited
<1> HIDE DEF cur, down, up, desired, limited, lo, hi
<1>7. limited \in Int /\ limited >= cur - down
  <2>1. (cur + up) \in Nat /\ (cur + up) % 100 = 0 /\ cur + up > 0
    BY <1>1, <1>2 DEF WholeStep, ValidPU
  <2>2. RoundUpThousand(cur + up) \in Nat /\ RoundUpThousand(cur + up) >= cur
    BY <2>1, <1>1, <1>2, RoundUpThousandValid DEF WholeStep
  <2> QED BY <1>1, <1>2, <1>4, <1>6, <2>2 DEF WholeStep
<1>8. Clamped(limited, lo, hi) >= cur - down \/ Clamped(limited, lo, hi) = hi
  BY <1>1, <1>2, <1>3, <1>7 DEF Clamped
<1> QED BY <1>5, <1>8 DEF cur, down, hi

\* One decision removes at most the scale-down step, unless it brings an instance
\* above the range back to its maximum, for any readings, targets and steps.
THEOREM ScaleInWithinStep ==
    ASSUME NEW spec, NEW status, InputOK(spec, status),
           DesiredProcessingUnits(spec, status) < status.current
    PROVE  LET pu == DesiredProcessingUnits(spec, status) IN
           \/ status.current - pu <= ResolveScaledownStep(spec.scaledownStep, status.current)
           \/ pu = EffectiveMax(spec, status)
<1>1. DOMAIN spec.target # {} /\ status.metricType = DOMAIN spec.target
  BY DEF DesiredProcessingUnits, InputOK
<1>2. PICK m \in DOMAIN spec.target : DesiredProcessingUnits(spec, status) =
          DesiredPUFromCPU(status.cpu[m], spec.target[m], spec, status)
  BY <1>1, DesiredIsAVote
<1>3. DesiredProcessingUnits(spec, status) \in Nat /\ status.current \in Nat
  BY DesiredProcessingUnitsValid DEF InputOK
<1>4. ResolveScaledownStep(spec.scaledownStep, status.current) \in Nat
  BY <1>3, ScaledownStepWhole DEF InputOK, WholeStep
<1> QED BY <1>2, <1>3, <1>4, VoteAboveFloor

\* A valid size plus whole hundreds is whole hundreds.
LEMMA WholeHundreds ==
    ASSUME NEW pu \in Nat, ValidPU(pu), NEW add \in Nat, add % 100 = 0
    PROVE  pu + add \in Nat /\ pu + add > 0 /\ (pu + add) % 100 = 0
<1>1. pu % 100 = 0 /\ pu > 0
  BY DEF ValidPU
<1> QED BY <1>1

\* The range that DesiredPURange publishes is never inverted and consists of
\* valid sizes, when the schedules add whole hundreds.
THEOREM DesiredPURangeOrdered ==
    ASSUME NEW spec, spec.min \in Nat, spec.max \in Nat,
           ValidPU(spec.min), ValidPU(spec.max),
           NEW addMin \in Nat, addMin % 100 = 0,
           NEW addMax \in Nat, addMax % 100 = 0
    PROVE  LET range == DesiredPURange(spec, addMin, addMax) IN
           /\ range.min \in Nat /\ ValidPU(range.min)
           /\ range.max \in Nat /\ ValidPU(range.max)
           /\ range.min <= range.max
<1> DEFINE lo == RoundUpThousand(spec.min + addMin)
           hi == RoundUpThousand(spec.max + addMax)
<1>1. /\ spec.min + addMin \in Nat /\ spec.min + addMin > 0
      /\ (spec.min + addMin) % 100 = 0
      /\ spec.max + addMax \in Nat /\ spec.max + addMax > 0
      /\ (spec.max + addMax) % 100 = 0
  BY WholeHundreds
<1>2. lo \in Nat /\ ValidPU(lo) /\ hi \in Nat /\ ValidPU(hi)
  BY <1>1, RoundUpThousandValid
<1> HIDE DEF lo, hi
<1>3. DesiredPURange(spec, addMin, addMax) =
        [min |-> IF lo > hi THEN hi ELSE lo, max |-> hi, capped |-> lo > hi]
  BY DEF DesiredPURange, lo, hi
<1> QED BY <1>2, <1>3
=============================================================================
