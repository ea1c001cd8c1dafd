------------------------------ MODULE Recommend ------------------------------
(***************************************************************************)
(* `simulator recommend`: the search for a cheaper configuration.  Every   *)
(* combination of candidate values is replayed against the recorded        *)
(* points, by concurrent goroutines under a semaphore; the results are     *)
(* ranked, and one of them, or none, is proposed.                          *)
(*                                                                         *)
(* Data abstractions.                                                      *)
(*  - A configuration is a specification of Validation; overrides are a    *)
(*    function from parameter names to values.                             *)
(*  - What a replay reports is chosen from Outcomes (Simulator has the     *)
(*    replay itself): the same effective configuration gives the same      *)
(*    outcome.                                                             *)
(*  - Savings are compared without the division by the recorded PU-hours,  *)
(*    scale-down rates without the division by the interval.               *)
(***************************************************************************)
EXTENDS Validation, SequencesExt

CONSTANTS
    Jobs,             \* invocations: [manifest, points, space, auto, limits, maxChanges, tolerance]
    Outcomes,         \* summaries a replay may end with
    Flags,            \* -scale-down-interval and -scale-up-interval
    ActualPUHours,    \* PU-hours of the recording
    MaxCombinations,  \* maxRecommendCombinations
    Procs             \* GOMAXPROCS

ASSUME ProcsAssumption == Procs \in Nat \ {0} /\ MaxCombinations \in Nat
ASSUME HoursAssumption == ActualPUHours \in Nat \ {0}
ASSUME FlagsAssumption == Flags.down \in Nat \ {0} /\ Flags.up \in Nat \ {0}

VARIABLES
    job,         \* the invocation, its configuration defaulted
    phase,       \* "load", "search", "done" or "error"
    space,       \* parameter -> sequence of candidate values
    base,        \* the summary of the unmodified configuration
    launched,    \* number of goroutines started
    running,     \* the ones that have not finished
    slots,       \* candidates[i], Pending until evaluated
    candidates,  \* the ranked candidates
    choice       \* what RecommendedIndex returned; 0 stands for -1

vars == <<job, phase, space, base, launched, running, slots, candidates, choice>>

Pending == [error |-> FALSE, feasible |-> FALSE, sa |-> Nil]
NoSummary == [cost |-> 0, exceeded |-> 0, gaps |-> 0, steps |-> 0, missing |-> 0,
              p99 |-> [m \in {} |-> 0]]

DefaultScaleDownInterval == 55
GuidelineGaps == <<10, 30>>

OverrideKeys == <<"minPU", "scaledownStepSize", "scaledownInterval", "scaledownAllowedTimes",
                  "scaleupStepSize", "scaleupInterval", "highPriority", "total">>

-----------------------------------------------------------------------------
(* Candidate values                                                        *)

\* Defect: the rank is rounded down.
PercentileFloor(sorted, q) == sorted[Max({(q * Len(sorted)) \div 100, 1})]

\* The nearest-rank percentile.
percentile(sorted, q) == sorted[Max({(q * Len(sorted) + 99) \div 100, 1})]

\* The PUs with which the recorded workload sits on its targets.
requiredPU(sa, p) ==
    LET need == {(p.cpu[m] * p.pu) \div sa.target[m] :
                    m \in {m \in DOMAIN sa.target \cap DOMAIN p.cpu :
                              sa.target[m] > 0 /\ p.cpu[m] * p.pu > 0}}
    IN  IF need = {} THEN 0 ELSE NextValidPU(Max(need))

Required(sa, points) ==
    SortSeq(SelectSeq([i \in DOMAIN points |-> requiredPU(sa, points[i])], LAMBDA r : r > 0), <)

Percentiles == {50, 75, 90, 95, 99}

MinPUCandidates(sa, points) ==
    LET required == Required(sa, points)
        atLeast(q) == Max({percentile(required, q), 100})
        clamped(q) == IF sa.pu.max > 0 THEN Min({atLeast(q), sa.pu.max}) ELSE atLeast(q)
    IN  IF required = <<>> THEN <<>>
        ELSE SetToSortSeq({sa.pu.min} \cup {clamped(q) : q \in Percentiles}, <)

appendMissing(values, current) ==
    IF current \in ToSet(values) THEN values ELSE Append(values, current)

\* Defect: a guideline value takes the place of an unset interval.
FillForgetsUnset(sp, sa) ==
    LET steps  == [i \in 1 .. 4 |-> [kind |-> "percent", val |-> 5 * i]]
        fill(k, values) == IF sp[k] = <<>> THEN values ELSE sp[k]
    IN  [sp EXCEPT
          !["scaledownStepSize"] = fill("scaledownStepSize", appendMissing(steps, sa.down)),
          !["scaledownInterval"] = fill("scaledownInterval", GuidelineGaps),
          !["scaleupInterval"] = fill("scaleupInterval", GuidelineGaps)]

FillGuidelineStepCandidates(sp, sa) ==
    LET steps  == [i \in 1 .. 4 |-> [kind |-> "percent", val |-> 5 * i]]
        fill(k, values) == IF sp[k] = <<>> THEN values ELSE sp[k]
    IN  [sp EXCEPT
          !["scaledownStepSize"] = fill("scaledownStepSize", appendMissing(steps, sa.down)),
          !["scaledownInterval"] = fill("scaledownInterval",
              appendMissing(GuidelineGaps, DurationOr(sa.downInterval, Flags.down))),
          !["scaleupInterval"] = fill("scaleupInterval",
              appendMissing(GuidelineGaps, DurationOr(sa.upInterval, Flags.up)))]

\* -auto fills the dimensions the caller left empty.
AutoFilled(sp, sa, points) ==
    LET filled == FillGuidelineStepCandidates(sp, sa) IN
    [filled EXCEPT !["minPU"] = IF @ = <<>> THEN MinPUCandidates(sa, points) ELSE @]

\* A parameter without candidates keeps the base value.
Extended(combos, key, values) ==
    IF values = <<>> THEN combos
    ELSE [n \in 1 .. Len(combos) * Len(values) |->
            combos[(n - 1) \div Len(values) + 1] @@ (key :> values[((n - 1) % Len(values)) + 1])]

cartesian(sp) ==
    FoldLeft(LAMBDA combos, key : Extended(combos, key, sp[key]), <<[k \in {} |-> 0]>>, OverrideKeys)

Combos == cartesian(space)

-----------------------------------------------------------------------------
(* Overrides                                                               *)

Overridden(o, key, old) == IF key \in DOMAIN o THEN o[key] ELSE old

\* Choosing allowed times drops the complementary list.
Applied(o, sa) ==
    [sa EXCEPT !.pu.min = Overridden(o, "minPU", @),
               !.down = Overridden(o, "scaledownStepSize", @),
               !.downInterval = Overridden(o, "scaledownInterval", @),
               !.allowed = Overridden(o, "scaledownAllowedTimes", @),
               !.notAllowed = IF "scaledownAllowedTimes" \in DOMAIN o THEN {} ELSE @,
               !.up = Overridden(o, "scaleupStepSize", @),
               !.upInterval = Overridden(o, "scaleupInterval", @),
               !.target = [m \in DOMAIN @ \cup (CPUMetrics \cap DOMAIN o) |->
                              IF m \in DOMAIN o THEN o[m] ELSE sa.target[m]]]

\* A list of times that no candidate can be equal to.
NotAllowedTimes == {{Nil}}

CurrentParameterValues(sa) ==
    [key \in ToSet(OverrideKeys) |->
        CASE key = "minPU" -> sa.pu.min
          [] key = "scaledownStepSize" -> sa.down
          [] key = "scaledownInterval" -> DurationOr(sa.downInterval, Flags.down)
          [] key = "scaledownAllowedTimes" ->
               IF sa.allowed = {} /\ sa.notAllowed # {} THEN NotAllowedTimes ELSE sa.allowed
          [] key = "scaleupStepSize" -> sa.up
          [] key = "scaleupInterval" -> DurationOr(sa.upInterval, Flags.up)
          [] OTHER -> IF key \in DOMAIN sa.target THEN sa.target[key] ELSE Nil]

Current == CurrentParameterValues(job.manifest)

changedParameterCount(c) == Cardinality({k \in DOMAIN c.overrides : c.overrides[k] # Current[k]})

-----------------------------------------------------------------------------
(* Evaluation                                                              *)

\* limits: [exceeded, p99, ceiling, guideline]; 0 is "no cap" for the second
\* and the third.
Cap(limits, ofBase) ==
    CASE limits.guideline = "base" -> ofBase
      [] limits.guideline = "strict" -> 0
      [] OTHER -> Nil

infeasible(sa, s) ==
    LET limits == job.limits
        above(x, cap) == cap # Nil /\ x > cap
    IN  \/ s.exceeded > limits.exceeded
        \/ limits.p99 > 0 /\ \E m \in DOMAIN s.p99 : s.p99[m] > limits.p99
        \/ limits.ceiling > 0 /\ "highPriority" \in DOMAIN sa.target
             /\ sa.target["highPriority"] > limits.ceiling
        \/ limits.ceiling > 0 /\ "highPriority" \in DOMAIN s.p99
             /\ s.p99["highPriority"] > limits.ceiling
        \/ above(s.steps, Cap(limits, base.steps))
        \/ above(s.gaps, Cap(limits, base.gaps))
        \/ s.missing > base.missing

\* Defect: what admission would refuse is replayed as well.
Accepted(sa) == TRUE

Replayable(sa) == validateSpec(sa)

Evaluated(i, sa, s) ==
    [combo |-> i, overrides |-> Combos[i], sa |-> sa, summary |-> s, error |-> FALSE,
     feasible |-> ~infeasible(sa, s)]

Refused(i, sa) ==
    [combo |-> i, overrides |-> Combos[i], sa |-> sa, summary |-> NoSummary, error |-> TRUE,
     feasible |-> FALSE]

\* What a replay depends on: an unset interval is the flag's.
Effective(sa) == [sa EXCEPT !.downInterval = DurationOr(@, Flags.down),
                            !.upInterval = DurationOr(@, Flags.up)]

\* Replaying one configuration twice gives one outcome.
Consistent(sa, s) ==
    /\ Effective(sa) = Effective(job.manifest) => s = base
    /\ \A j \in DOMAIN slots :
         slots[j] # Pending /\ ~slots[j].error /\ Effective(slots[j].sa) = Effective(sa)
           => s = slots[j].summary

-----------------------------------------------------------------------------
(* Ranking and choice                                                      *)

RankedBefore(a, b) ==
    IF a.feasible # b.feasible THEN a.feasible
    ELSE IF a.summary.cost # b.summary.cost THEN a.summary.cost < b.summary.cost
    ELSE changedParameterCount(a) < changedParameterCount(b)

\* slices.SortStableFunc
SortedStably(cs) ==
    LET before(i, j) == RankedBefore(cs[i], cs[j]) \/ (~RankedBefore(cs[j], cs[i]) /\ i < j)
        place(i) == 1 + Cardinality({j \in DOMAIN cs : before(j, i)})
    IN  [p \in DOMAIN cs |-> cs[CHOOSE i \in DOMAIN cs : place(i) = p]]

\* Savings, in 1/ActualPUHours percent points.
Saved(c) == (ActualPUHours - c.summary.cost) * 100
Tolerance == job.tolerance * ActualPUHours

\* PU per minute, as a fraction: the resolved step at the base minimum, and the
\* interval it is taken in.
scaledownRate(c) ==
    LET interval == DurationOr(c.sa.downInterval, DefaultScaleDownInterval) IN
    [pu |-> IF job.manifest.pu.min <= 0 THEN 0
            ELSE ResolveScaledownStep(c.sa.down, job.manifest.pu.min),
     minutes |-> IF interval <= 0 THEN 1 ELSE interval]

\* Defect: the measured risk is compared before the rate.
lessRiskyMeasured(a, b) ==
    IF a.summary.exceeded # b.summary.exceeded THEN a.summary.exceeded < b.summary.exceeded
    ELSE IF a.summary.gaps # b.summary.gaps THEN a.summary.gaps < b.summary.gaps
    ELSE a.summary.cost < b.summary.cost

lessRisky(a, b) ==
    LET ra == scaledownRate(a).pu * scaledownRate(b).minutes
        rb == scaledownRate(b).pu * scaledownRate(a).minutes
        ca == changedParameterCount(a)
        cb == changedParameterCount(b)
    IN  IF ra # rb THEN ra < rb
        ELSE IF a.summary.exceeded # b.summary.exceeded THEN a.summary.exceeded < b.summary.exceeded
        ELSE IF a.summary.gaps # b.summary.gaps THEN a.summary.gaps < b.summary.gaps
        ELSE IF ca # cb THEN ca < cb
        ELSE a.summary.cost < b.summary.cost

eligible(c) == c.feasible /\ c.summary.cost < base.cost

\* Defect: the change budget is exclusive.
InPoolBelow(c) ==
    eligible(c) /\ (job.maxChanges <= 0 \/ changedParameterCount(c) < job.maxChanges)

inPool(c) == eligible(c) /\ (job.maxChanges <= 0 \/ changedParameterCount(c) <= job.maxChanges)

\* The first of the cheapest among the candidates of S.
FirstCheapest(cs, S) ==
    Min({i \in S : \A j \in S : cs[i].summary.cost <= cs[j].summary.cost})

Keep == [rec |-> 0, further |-> 0]

\* Defect: whatever is cheaper is a further option.
FurtherAnyCheaper(cs, rec, cheapest) ==
    IF Saved(cs[cheapest]) > Saved(cs[rec]) THEN cheapest ELSE 0

Further(cs, rec, cheapest) ==
    IF cheapest # rec /\ Saved(cs[cheapest]) > Saved(cs[rec]) + Tolerance THEN cheapest ELSE 0

RecommendedIndex(cs) ==
    LET feasible == {i \in DOMAIN cs : cs[i].feasible}
        cheapest == FirstCheapest(cs, feasible)
        pool     == {i \in DOMAIN cs : inPool(cs[i])}
        poolBest == FirstCheapest(cs, pool)
        near(i)  == i \in pool /\ Saved(cs[i]) >= Saved(cs[poolBest]) - Tolerance
        scan(best, i) == IF near(i) /\ lessRisky(cs[i], cs[best]) THEN i ELSE best
        rec      == FoldLeft(scan, poolBest, [i \in DOMAIN cs |-> i])
    IN  IF feasible = {} THEN Keep
        ELSE IF ~eligible(cs[cheapest]) \/ pool = {} THEN Keep
        ELSE [rec |-> rec, further |-> Further(cs, rec, cheapest)]

-----------------------------------------------------------------------------
(* Steps                                                                   *)

\* runRecommend up to the call of Recommend: candidates are filled in and the
\* unmodified configuration is replayed; a grid above the limit is refused.
Load ==
    /\ phase = "load"
    /\ \E s \in Outcomes : base' = s
    /\ space' = IF job.auto THEN AutoFilled(job.space, job.manifest, job.points) ELSE job.space
    /\ LET total == Len(cartesian(space')) IN
         /\ phase' = IF total > MaxCombinations THEN "error" ELSE "search"
         /\ slots' = IF total > MaxCombinations THEN <<>> ELSE [i \in 1 .. total |-> Pending]
    /\ UNCHANGED <<job, launched, running, candidates, choice>>

\* Defect: no semaphore.
LaunchAll ==
    /\ phase = "search" /\ launched < Len(slots)
    /\ launched' = launched + 1
    /\ running' = running \cup {launched'}
    /\ UNCHANGED <<job, phase, space, base, slots, candidates, choice>>

\* sem <- struct{}{} blocks while Procs goroutines hold it.
Launch ==
    /\ phase = "search" /\ launched < Len(slots)
    /\ Cardinality(running) < Procs
    /\ launched' = launched + 1
    /\ running' = running \cup {launched'}
    /\ UNCHANGED <<job, phase, space, base, slots, candidates, choice>>

\* Defect: results are stored in the order they arrive in.
FinishAppends(i) ==
    /\ i \in running
    /\ LET sa == Applied(Combos[i], job.manifest)
           free == Min({j \in DOMAIN slots : slots[j] = Pending})
       IN
         \/ /\ Replayable(sa)
            /\ \E s \in Outcomes : Consistent(sa, s) /\ slots' = [slots EXCEPT ![free] = Evaluated(i, sa, s)]
         \/ ~Replayable(sa) /\ slots' = [slots EXCEPT ![free] = Refused(i, sa)]
    /\ running' = running \ {i}
    /\ UNCHANGED <<job, phase, space, base, launched, candidates, choice>>

Finish(i) ==
    /\ i \in running
    /\ LET sa == Applied(Combos[i], job.manifest) IN
         \/ /\ Replayable(sa)
            /\ \E s \in Outcomes : Consistent(sa, s) /\ slots' = [slots EXCEPT ![i] = Evaluated(i, sa, s)]
         \/ ~Replayable(sa) /\ slots' = [slots EXCEPT ![i] = Refused(i, sa)]
    /\ running' = running \ {i}
    /\ UNCHANGED <<job, phase, space, base, launched, candidates, choice>>

wgWait == running = {} /\ launched = Len(slots)

Conclude ==
    /\ phase = "search" /\ wgWait
    /\ phase' = "done"
    /\ candidates' = SortedStably(slots)
    /\ choice' = RecommendedIndex(candidates')
    /\ UNCHANGED <<job, space, base, launched, running, slots>>

Init ==
    /\ job \in {[j EXCEPT !.manifest = Default(@)] : j \in Jobs}
    /\ phase = "load"
    /\ space = job.space
    /\ base = NoSummary
    /\ launched = 0 /\ running = {}
    /\ slots = <<>> /\ candidates = <<>>
    /\ choice = Keep

\* The process ends only here: anywhere else, a state without a step would be a
\* goroutine blocked for good.
Exit == phase \in {"done", "error"} /\ UNCHANGED vars

Next == Load \/ Launch \/ (\E i \in running : Finish(i)) \/ Conclude \/ Exit

Spec == Init /\ [][Next]_vars

-----------------------------------------------------------------------------
(* Properties                                                              *)

\* The variables have the shapes Recommend gives them, and no more than
\* GOMAXPROCS replays run at a time.
TypeOK ==
    /\ phase \in {"load", "search", "done", "error"}
    /\ launched \in 0 .. Len(slots)
    /\ running \subseteq 1 .. launched /\ Cardinality(running) <= Procs
    /\ choice.rec \in 0 .. Len(candidates) /\ choice.further \in 0 .. Len(candidates)

\* Two runs over the same input print the same table, whichever goroutine ends
\* first: every combination is listed once, "feasible ones first, each group
\* ordered by ascending simulated PU-hours", then by changed parameters, and what
\* is still equal in the order of the grid.
RankingDeterministic ==
    phase = "done" =>
        /\ {candidates[p].combo : p \in DOMAIN candidates} = DOMAIN Combos
        /\ Len(candidates) = Len(Combos)
        /\ \A p \in 1 .. Len(candidates) - 1 :
             LET a == candidates[p]
                 b == candidates[p + 1]
                 ca == changedParameterCount(a)
                 cb == changedParameterCount(b)
             IN  \/ a.feasible /\ ~b.feasible
                 \/ /\ a.feasible = b.feasible
                    /\ \/ a.summary.cost < b.summary.cost
                       \/ a.summary.cost = b.summary.cost /\ ca < cb
                       \/ a.summary.cost = b.summary.cost /\ ca = cb /\ a.combo < b.combo

WithinBudget(c) == job.maxChanges > 0 => changedParameterCount(c) <= job.maxChanges
Better(c) == c.feasible /\ c.summary.cost < base.cost /\ WithinBudget(c)
Proposed == phase = "done" /\ choice.rec # 0
Chosen == candidates[choice.rec]
Listed == {candidates[p] : p \in DOMAIN candidates}

\* The proposal is feasible, cheaper than the current configuration and within
\* the change budget; nothing in the budget saves more by over the tolerance; and
\* of what saves about as much as the best none scales down more gently, or
\* equally gently with less time above target ("the gentlest scale-down first,
\* then the measured risk counters").
RecommendationSound ==
    Proposed =>
        /\ Better(Chosen)
        /\ \A c \in Listed : Better(c) =>
             LET mine   == scaledownRate(Chosen).pu * scaledownRate(c).minutes
                 theirs == scaledownRate(c).pu * scaledownRate(Chosen).minutes
                 near   == \A d \in Listed : Better(d) => Saved(c) >= Saved(d) - Tolerance
             IN  /\ Saved(c) <= Saved(Chosen) + Tolerance
                 /\ near => /\ mine <= theirs
                            /\ mine = theirs => Chosen.summary.exceeded <= c.summary.exceeded

\* "Keep the current configuration" is said only when no feasible candidate in
\* the change budget is cheaper.
KeptOnlyWhenNothingBetter ==
    phase = "done" /\ choice.rec = 0 => \A c \in Listed : ~Better(c)

\* The further option is worth a second step: it is the cheapest feasible
\* candidate, and it was out of reach of the first step, since within the change
\* budget nothing saves that much more.
FurtherNeedsMoreChanges ==
    phase = "done" /\ choice.further # 0 =>
        LET f == candidates[choice.further] IN
        /\ f.feasible /\ ~WithinBudget(f)
        /\ \A c \in Listed : c.feasible => f.summary.cost <= c.summary.cost

\* "A recommendation nobody can apply is worthless": applied to the object, the
\* proposal passes the schema and the webhooks, and defaulting leaves it as it
\* was replayed.  (For a configuration in PUs: where it is in nodes, defaulting
\* undoes a new minimum.)
RecommendationApplies ==
    Proposed /\ job.manifest.nodes = Zero =>
        /\ SchemaAccepts(Chosen.sa) /\ ValidateUpdate(job.manifest, Chosen.sa)
        /\ Default(Chosen.sa) = Chosen.sa

\* The generated minima are the p50 to p99 of what the workload needed: for each
\* percentile one of them is enough for that share of the points (or is the
\* maximum), and the next smaller need is not.
MinimaCoverWorkload ==
    LET required == Required(job.manifest, job.points)
        upTo(v)  == Cardinality({i \in DOMAIN required : required[i] <= v}) * 100
        below(v) == Cardinality({i \in DOMAIN required : required[i] < v}) * 100
    IN  phase # "load" /\ job.auto /\ job.space["minPU"] = <<>> /\ required # <<>> =>
          \A q \in Percentiles : \E v \in ToSet(space["minPU"]) :
              /\ ValidPU(v)
              /\ upTo(v) >= q * Len(required) \/ v = job.manifest.pu.max
              /\ below(v) < q * Len(required)

\* "Combinations that change only the other parameters stay in the search": with
\* -auto, and as long as the caller's own lists hold the current values, one
\* candidate changes nothing, and it replays exactly as the current configuration.
CurrentStaysInSearch ==
    /\ phase = "done" /\ job.auto /\ validateSpec(job.manifest)
    /\ \A k \in ToSet(OverrideKeys) :
         job.space[k] # <<>> => Current[k] \in ToSet(job.space[k])
    => \E c \in Listed : changedParameterCount(c) = 0 /\ ~c.error /\ c.summary = base
=============================================================================
