---------------------------- MODULE MCRecommend ----------------------------
(***************************************************************************)
(* Small searches: up to five combinations, two replays at a time.         *)
(***************************************************************************)
EXTENDS Recommend

Whole(n) == [kind |-> "int", val |-> n]
Percent(n) == [kind |-> "percent", val |-> n]
HighPriority(n) == [m \in {"highPriority"} |-> n]

InPUs ==
    [instance |-> "i", key |-> FALSE, impersonate |-> FALSE, type |-> "", computeType |-> "",
     nodes |-> Zero, pu |-> [min |-> 2000, max |-> 5000], down |-> UnsetStep, up |-> UnsetStep,
     downInterval |-> Nil, upInterval |-> Nil, target |-> HighPriority(60),
     allowed |-> {}, notAllowed |-> {}]

InNodes == [InPUs EXCEPT !.pu = Zero, !.nodes = [min |-> 2, max |-> 5]]
Blocked == [InPUs EXCEPT !.notAllowed = {{3}}, !.downInterval = 30]

Nothing == [k \in ToSet(OverrideKeys) |-> <<>>]
Lists(l) == l @@ Nothing

Recorded == << [pu |-> 1000, cpu |-> HighPriority(30)], [pu |-> 2000, cpu |-> HighPriority(50)],
               [pu |-> 5000, cpu |-> HighPriority(70)], [pu |-> 1000, cpu |-> [m \in {} |-> 0]] >>

Limits(guideline) == [exceeded |-> 2, p99 |-> 80, ceiling |-> 65, guideline |-> guideline]

Search(sa, lists, auto, guideline, maxChanges) ==
    [manifest |-> sa, points |-> Recorded, space |-> Lists(lists), auto |-> auto,
     limits |-> Limits(guideline), maxChanges |-> maxChanges, tolerance |-> 2]

Fixed == ("scaledownStepSize" :> <<Whole(2000)>>) @@ ("scaledownInterval" :> <<55>>)
         @@ ("scaleupInterval" :> <<1>>)

MCJobs ==
    {\* listed minima, one above the maximum, and steps
     Search(sa, ("minPU" :> <<500, 6000>>) @@ ("scaledownStepSize" :> <<Whole(2000), Percent(10)>>),
            FALSE, "base", n) : sa \in {InPUs, InNodes}, n \in {0, 1}}
    \cup
    {\* generated minima; generated intervals
     Search(InPUs, Fixed, TRUE, "strict", 1),
     Search(InPUs, ("minPU" :> <<2000>>) @@ ("scaledownStepSize" :> <<Whole(2000)>>)
                   @@ ("scaleupInterval" :> <<1>>), TRUE, "none", 1),
     \* windows and targets
     Search(Blocked, ("scaledownAllowedTimes" :> <<{}, {{1}}>>) @@ ("highPriority" :> <<50, 70>>),
            FALSE, "base", 2),
     \* everything generated: above the limit
     Search(InPUs, Fixed @@ ("minPU" :> <<500, 1000, 2000, 3000, 4000, 5000>>), TRUE, "base", 1)}

Summary(cost, exceeded, gaps, steps, missing, p99) ==
    [cost |-> cost, exceeded |-> exceeded, gaps |-> gaps, steps |-> steps,
     missing |-> missing, p99 |-> HighPriority(p99)]

MCOutcomes == {Summary(60, 0, 0, 0, 1, 60), Summary(61, 2, 1, 0, 1, 62),
               Summary(61, 1, 0, 1, 1, 60), Summary(70, 0, 0, 0, 0, 60),
               Summary(50, 3, 0, 0, 1, 85), Summary(80, 1, 1, 1, 1, 60)}
MCFlags == [down |-> 55, up |-> 1]
=============================================================================
