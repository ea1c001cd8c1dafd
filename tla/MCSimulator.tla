----------------------------- MODULE MCSimulator -----------------------------
(***************************************************************************)
(* Small instances of Simulator: configurations below and above 1000 PU,   *)
(* absolute and percent steps, one and two CPU targets, windows, and two   *)
(* overlapping schedules, one of each maximum policy.                      *)
(***************************************************************************)
EXTENDS Simulator

Abs(n) == [kind |-> "int", val |-> n]
Percent(n) == [kind |-> "percent", val |-> n]

BaseSpec ==
    [min |-> 100, max |-> 1000, scaledownStep |-> Abs(200), scaleupStep |-> Abs(0),
     scaledownInterval |-> 3, scaleupInterval |-> 2,
     target |-> [m \in {"highPriority"} |-> 50],
     scaledownAllowedTimes |-> {}, scaledownNotAllowedTimes |-> {}]

MCSpecs ==
    {BaseSpec,
     [BaseSpec EXCEPT !.min = 500, !.max = 3000, !.scaleupStep = Percent(50),
                      !.scaledownNotAllowedTimes = {{3, 4}}],
     [BaseSpec EXCEPT !.min = 1000, !.max = 4000, !.scaledownStep = Abs(1500),
                      !.scaleupStep = Abs(700),
                      !.target = [m \in CPUMetrics |-> IF m = "total" THEN 70 ELSE 40]]}

MCSchedules ==
    [n \in {"batch", "peak"} |->
        IF n = "batch"
          THEN [fires |-> {2, 4}, duration |-> 1, additionalPU |-> 300, policy |-> "Exceed"]
          ELSE [fires |-> {3}, duration |-> 2, additionalPU |-> 800, policy |-> "Cap"]]

Point(pu, high, total) ==
    [pu |-> pu, cpu |-> [m \in CPUMetrics |-> IF m = "total" THEN total ELSE high]]

MCPoints ==
    {Point(1000, 10, 15), Point(1000, 90, 60), Point(2000, 45, 95),
     Point(0, 10, 10), [pu |-> 1000, cpu |-> [m \in {"total"} |-> 30]]}
=============================================================================
