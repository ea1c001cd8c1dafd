---------------------------- MODULE MCAutoscaler ----------------------------
(***************************************************************************)
(* Small instances of Autoscaler.  The configurations differ in their      *)
(* range, their steps and the metrics they have targets for, so that an    *)
(* edit of the spec races the reading of the other configuration's metric. *)
(***************************************************************************)
EXTENDS Autoscaler

Abs(n) == [kind |-> "int", val |-> n]

HighSpec ==
    [min |-> 500, max |-> 2000, scaledownStep |-> Abs(200), scaleupStep |-> Abs(0),
     scaledownInterval |-> 2, scaleupInterval |-> 1,
     target |-> [m \in {"highPriority"} |-> 50],
     scaledownAllowedTimes |-> {}, scaledownNotAllowedTimes |-> {}]

DualSpec ==
    [HighSpec EXCEPT !.min = 1000, !.max = 3000, !.scaleupStep = Abs(1000),
                     !.target = [m \in CPUMetrics |-> IF m = "total" THEN 80 ELSE 40]]

MCSpecs == {HighSpec, DualSpec}
MCOneSpec == {HighSpec}

MCSchedules ==
    [n \in {"batch"} |-> [duration |-> 1, additionalPU |-> 700, policy |-> "Exceed"]]

NoSchedules == [n \in {} |-> NoSchedule]
=============================================================================
