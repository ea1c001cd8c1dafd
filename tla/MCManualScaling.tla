-------------------------- MODULE MCManualScaling --------------------------
(***************************************************************************)
(* Small instances of ManualScaling: ramps and single jumps, in both       *)
(* directions, with and without an end.                                    *)
(***************************************************************************)
EXTENDS ManualScaling

Abs(n) == [kind |-> "int", val |-> n]
Unset == [kind |-> "nil", val |-> 0]

MCSpecs ==
    {[min |-> 500, max |-> 2000, scaledownStep |-> Abs(200), scaleupStep |-> Abs(0),
      scaledownInterval |-> 2, scaleupInterval |-> 1,
      target |-> [m \in {"highPriority"} |-> 50],
      scaledownAllowedTimes |-> {}, scaledownNotAllowedTimes |-> {}]}

NoSchedules == [n \in {} |-> NoSchedule]

Jump(pu, expiresAt) ==
    [pu |-> pu, expiresAt |-> expiresAt,
     up |-> [step |-> Unset, interval |-> 1], down |-> [step |-> Unset, interval |-> 1]]
Ramp(pu, step, expiresAt) ==
    [pu |-> pu, expiresAt |-> expiresAt,
     up |-> [step |-> Abs(step), interval |-> 2], down |-> [step |-> Abs(step), interval |-> 2]]

\* A ramp without an end, and a jump that ends at minute 2.
MCRampShort == <<Ramp(700, 100, 0), Jump(1000, 2)>>
=============================================================================
