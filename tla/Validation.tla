----------------------------- MODULE Validation -----------------------------
(***************************************************************************)
(* The rules an object has to pass before it is stored, as pure operators: *)
(* the defaulting and validating webhooks of internal/webhook and of       *)
(* SpannerManualScaling, the constraints the kubebuilder markers put into  *)
(* the schema, and the conversion between the two served versions of       *)
(* SpannerAutoscaler.                                                      *)
(*                                                                         *)
(* Data abstractions.                                                      *)
(*  - A range of nodes or PUs is [min, max], Zero when not given.          *)
(*  - key and impersonate say whether iamKeySecret and impersonateConfig   *)
(*    are present; their contents are left out.                            *)
(*  - Cron expressions and steps are those of Scaling; negative steps and  *)
(*    intervals are left out.  Nil stands for an absent or an unparsable   *)
(*    number.                                                              *)
(***************************************************************************)
EXTENDS Scaling

Nil == -1
Zero == [min |-> 0, max |-> 0]
UnsetStep == [kind |-> "int", val |-> 0]

AuthTypes == {"", "gcp-sa-key", "impersonation", "adc"}
ComputeTypes == {"", "nodes", "processing-units"}
Ranges == [min : Int, max : Int]
StepValues == [kind : {"int", "percent", "bad"}, val : Nat]

TargetValues ==
    [{} -> Int] \cup [{"highPriority"} -> Int] \cup [{"total"} -> Int] \cup [CPUMetrics -> Int]

AutoscalerSpecs ==
    [instance : STRING, key : BOOLEAN, impersonate : BOOLEAN, type : AuthTypes,
     computeType : ComputeTypes, nodes : Ranges, pu : Ranges,
     down : StepValues, up : StepValues,
     downInterval : Nat \cup {Nil}, upInterval : Nat \cup {Nil},
     target : TargetValues,
     allowed : SUBSET (SUBSET Nat), notAllowed : SUBSET (SUBSET Nat)]

\* The controller's flag applies where the specification sets no interval.
DurationOr(interval, default) == IF interval = Nil THEN default ELSE interval

-----------------------------------------------------------------------------
(* SpannerAutoscaler, v1beta1                                              *)

Default(s) ==
    [s EXCEPT !.type = IF s.key THEN "gcp-sa-key"
                       ELSE IF s.impersonate THEN "impersonation" ELSE "adc",
              !.computeType = IF s.nodes # Zero THEN "nodes"
                              ELSE IF s.pu # Zero THEN "processing-units" ELSE s.computeType,
              !.pu = IF s.nodes # Zero
                       THEN [min |-> s.nodes.min * 1000, max |-> s.nodes.max * 1000] ELSE s.pu,
              !.down = IF s.down = UnsetStep THEN [kind |-> "int", val |-> 2000] ELSE s.down]

\* The markers of the types: PUs are whole hundreds, targets lie inside 0..100.
SchemaAccepts(s) ==
    /\ s.pu.min % 100 = 0 /\ s.pu.max % 100 = 0
    /\ \A m \in DOMAIN s.target : 0 < s.target[m] /\ s.target[m] < 100

\* Defect: both ways to authenticate may be configured.
AnyAuthentication(s) == TRUE

validateAuthentication(s) == ~(s.key /\ s.impersonate)

validateTargetCPUUtilization(s) == DOMAIN s.target # {}

\* Defect: the schema's whole hundreds are enough.
WholeHundred(pu) == pu % 100 = 0

validateProcessingUnits(pu) == pu >= 1000 => pu % 1000 = 0

validateRange(s) ==
    /\ s.nodes # Zero => s.nodes.max >= s.nodes.min
    /\ s.pu # Zero => /\ s.pu.max >= s.pu.min
                      /\ validateProcessingUnits(s.pu.min)
                      /\ validateProcessingUnits(s.pu.max)

validateStep(step) ==
    /\ step.kind # "bad"
    /\ step.kind = "int" => /\ step.val > 1000 => step.val % 1000 = 0
                            /\ step.val < 1000 => step.val % 100 = 0

validateWindows(s) ==
    /\ s.allowed = {} \/ s.notAllowed = {}
    /\ {} \notin s.allowed /\ {} \notin s.notAllowed

validateScaleConfig(s) ==
    /\ validateTargetCPUUtilization(s)
    /\ validateRange(s)
    /\ validateStep(s.down) /\ validateStep(s.up)
    /\ validateWindows(s)

validateSpec(s) == validateAuthentication(s) /\ validateScaleConfig(s)

ValidateUpdate(old, s) == s.instance = old.instance /\ validateSpec(s)

-----------------------------------------------------------------------------
(* SpannerAutoscaler, v1alpha1                                             *)

\* Unset bounds are Zero, other unset numbers Nil.
AlphaBlank(instance) ==
    [instance |-> instance, key |-> FALSE, impersonate |-> FALSE, nodes |-> Zero,
     pu |-> Zero, maxScaleDownNodes |-> Nil, highPriority |-> Nil]

AlphaSpecs ==
    [instance : STRING, key : BOOLEAN, impersonate : BOOLEAN, nodes : Ranges, pu : Ranges,
     maxScaleDownNodes : Int, highPriority : Int]

\* A bound of 0 is one that is not given.
AlphaSchemaAccepts(a) ==
    /\ \A n \in {a.nodes.min, a.nodes.max} : n >= 0
    /\ \A pu \in {a.pu.min, a.pu.max} : pu # 0 => pu >= 100 /\ pu % 100 = 0
    /\ a.maxScaleDownNodes # Nil => a.maxScaleDownNodes >= 1
    /\ 0 <= a.highPriority /\ a.highPriority <= 100

ConvertTo(a) ==
    LET nodes == a.nodes.min >= 1 /\ a.nodes.max >= 1
        pus == a.pu.min >= 100 /\ a.pu.max >= 100
    IN  [instance |-> a.instance, key |-> a.key, impersonate |-> a.impersonate,
         type |-> IF a.key THEN "gcp-sa-key" ELSE IF a.impersonate THEN "impersonation" ELSE "",
         computeType |-> IF pus THEN "processing-units" ELSE IF nodes THEN "nodes" ELSE "",
         nodes |-> IF nodes THEN a.nodes ELSE Zero,
         pu |-> IF pus THEN a.pu ELSE Zero,
         down |-> IF a.maxScaleDownNodes = Nil THEN UnsetStep
                  ELSE [kind |-> "int", val |-> a.maxScaleDownNodes * 1000],
         up |-> UnsetStep, downInterval |-> Nil, upInterval |-> Nil,
         target |-> [m \in {"highPriority"} |-> a.highPriority],
         allowed |-> {}, notAllowed |-> {}]

\* Defect: the PUs are copied whatever the compute type.
ConvertFromBoth(s) ==
    [instance |-> s.instance,
     key |-> s.type = "gcp-sa-key", impersonate |-> s.type = "impersonation",
     nodes |-> s.nodes, pu |-> s.pu,
     maxScaleDownNodes |-> IF s.down.kind = "int" THEN s.down.val \div 1000 ELSE 2,
     highPriority |-> IF "highPriority" \in DOMAIN s.target THEN s.target["highPriority"] ELSE Nil]

ConvertFrom(s) ==
    [instance |-> s.instance,
     key |-> s.type = "gcp-sa-key", impersonate |-> s.type = "impersonation",
     nodes |-> IF s.computeType = "nodes" THEN s.nodes ELSE Zero,
     pu |-> IF s.computeType = "processing-units" THEN s.pu ELSE Zero,
     maxScaleDownNodes |-> IF s.down.kind = "int" THEN s.down.val \div 1000 ELSE 2,
     highPriority |-> IF "highPriority" \in DOMAIN s.target THEN s.target["highPriority"] ELSE Nil]

-----------------------------------------------------------------------------
(* SpannerAutoscaleSchedule and SpannerManualScaling                       *)

\* The schema's default for an omitted policy, and Normalized.
Normalized(policy) == IF policy = "" THEN "Exceed" ELSE policy

validateSchedule(s) == s.cron # {} /\ s.duration # Nil

ValidateScheduleUpdate(old, s) == s.target = old.target /\ validateSchedule(s)

validateStepSize(step) ==
    /\ step.kind # "bad"
    /\ step.kind = "int" => /\ step.val > 0
                            /\ step.val < 1000 => step.val % 100 = 0
                            /\ step.val >= 1000 => step.val % 1000 = 0
    /\ step.kind = "percent" => step.val \in 1 .. 100

validatePositiveDuration(d) == d # Nil => d > 0

validateManualScalingSpec(o) ==
    /\ o.target # ""
    /\ o.pu > 0
    /\ o.pu < 1000 => o.pu % 100 = 0
    /\ o.pu >= 1000 => o.pu % 1000 = 0
    /\ validateStepSize(o.up)
    /\ validateStepSize(o.down)
    /\ validatePositiveDuration(o.upInterval)
    /\ validatePositiveDuration(o.downInterval)

ValidateOverrideUpdate(old, o) == o = old
=============================================================================
