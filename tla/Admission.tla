------------------------------ MODULE Admission ------------------------------
(***************************************************************************)
(* What the API server stores: an object's life under the rules of         *)
(* Validation, from its creation to its deletion.  The controllers of the  *)
(* other modules read what passes here.                                    *)
(*                                                                         *)
(* One object is followed; no webhook modelled here looks at a second one  *)
(* (ManualScaling has the one that does).  A request is a patch: a         *)
(* function from the fields it sets to their values.  What is rejected     *)
(* leaves no trace.                                                        *)
(***************************************************************************)
EXTENDS Validation

CONSTANTS
    None,           \* no object
    Autoscalers,    \* v1beta1 SpannerAutoscaler specs that are created
    Patches,        \* what an update of one may set
    AlphaPatches,   \* what a v1alpha1 request may set
    Schedules,      \* SpannerAutoscaleSchedule specs
    Overrides,      \* SpannerManualScaling specs
    DefaultIntervals \* --scale-down-interval and --scale-up-interval

Patched(spec, patch) ==
    [f \in DOMAIN spec |-> IF f \in DOMAIN patch THEN patch[f] ELSE spec[f]]

\* A request has the fields of its type; it is a blank object with a patch.
ASSUME RequestsAssumption ==
    /\ Autoscalers \subseteq AutoscalerSpecs
    /\ \A p \in Patches : Patched(ConvertTo(AlphaBlank("")), p) \in AutoscalerSpecs
    /\ \A p \in AlphaPatches : Patched(AlphaBlank(""), p) \in AlphaSpecs
    /\ Schedules \subseteq [target : STRING, cron : SUBSET Nat, duration : Nat \cup {Nil},
                            additionalPU : Int, policy : STRING]
    /\ Overrides \subseteq [target : STRING, pu : Int, up : Steps, down : Steps,
                            upInterval : Int, downInterval : Int]
    /\ None \notin AlphaSpecs
ASSUME IntervalsAssumption ==
    /\ DefaultIntervals.down \in Nat /\ DefaultIntervals.up \in Nat

VARIABLES
    stored,   \* the stored object, [kind, spec], or None
    asked     \* the v1alpha1 object of the last accepted write, or None

vars == <<stored, asked>>

-----------------------------------------------------------------------------
(* Requests                                                                *)

Store(kind, spec) == stored' = [kind |-> kind, spec |-> spec]
Holds(kind) == stored # None /\ stored.kind = kind

\* Defect: the defaulting webhook is not called.
SubmittedAsIs(s) == s

Submitted(s) == Default(s)

Create ==
    /\ stored = None
    /\ \E s \in Autoscalers : LET d == Submitted(s) IN
        SchemaAccepts(d) /\ validateSpec(d) /\ Store("autoscaler", d)
    /\ asked' = None

Update ==
    /\ Holds("autoscaler")
    /\ \E p \in Patches : LET d == Submitted(Patched(stored.spec, p)) IN
        SchemaAccepts(d) /\ ValidateUpdate(stored.spec, d) /\ Store("autoscaler", d)
    /\ asked' = None

\* The webhooks see the object as v1beta1.  Whether their result is stored as it
\* is, or goes through the version of the request once more, is the API
\* server's business: both are considered.
StoreAlpha(a) ==
    LET d == Default(ConvertTo(a)) IN
    /\ AlphaSchemaAccepts(a)
    /\ \/ Store("autoscaler", d)
       \/ AlphaSchemaAccepts(ConvertFrom(d)) /\ Store("autoscaler", ConvertTo(ConvertFrom(d)))
    /\ asked' = a

CreateAlpha ==
    /\ stored = None
    /\ \E i \in {s.instance : s \in Autoscalers}, p \in AlphaPatches :
        LET a == Patched(AlphaBlank(i), p) IN
        validateSpec(Default(ConvertTo(a))) /\ StoreAlpha(a)

UpdateAlpha ==
    /\ Holds("autoscaler")
    /\ \E p \in AlphaPatches : LET a == Patched(ConvertFrom(stored.spec), p) IN
        ValidateUpdate(stored.spec, Default(ConvertTo(a))) /\ StoreAlpha(a)

CreateSchedule ==
    /\ stored = None
    /\ \E s \in Schedules :
        validateSchedule(s) /\ Store("schedule", [s EXCEPT !.policy = Normalized(@)])
    /\ asked' = None

UpdateSchedule ==
    /\ Holds("schedule")
    /\ \E s \in Schedules :
        /\ ValidateScheduleUpdate(stored.spec, s)
        /\ Store("schedule", [s EXCEPT !.policy = Normalized(@)])
    /\ asked' = None

CreateOverride ==
    /\ stored = None
    /\ \E o \in Overrides : validateManualScalingSpec(o) /\ Store("override", o)
    /\ asked' = None

UpdateOverride ==
    /\ Holds("override")
    /\ \E o \in Overrides : ValidateOverrideUpdate(stored.spec, o) /\ Store("override", o)
    /\ asked' = None

Delete ==
    /\ stored # None
    /\ stored' = None /\ asked' = None

Init == stored = None /\ asked = None

Next ==
    \/ Create \/ Update \/ CreateAlpha \/ UpdateAlpha \/ Delete
    \/ CreateSchedule \/ UpdateSchedule \/ CreateOverride \/ UpdateOverride

Spec == Init /\ [][Next]_vars

-----------------------------------------------------------------------------
(* Properties                                                              *)

\* The configuration the scaling decisions read.
ScaleSpec(s) ==
    [min |-> s.pu.min, max |-> s.pu.max, scaledownStep |-> s.down, scaleupStep |-> s.up,
     scaledownInterval |-> DurationOr(s.downInterval, DefaultIntervals.down),
     scaleupInterval |-> DurationOr(s.upInterval, DefaultIntervals.up),
     target |-> s.target,
     scaledownAllowedTimes |-> s.allowed, scaledownNotAllowedTimes |-> s.notAllowed]

\* A v1alpha1 client may ask for a target of 0 or 100, which v1beta1 refuses.
TargetInside == asked # None => 0 < asked.highPriority /\ asked.highPriority < 100

\* A stored autoscaler has the shape of its type, whichever version wrote it,
\* and its steps can be parsed.
TypeOK ==
    Holds("autoscaler") =>
        /\ stored.spec \in AutoscalerSpecs
        /\ stored.spec.down.kind # "bad" /\ stored.spec.up.kind # "bad"

\* A stored autoscaler stays admissible: an update that keeps its fields passes
\* the webhooks, and changes nothing if v1beta1 was written last.
ReAdmissible ==
    Holds("autoscaler") /\ TargetInside =>
        LET d == Default(stored.spec) IN
        /\ SchemaAccepts(d) /\ ValidateUpdate(stored.spec, d)
        /\ asked = None => d = stored.spec

\* What is stored meets the assumptions of Resource and ManualScaling: once a
\* minimum is given the range is one Cloud Spanner accepts, at least one target
\* is set and positive, and an absolute step of an override always limits its
\* ramp.
MeetsAssumptions ==
    /\ Holds("autoscaler") /\ TargetInside /\ stored.spec.pu.min > 0 =>
         LET s == ScaleSpec(stored.spec) IN
         SpecTyped(s) /\ ValidPU(s.min) /\ ValidPU(s.max) /\ s.min <= s.max
    /\ Holds("override") =>
         /\ ValidPU(stored.spec.pu)
         /\ \A base \in {100, 900, 1000, 2000} :
              stored.spec.up.kind = "int" => ResolveScaleupStep(stored.spec.up, base) > 0

\* The credentials fetchCredentials dereferences are there, and never two of them.
CredentialsFetchable ==
    Holds("autoscaler") =>
        /\ stored.spec.type = "gcp-sa-key" <=> stored.spec.key
        /\ stored.spec.type = "impersonation" <=> stored.spec.impersonate

\* The PUs the controllers use are those of the nodes whenever both are stored.
NodesAgree ==
    Holds("autoscaler") /\ stored.spec.nodes # Zero /\ stored.spec.pu # Zero =>
        /\ stored.spec.pu.min = stored.spec.nodes.min * 1000
        /\ stored.spec.pu.max = stored.spec.nodes.max * 1000

\* A v1alpha1 client that gives both bounds of a range reads back what it wrote,
\* with the default step filled in and, when it gave both ranges, only the nodes.
AlphaReadBack ==
    asked # None /\ (\A r \in {asked.nodes, asked.pu} : r.min # 0 <=> r.max # 0) =>
        ConvertFrom(stored.spec) =
            [asked EXCEPT !.maxScaleDownNodes = IF @ = Nil THEN 2 ELSE @,
                          !.pu = IF asked.nodes # Zero THEN Zero ELSE @]

\* What an update may not change: the instance of an autoscaler, the autoscaler
\* of a schedule, and everything of an override.
IdentityKept ==
    stored # None /\ stored' # None =>
        /\ stored'.kind = stored.kind
        /\ Holds("autoscaler") => stored'.spec.instance = stored.spec.instance
        /\ Holds("schedule") => stored'.spec.target = stored.spec.target
        /\ Holds("override") => stored'.spec = stored.spec

IdentityFixed == [][IdentityKept]_vars
=============================================================================
