--------------------------- MODULE AdmissionProofs ---------------------------
(***************************************************************************)
(* Proofs about Admission, for any set of requests: what the webhooks and  *)
(* the conversion let through is what the controllers rely on.             *)
(***************************************************************************)
EXTENDS Admission, TLAPS

\* What is known of a stored autoscaler, its targets apart.
Sound(s) ==
    /\ s \in AutoscalerSpecs /\ s.down.kind # "bad" /\ s.up.kind # "bad"
    /\ s.type = "gcp-sa-key" <=> s.key
    /\ s.type = "impersonation" <=> s.impersonate
    /\ s.nodes # Zero /\ s.pu # Zero =>
         s.pu.min = s.nodes.min * 1000 /\ s.pu.max = s.nodes.max * 1000
    /\ s.pu.min > 0 => ValidPU(s.pu.min) /\ ValidPU(s.pu.max) /\ s.pu.min <= s.pu.max

\* Its targets, which hold as long as no v1alpha1 client asked for 0 or 100.
TargetsSet(s) ==
    DOMAIN s.target # {} /\ \A m \in DOMAIN s.target : s.target[m] \in Nat \ {0}

OverrideSound(o) ==
    /\ ValidPU(o.pu)
    /\ \A base \in {100, 900, 1000, 2000} :
         o.up.kind = "int" => ResolveScaleupStep(o.up, base) > 0

\* The inductive invariant.
IndInv ==
    /\ Holds("autoscaler") => Sound(stored.spec) /\ (TargetInside => TargetsSet(stored.spec))
    /\ Holds("override") => OverrideSound(stored.spec)

\* An update of a well-formed object is one.
LEMMA PatchedTyped ==
    ASSUME NEW s \in AutoscalerSpecs, NEW p \in Patches
    PROVE  Patched(s, p) \in AutoscalerSpecs
<1> DEFINE blank == ConvertTo(AlphaBlank(""))
<1>1. DOMAIN s = DOMAIN blank
  BY DEF AutoscalerSpecs, ConvertTo
<1>2. Patched(blank, p) \in AutoscalerSpecs
  BY RequestsAssumption
<1>3. \A f \in DOMAIN s : f \in DOMAIN p => Patched(blank, p)[f] = p[f]
  BY <1>1 DEF Patched
<1> QED BY <1>2, <1>3 DEF Patched, AutoscalerSpecs

\* So is a v1alpha1 one.
LEMMA AlphaPatchedTyped ==
    ASSUME NEW a \in AlphaSpecs, NEW p \in AlphaPatches
    PROVE  Patched(a, p) \in AlphaSpecs
<1> DEFINE blank == AlphaBlank("")
<1>1. DOMAIN a = DOMAIN blank
  BY DEF AlphaSpecs, AlphaBlank
<1>2. Patched(blank, p) \in AlphaSpecs
  BY RequestsAssumption
<1>3. \A f \in DOMAIN a : f \in DOMAIN p => Patched(blank, p)[f] = p[f]
  BY <1>1 DEF Patched
<1> QED BY <1>2, <1>3 DEF Patched, AlphaSpecs

\* What Default makes of s, field by field.
DefaultOf(d, s) ==
    /\ d \in AutoscalerSpecs
    /\ d.instance = s.instance /\ d.key = s.key /\ d.impersonate = s.impersonate
    /\ d.type = IF s.key THEN "gcp-sa-key" ELSE IF s.impersonate THEN "impersonation" ELSE "adc"
    /\ d.nodes = s.nodes
    /\ s.nodes # Zero => d.pu = [min |-> s.nodes.min * 1000, max |-> s.nodes.max * 1000]
    /\ s.nodes = Zero => d.pu = s.pu
    /\ d.computeType = IF s.nodes # Zero THEN "nodes"
                       ELSE IF s.pu # Zero THEN "processing-units" ELSE s.computeType
    /\ d.down = IF s.down = UnsetStep THEN [kind |-> "int", val |-> 2000] ELSE s.down
    /\ d.up = s.up /\ d.target = s.target

\* Default keeps a well-formed object well-formed.
LEMMA DefaultFields ==
    ASSUME NEW s \in AutoscalerSpecs
    PROVE  DefaultOf(Default(s), s)
<1>1. s.nodes \in Ranges /\ s.pu \in Ranges
  BY DEF AutoscalerSpecs
<1>2. [min |-> s.nodes.min * 1000, max |-> s.nodes.max * 1000] \in Ranges
  BY <1>1 DEF Ranges
<1>3. [kind |-> "int", val |-> 2000] \in StepValues
  BY DEF StepValues
<1>4. PICK type \in AuthTypes :
        type = IF s.key THEN "gcp-sa-key" ELSE IF s.impersonate THEN "impersonation" ELSE "adc"
  BY DEF AuthTypes
<1>5. PICK computeType \in ComputeTypes :
        computeType = IF s.nodes # Zero THEN "nodes"
                      ELSE IF s.pu # Zero THEN "processing-units" ELSE s.computeType
  BY DEF ComputeTypes, AutoscalerSpecs
<1>6. PICK pu \in Ranges :
        pu = IF s.nodes # Zero
               THEN [min |-> s.nodes.min * 1000, max |-> s.nodes.max * 1000] ELSE s.pu
  BY <1>1, <1>2
<1>7. PICK down \in StepValues :
        down = IF s.down = UnsetStep THEN [kind |-> "int", val |-> 2000] ELSE s.down
  BY <1>3 DEF AutoscalerSpecs
<1> DEFINE d == [s EXCEPT !.type = type, !.computeType = computeType, !.pu = pu, !.down = down]
<1>8. Default(s) = d
  BY <1>4, <1>5, <1>6, <1>7 DEF Default
<1>9. /\ d \in AutoscalerSpecs
      /\ d.instance = s.instance /\ d.key = s.key /\ d.impersonate = s.impersonate
      /\ d.nodes = s.nodes /\ d.up = s.up /\ d.target = s.target
      /\ d.type = type /\ d.computeType = computeType /\ d.pu = pu /\ d.down = down
  BY DEF AutoscalerSpecs
<1> HIDE DEF d
<1> QED BY <1>4, <1>5, <1>6, <1>7, <1>8, <1>9 DEF DefaultOf

\* What passes the webhooks and has whole hundreds is sound.
LEMMA DefaultSound ==
    ASSUME NEW s \in AutoscalerSpecs, NEW d, DefaultOf(d, s), validateSpec(d),
           s.nodes = Zero => s.pu.min % 100 = 0 /\ s.pu.max % 100 = 0
    PROVE  Sound(d)
<1>1. /\ d \in AutoscalerSpecs /\ d.nodes \in Ranges /\ d.pu \in Ranges
      /\ s.nodes \in Ranges /\ d.nodes = s.nodes
      /\ d.key \in BOOLEAN /\ d.impersonate \in BOOLEAN
  BY DEF DefaultOf, AutoscalerSpecs
<1>2. d.down.kind # "bad" /\ d.up.kind # "bad"
  BY DEF validateSpec, validateScaleConfig, validateStep
<1>3. /\ d.type = "gcp-sa-key" <=> d.key
      /\ d.type = "impersonation" <=> d.impersonate
  BY <1>1 DEF DefaultOf, validateSpec, validateAuthentication
<1>4. d.nodes # Zero => d.pu.min = d.nodes.min * 1000 /\ d.pu.max = d.nodes.max * 1000
  BY DEF DefaultOf
<1>5. ASSUME d.pu.min > 0
      PROVE  ValidPU(d.pu.min) /\ ValidPU(d.pu.max) /\ d.pu.min <= d.pu.max
  <2>1. d.pu # Zero
    BY <1>5 DEF Zero
  <2>2. /\ d.pu.max >= d.pu.min
        /\ d.pu.min >= 1000 => d.pu.min % 1000 = 0
        /\ d.pu.max >= 1000 => d.pu.max % 1000 = 0
    BY <2>1 DEF validateSpec, validateScaleConfig, validateRange, validateProcessingUnits
  <2>3. /\ d.pu.min < 1000 => d.pu.min % 100 = 0
        /\ d.pu.max < 1000 => d.pu.max % 100 = 0
    <3>1. CASE s.nodes = Zero
      BY <3>1 DEF DefaultOf
    <3>2. CASE s.nodes # Zero
      <4>1. /\ d.pu.min = s.nodes.min * 1000 /\ d.pu.max = s.nodes.max * 1000
            /\ s.nodes.min \in Int /\ s.nodes.max \in Int
        BY <1>1, <1>4, <3>2 DEF Ranges
      <4> QED BY <1>5, <2>2, <4>1
    <3> QED BY <3>1, <3>2
  <2> QED BY <1>1, <1>5, <2>2, <2>3 DEF ValidPU, Ranges
<1> QED BY <1>1, <1>2, <1>3, <1>4, <1>5 DEF Sound

\* What ConvertTo makes of a v1alpha1 object that the schema accepts.
ConvertedTo(s, a) ==
    /\ s \in AutoscalerSpecs /\ s.instance = a.instance
    /\ s.key = a.key /\ s.impersonate = a.impersonate
    /\ s.type = IF a.key THEN "gcp-sa-key" ELSE IF a.impersonate THEN "impersonation" ELSE ""
    /\ s.nodes \in {a.nodes, Zero} /\ s.pu \in {a.pu, Zero}
    /\ s.down.kind = "int" /\ s.up.kind = "int"
    /\ s.target = [m \in {"highPriority"} |-> a.highPriority]

\* The conversion to v1beta1 is well-formed.
LEMMA ConvertToFields ==
    ASSUME NEW a \in AlphaSpecs, AlphaSchemaAccepts(a)
    PROVE  ConvertedTo(ConvertTo(a), a)
<1> DEFINE nodes == a.nodes.min >= 1 /\ a.nodes.max >= 1
           pus == a.pu.min >= 100 /\ a.pu.max >= 100
           type == IF a.key THEN "gcp-sa-key" ELSE IF a.impersonate THEN "impersonation" ELSE ""
           computeType == IF pus THEN "processing-units" ELSE IF nodes THEN "nodes" ELSE ""
           n == IF nodes THEN a.nodes ELSE Zero
           pu == IF pus THEN a.pu ELSE Zero
           down == IF a.maxScaleDownNodes = Nil THEN UnsetStep
                   ELSE [kind |-> "int", val |-> a.maxScaleDownNodes * 1000]
           target == [m \in {"highPriority"} |-> a.highPriority]
           s == [instance |-> a.instance, key |-> a.key, impersonate |-> a.impersonate,
                 type |-> type, computeType |-> computeType, nodes |-> n, pu |-> pu,
                 down |-> down, up |-> UnsetStep, downInterval |-> Nil, upInterval |-> Nil,
                 target |-> target, allowed |-> {}, notAllowed |-> {}]
<1>1. ConvertTo(a) = s
  BY Zenon DEF ConvertTo
<1>2. Zero \in Ranges /\ UnsetStep \in StepValues /\ UnsetStep.kind = "int"
  BY DEF Zero, Ranges, UnsetStep, StepValues
<1>3. type \in AuthTypes /\ computeType \in ComputeTypes
  BY DEF AuthTypes, ComputeTypes
<1>4. n \in Ranges /\ n \in {a.nodes, Zero} /\ pu \in Ranges /\ pu \in {a.pu, Zero}
  BY <1>2 DEF AlphaSpecs
<1>5. down \in StepValues /\ down.kind = "int"
  <2>1. a.maxScaleDownNodes # Nil => a.maxScaleDownNodes * 1000 \in Nat
    BY DEF AlphaSpecs, AlphaSchemaAccepts
  <2>2. ASSUME a.maxScaleDownNodes # Nil
        PROVE  [kind |-> "int", val |-> a.maxScaleDownNodes * 1000] \in StepValues
    BY <2>1, <2>2 DEF StepValues
  <2> QED BY <1>2, <2>2
<1>6. target \in TargetValues
  BY DEF TargetValues, AlphaSpecs
<1>7. s.type = type /\ s.target = target
  OBVIOUS
<1> HIDE DEF type, computeType, n, pu, down, target
<1>8. s \in AutoscalerSpecs
  BY <1>2, <1>3, <1>4, <1>5, <1>6 DEF AutoscalerSpecs, AlphaSpecs, Nil
<1>9. /\ s.instance = a.instance /\ s.key = a.key /\ s.impersonate = a.impersonate
      /\ s.nodes = n /\ s.pu = pu /\ s.down = down /\ s.up = UnsetStep
  OBVIOUS
<1> HIDE DEF s
<1>10. ConvertedTo(s, a)
  BY <1>2, <1>4, <1>5, <1>7, <1>8, <1>9 DEF ConvertedTo, type, target
<1> QED BY <1>1, <1>10

\* What ConvertFrom makes of an autoscaler.
ConvertedFrom(a, s) ==
    /\ a \in AlphaSpecs /\ a.instance = s.instance
    /\ a.key <=> s.type = "gcp-sa-key"
    /\ a.impersonate <=> s.type = "impersonation"
    /\ a.nodes = IF s.computeType = "nodes" THEN s.nodes ELSE Zero
    /\ a.pu = IF s.computeType = "processing-units" THEN s.pu ELSE Zero
    /\ "highPriority" \in DOMAIN s.target => a.highPriority = s.target["highPriority"]

\* The conversion to v1alpha1 is well-formed.
LEMMA ConvertFromFields ==
    ASSUME NEW s \in AutoscalerSpecs
    PROVE  ConvertedFrom(ConvertFrom(s), s)
<1>1. Zero \in Ranges /\ s.nodes \in Ranges /\ s.pu \in Ranges
  BY DEF Zero, Ranges, AutoscalerSpecs
<1>2. PICK key \in BOOLEAN : key = (s.type = "gcp-sa-key")
  <2>1. CASE s.type = "gcp-sa-key"
    <3>1. TRUE = (s.type = "gcp-sa-key")
      BY <2>1, SMT
    <3> QED BY <3>1, Zenon
  <2>2. CASE s.type # "gcp-sa-key"
    <3>1. FALSE = (s.type = "gcp-sa-key")
      BY <2>2, SMT
    <3> QED BY <3>1, Zenon
  <2> QED BY <2>1, <2>2
<1>3. PICK impersonate \in BOOLEAN : impersonate = (s.type = "impersonation")
  <2>1. CASE s.type = "impersonation"
    <3>1. TRUE = (s.type = "impersonation")
      BY <2>1, SMT
    <3> QED BY <3>1, Zenon
  <2>2. CASE s.type # "impersonation"
    <3>1. FALSE = (s.type = "impersonation")
      BY <2>2, SMT
    <3> QED BY <3>1, Zenon
  <2> QED BY <2>1, <2>2
<1>4. PICK nodes \in Ranges : nodes = IF s.computeType = "nodes" THEN s.nodes ELSE Zero
  BY <1>1
<1>5. PICK pu \in Ranges : pu = IF s.computeType = "processing-units" THEN s.pu ELSE Zero
  BY <1>1
<1>6. PICK down \in Int : down = IF s.down.kind = "int" THEN s.down.val \div 1000 ELSE 2
  <2>1. s.down.val \in Nat
    BY DEF AutoscalerSpecs, StepValues
  <2> QED BY <2>1
<1>7. PICK target \in Int :
        target = IF "highPriority" \in DOMAIN s.target THEN s.target["highPriority"] ELSE Nil
  <2>1. s.target \in TargetValues
    BY DEF AutoscalerSpecs
  <2>2. "highPriority" \in DOMAIN s.target => s.target["highPriority"] \in Int
    BY <2>1 DEF TargetValues, CPUMetrics
  <2> QED BY <2>2 DEF Nil
<1> DEFINE a == [instance |-> s.instance, key |-> key, impersonate |-> impersonate,
                 nodes |-> nodes, pu |-> pu, maxScaleDownNodes |-> down, highPriority |-> target]
<1>8. ConvertFrom(s) = a
  BY <1>2, <1>3, <1>4, <1>5, <1>6, <1>7, SMT DEF ConvertFrom
<1>9. a \in AlphaSpecs
  BY DEF AlphaSpecs, AutoscalerSpecs
<1>10. /\ a.key <=> s.type = "gcp-sa-key"
       /\ a.impersonate <=> s.type = "impersonation"
  <2>1. a.key = key /\ a.impersonate = impersonate
    OBVIOUS
  <2> HIDE DEF a
  <2> QED BY <1>2, <1>3, <2>1, Zenon
<1>11. ConvertedFrom(a, s)
  BY <1>4, <1>5, <1>7, <1>9, <1>10 DEF ConvertedFrom
<1> HIDE DEF a
<1> QED BY <1>8, <1>11

\* What a v1alpha1 request stores is sound, whether or not the result of the
\* webhooks went through v1alpha1 once more.
LEMMA AlphaSound ==
    ASSUME NEW a \in AlphaSpecs, AlphaSchemaAccepts(a), validateSpec(Default(ConvertTo(a))),
           NEW s, \/ s = Default(ConvertTo(a))
                  \/ /\ AlphaSchemaAccepts(ConvertFrom(Default(ConvertTo(a))))
                     /\ s = ConvertTo(ConvertFrom(Default(ConvertTo(a))))
    PROVE  Sound(s) /\ (0 < a.highPriority => TargetsSet(s))
<1> DEFINE c == ConvertTo(a)
           d == Default(c)
           b == ConvertFrom(d)
           e == ConvertTo(b)
<1>1. ConvertedTo(c, a)
  BY ConvertToFields
<1>2. DefaultOf(d, c)
  BY <1>1, DefaultFields DEF ConvertedTo
<1>3. ConvertedFrom(b, d)
  BY <1>2, ConvertFromFields DEF DefaultOf
<1>4. AlphaSchemaAccepts(b) => ConvertedTo(e, b)
  BY <1>3, ConvertToFields DEF ConvertedFrom
<1>5. validateSpec(d) /\ (s = d \/ (AlphaSchemaAccepts(b) /\ s = e))
  OBVIOUS
<1> HIDE DEF c, d, b, e
<1>6. c \in AutoscalerSpecs /\ d \in AutoscalerSpecs /\ b \in AlphaSpecs
  <2>1. c \in AutoscalerSpecs
    BY <1>1 DEF ConvertedTo
  <2>2. d \in AutoscalerSpecs
    BY <1>2 DEF DefaultOf
  <2>3. b \in AlphaSpecs
    BY <1>3 DEF ConvertedFrom
  <2> QED BY <2>1, <2>2, <2>3
<1>7. c.pu.min % 100 = 0 /\ c.pu.max % 100 = 0
  <2>1. CASE c.pu = Zero
    BY <2>1 DEF Zero
  <2>2. CASE c.pu = a.pu
    <3>1. \A x \in {a.pu.min, a.pu.max} : x = 0 \/ x % 100 = 0
      BY DEF AlphaSchemaAccepts
    <3> QED BY <2>2, <3>1
  <2> QED BY <1>1, <2>1, <2>2 DEF ConvertedTo
<1>8. Sound(d)
  BY <1>2, <1>5, <1>6, <1>7, DefaultSound
<1>9. /\ d.target = [m \in {"highPriority"} |-> a.highPriority]
      /\ a.highPriority \in Int
  <2>1. c.target = [m \in {"highPriority"} |-> a.highPriority]
    BY <1>1 DEF ConvertedTo
  <2>2. d.target = c.target
    BY <1>2 DEF DefaultOf
  <2>3. a.highPriority \in Int
    BY DEF AlphaSpecs
  <2> QED BY <2>1, <2>2, <2>3
<1>10. 0 < a.highPriority => TargetsSet(d)
  BY <1>9 DEF TargetsSet
<1>11. CASE s = d
  BY <1>8, <1>10, <1>11
<1>12. CASE AlphaSchemaAccepts(b) /\ s = e
  <2>1. ConvertedTo(e, b)
    BY <1>4, <1>12
  <2>2. 0 < a.highPriority => TargetsSet(e)
    <3>1. e.target = [m \in {"highPriority"} |-> a.highPriority]
      BY <1>3, <1>9, <2>1 DEF ConvertedFrom, ConvertedTo
    <3> QED BY <1>9, <3>1 DEF TargetsSet
  <2>3. e \in AutoscalerSpecs /\ e.down.kind # "bad" /\ e.up.kind # "bad"
    BY <2>1 DEF ConvertedTo
  <2>4. /\ e.type = "gcp-sa-key" <=> e.key
        /\ e.type = "impersonation" <=> e.impersonate
    <3>1. b.key \in BOOLEAN /\ b.impersonate \in BOOLEAN /\ ~(b.key /\ b.impersonate)
      BY <1>3, <1>6 DEF ConvertedFrom, AlphaSpecs
    <3> QED BY <2>1, <3>1 DEF ConvertedTo
  <2>5. e.nodes = Zero \/ e.pu = Zero
    BY <1>3, <2>1 DEF ConvertedFrom, ConvertedTo
  <2>6. e.pu = d.pu \/ e.pu = Zero
    BY <1>3, <2>1 DEF ConvertedFrom, ConvertedTo
  <2>7. e.pu.min > 0 => ValidPU(e.pu.min) /\ ValidPU(e.pu.max) /\ e.pu.min <= e.pu.max
    <3>1. CASE e.pu = Zero
      BY <3>1 DEF Zero
    <3>2. CASE e.pu = d.pu
      BY <1>8, <3>2 DEF Sound
    <3> QED BY <2>6, <3>1, <3>2
  <2>8. Sound(e)
    BY <2>3, <2>4, <2>5, <2>7 DEF Sound
  <2> QED BY <1>12, <2>2, <2>8
<1> QED BY <1>5, <1>11, <1>12

\* A validated override ramps: its steps round down to something.
LEMMA OverrideIsSound ==
    ASSUME NEW o \in Overrides, validateManualScalingSpec(o)
    PROVE  OverrideSound(o)
<1>1. o.pu \in Int /\ o.up \in Steps
  BY RequestsAssumption
<1>2. ValidPU(o.pu)
  BY <1>1 DEF validateManualScalingSpec, ValidPU
<1>3. validateStepSize(o.up)
  BY DEF validateManualScalingSpec
<1>4. ASSUME NEW base \in {100, 900, 1000, 2000}, o.up.kind = "int"
      PROVE  ResolveScaleupStep(o.up, base) > 0
  <2>1. o.up.val \in Nat
    BY <1>1 DEF Steps
  <2>2. /\ o.up.val > 0
        /\ o.up.val < 1000 => o.up.val % 100 = 0
    BY <1>3, <1>4, <2>1 DEF validateStepSize
  <2>3. RequestedStep(o.up, base) = RoundDown(o.up.val)
    BY <1>4 DEF RequestedStep, ScaledValue
  <2>4. RoundDown(o.up.val) \in Nat /\ RoundDown(o.up.val) > 0
    BY <2>1, <2>2 DEF RoundDown
  <2> QED BY <1>4, <2>3, <2>4 DEF ResolveScaleupStep
<1> QED BY <1>2, <1>4 DEF OverrideSound

-----------------------------------------------------------------------------

\* Storing a sound autoscaler.
LEMMA StoreSound ==
    ASSUME NEW s, Store("autoscaler", s), Sound(s), TargetInside' => TargetsSet(s)
    PROVE  IndInv'
<1>1. stored' = [kind |-> "autoscaler", spec |-> s]
  BY DEF Store
<1>2. stored'.kind = "autoscaler" /\ stored'.spec = s
  BY <1>1
<1> QED BY <1>2 DEF IndInv, Holds

\* What a v1beta1 request stores.
LEMMA WriteStep ==
    ASSUME NEW s \in AutoscalerSpecs, SchemaAccepts(Default(s)), validateSpec(Default(s)),
           Store("autoscaler", Default(s))
    PROVE  IndInv'
<1> DEFINE d == Default(s)
<1>1. DefaultOf(d, s) /\ SchemaAccepts(d) /\ validateSpec(d) /\ Store("autoscaler", d)
  BY DefaultFields
<1> HIDE DEF d
<1>2. s.nodes = Zero => s.pu.min % 100 = 0 /\ s.pu.max % 100 = 0
  BY <1>1 DEF DefaultOf, SchemaAccepts
<1>3. Sound(d)
  BY <1>1, <1>2, DefaultSound
<1>4. d.target \in TargetValues
  BY <1>3 DEF Sound, AutoscalerSpecs
<1>5. TargetsSet(d)
  BY <1>1, <1>4 DEF TargetsSet, TargetValues, CPUMetrics, SchemaAccepts, validateSpec,
                    validateScaleConfig, validateTargetCPUUtilization
<1> QED BY <1>1, <1>3, <1>5, StoreSound

\* What a v1alpha1 request stores.
LEMMA AlphaStep ==
    ASSUME NEW a \in AlphaSpecs, validateSpec(Default(ConvertTo(a))), StoreAlpha(a)
    PROVE  IndInv'
<1>1. asked' = a /\ AlphaSchemaAccepts(a)
  BY DEF StoreAlpha
<1>2. PICK s : /\ Store("autoscaler", s)
               /\ \/ s = Default(ConvertTo(a))
                  \/ /\ AlphaSchemaAccepts(ConvertFrom(Default(ConvertTo(a))))
                     /\ s = ConvertTo(ConvertFrom(Default(ConvertTo(a))))
  BY Zenon DEF StoreAlpha
<1>3. Sound(s) /\ (0 < a.highPriority => TargetsSet(s))
  BY <1>1, <1>2, AlphaSound
<1>4. TargetInside' => 0 < a.highPriority
  BY <1>1, RequestsAssumption DEF TargetInside
<1> QED BY <1>2, <1>3, <1>4, StoreSound

\* The blank v1alpha1 object has the shape of one.
LEMMA BlankTyped ==
    ASSUME NEW i \in STRING
    PROVE  AlphaBlank(i) \in AlphaSpecs
BY DEF AlphaBlank, AlphaSpecs, Zero, Ranges, Nil

\* Every step preserves the invariant.
LEMMA NextInv == IndInv /\ [Next]_vars => IndInv'
<1> SUFFICES ASSUME IndInv, [Next]_vars PROVE IndInv'
  OBVIOUS
<1>1. Holds("autoscaler") => stored.spec \in AutoscalerSpecs
  BY DEF IndInv, Sound
<1>2. CASE Create
  <2>1. PICK s \in Autoscalers : /\ SchemaAccepts(Default(s)) /\ validateSpec(Default(s))
                                 /\ Store("autoscaler", Default(s))
    BY <1>2 DEF Create, Submitted
  <2> QED BY <2>1, WriteStep, RequestsAssumption
<1>3. CASE Update
  <2>1. PICK p \in Patches : LET s == Patched(stored.spec, p) IN
          /\ SchemaAccepts(Default(s)) /\ ValidateUpdate(stored.spec, Default(s))
          /\ Store("autoscaler", Default(s))
    BY <1>3 DEF Update, Submitted
  <2>2. Patched(stored.spec, p) \in AutoscalerSpecs
    BY <1>1, <1>3, PatchedTyped DEF Update
  <2> QED BY <2>1, <2>2, WriteStep DEF ValidateUpdate
<1>4. CASE CreateAlpha
  <2>1. PICK i \in {s.instance : s \in Autoscalers}, p \in AlphaPatches :
          LET a == Patched(AlphaBlank(i), p) IN
          validateSpec(Default(ConvertTo(a))) /\ StoreAlpha(a)
    BY <1>4 DEF CreateAlpha
  <2>2. i \in STRING
    BY RequestsAssumption DEF AutoscalerSpecs
  <2>3. Patched(AlphaBlank(i), p) \in AlphaSpecs
    BY <2>2, BlankTyped, AlphaPatchedTyped
  <2> QED BY <2>1, <2>3, AlphaStep
<1>5. CASE UpdateAlpha
  <2>1. PICK p \in AlphaPatches : LET a == Patched(ConvertFrom(stored.spec), p) IN
          ValidateUpdate(stored.spec, Default(ConvertTo(a))) /\ StoreAlpha(a)
    BY <1>5 DEF UpdateAlpha
  <2>2. ConvertFrom(stored.spec) \in AlphaSpecs
    BY <1>1, <1>5, ConvertFromFields DEF UpdateAlpha, ConvertedFrom
  <2>3. Patched(ConvertFrom(stored.spec), p) \in AlphaSpecs
    BY <2>2, AlphaPatchedTyped
  <2> QED BY <2>1, <2>3, AlphaStep DEF ValidateUpdate
<1>6. CASE CreateSchedule \/ UpdateSchedule
  <2>1. PICK s : stored' = [kind |-> "schedule", spec |-> s]
    BY <1>6 DEF CreateSchedule, UpdateSchedule, Store
  <2> QED BY <2>1 DEF IndInv, Holds
<1>7. CASE CreateOverride
  <2>1. PICK o \in Overrides : /\ validateManualScalingSpec(o)
                               /\ stored' = [kind |-> "override", spec |-> o]
    BY <1>7 DEF CreateOverride, Store
  <2> QED BY <2>1, OverrideIsSound DEF IndInv, Holds
<1>8. CASE UpdateOverride
  <2>1. stored' = [kind |-> "override", spec |-> stored.spec] /\ Holds("override")
    BY <1>8 DEF UpdateOverride, Store, ValidateOverrideUpdate
  <2> QED BY <2>1 DEF IndInv, Holds
<1>9. CASE Delete
  BY <1>9 DEF Delete, IndInv, Holds
<1>10. CASE UNCHANGED vars
  BY <1>10 DEF vars, IndInv, Holds, TargetInside
<1> QED BY <1>2, <1>3, <1>4, <1>5, <1>6, <1>7, <1>8, <1>9, <1>10 DEF Next

\* Nothing is stored at the start.
LEMMA InitInv == Init => IndInv
BY DEF Init, IndInv, Holds

\* A stored autoscaler has the shape of its type and steps that can be parsed.
THEOREM TypeCorrect == Spec => []TypeOK
<1>1. IndInv => TypeOK
  BY DEF IndInv, TypeOK, Sound
<1> QED BY InitInv, NextInv, <1>1, PTL DEF Spec

\* The webhooks, the schema and the conversion together establish the typing
\* and the valid ranges on which the proofs about Scaling, Resource and
\* Autoscaler rest.
THEOREM StoredMeetsAssumptions == Spec => []MeetsAssumptions
<1>1. ASSUME IndInv, Holds("autoscaler"), TargetInside, stored.spec.pu.min > 0
      PROVE  LET s == ScaleSpec(stored.spec) IN
             SpecTyped(s) /\ ValidPU(s.min) /\ ValidPU(s.max) /\ s.min <= s.max
  <2> DEFINE t == stored.spec
             s == ScaleSpec(t)
  <2>1. Sound(t) /\ TargetsSet(t) /\ t.pu.min > 0
    BY <1>1 DEF IndInv
  <2> HIDE DEF t
  <2>2. /\ t.pu \in Ranges /\ t.down \in StepValues /\ t.up \in StepValues
        /\ t.downInterval \in Nat \cup {Nil} /\ t.upInterval \in Nat \cup {Nil}
        /\ t.target \in TargetValues
    BY <2>1 DEF Sound, AutoscalerSpecs
  <2>3. t.down \in Steps /\ t.up \in Steps
    BY <2>2 DEF StepValues, Steps
  <2>4. /\ DurationOr(t.downInterval, DefaultIntervals.down) \in Nat
        /\ DurationOr(t.upInterval, DefaultIntervals.up) \in Nat
    BY <2>2, IntervalsAssumption DEF DurationOr
  <2>5. /\ DOMAIN t.target \subseteq CPUMetrics /\ DOMAIN t.target # {}
        /\ t.target \in [DOMAIN t.target -> Nat \ {0}]
    BY <2>1, <2>2 DEF TargetsSet, TargetValues, CPUMetrics
  <2>6. /\ t.pu.min \in Nat /\ t.pu.max \in Nat
        /\ ValidPU(t.pu.min) /\ ValidPU(t.pu.max) /\ t.pu.min <= t.pu.max
    BY <2>1, <2>2 DEF Sound, Ranges
  <2>7. /\ s.min = t.pu.min /\ s.max = t.pu.max
        /\ s.scaledownStep = t.down /\ s.scaleupStep = t.up /\ s.target = t.target
        /\ s.scaledownInterval = DurationOr(t.downInterval, DefaultIntervals.down)
        /\ s.scaleupInterval = DurationOr(t.upInterval, DefaultIntervals.up)
    BY DEF ScaleSpec
  <2> HIDE DEF s
  <2>8. SpecTyped(s) /\ ValidPU(s.min) /\ ValidPU(s.max) /\ s.min <= s.max
    BY <2>3, <2>4, <2>5, <2>6, <2>7 DEF SpecTyped
  <2> QED BY <2>8 DEF s, t
<1>2. IndInv => MeetsAssumptions
  BY <1>1 DEF IndInv, MeetsAssumptions, OverrideSound
<1> QED BY InitInv, NextInv, <1>2, PTL DEF Spec

\* fetchCredentials never dereferences a configuration that is missing.
THEOREM CredentialsPresent == Spec => []CredentialsFetchable
<1>1. IndInv => CredentialsFetchable
  BY DEF IndInv, CredentialsFetchable, Sound
<1> QED BY InitInv, NextInv, <1>1, PTL DEF Spec

\* The two ways to state a capacity never disagree once stored.
THEOREM CapacitiesAgree == Spec => []NodesAgree
<1>1. IndInv => NodesAgree
  BY DEF IndInv, NodesAgree, Sound
<1> QED BY InitInv, NextInv, <1>1, PTL DEF Spec

\* No sequence of updates, in either version, moves an object to another target.
THEOREM IdentityPreserved == Spec => IdentityFixed
<1>1. ASSUME NEW a, NEW old, ValidateUpdate(old, Default(ConvertTo(a))),
             NEW s, \/ s = Default(ConvertTo(a))
                    \/ s = ConvertTo(ConvertFrom(Default(ConvertTo(a))))
      PROVE  s.instance = old.instance
  <2>1. Default(ConvertTo(a)).instance = old.instance
    BY <1>1 DEF ValidateUpdate
  <2>2. \A x : ConvertTo(x).instance = x.instance
    BY DEF ConvertTo
  <2>3. \A x : ConvertFrom(x).instance = x.instance
    BY DEF ConvertFrom
  <2> QED BY <1>1, <2>1, <2>2, <2>3
<1>2. [Next]_vars => [IdentityKept]_vars
  <2> SUFFICES ASSUME Next, stored # None, stored' # None
               PROVE  IdentityKept
    BY DEF IdentityKept, vars
  <2>1. CASE Update
    <3>1. PICK d : ValidateUpdate(stored.spec, d) /\ Store("autoscaler", d)
      BY <2>1 DEF Update
    <3> QED BY <2>1, <3>1 DEF Update, IdentityKept, Holds, Store, ValidateUpdate
  <2>2. CASE UpdateAlpha
    <3>1. PICK a : ValidateUpdate(stored.spec, Default(ConvertTo(a))) /\ StoreAlpha(a)
      BY <2>2 DEF UpdateAlpha
    <3>2. PICK s : /\ Store("autoscaler", s)
                   /\ \/ s = Default(ConvertTo(a))
                      \/ s = ConvertTo(ConvertFrom(Default(ConvertTo(a))))
      BY <3>1, Zenon DEF StoreAlpha
    <3>3. s.instance = stored.spec.instance
      BY <1>1, <3>1, <3>2
    <3> QED BY <2>2, <3>2, <3>3 DEF UpdateAlpha, IdentityKept, Holds, Store
  <2>3. CASE UpdateSchedule
    <3>1. PICK s \in Schedules : /\ ValidateScheduleUpdate(stored.spec, s)
                                 /\ Store("schedule", [s EXCEPT !.policy = Normalized(@)])
      BY <2>3 DEF UpdateSchedule
    <3>2. [s EXCEPT !.policy = Normalized(@)].target = s.target
      BY RequestsAssumption
    <3> QED BY <2>3, <3>1, <3>2
            DEF UpdateSchedule, IdentityKept, Holds, Store, ValidateScheduleUpdate
  <2>4. CASE UpdateOverride
    BY <2>4 DEF UpdateOverride, IdentityKept, Holds, Store, ValidateOverrideUpdate
  <2> QED BY <2>1, <2>2, <2>3, <2>4
          DEF Next, Create, CreateAlpha, CreateSchedule, CreateOverride, Delete
<1> QED BY <1>2, PTL DEF Spec, IdentityFixed
=============================================================================
