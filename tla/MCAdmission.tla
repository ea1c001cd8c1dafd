---------------------------- MODULE MCAdmission ----------------------------
(***************************************************************************)
(* A small instance of Admission.  The values of a field lie on both sides *)
(* of what the webhooks and the schema check for it.                       *)
(***************************************************************************)
EXTENDS Admission, TLC

Range2(lo, hi) == [min |-> lo, max |-> hi]
Whole(n) == [kind |-> "int", val |-> n]
Percent(n) == [kind |-> "percent", val |-> n]
BadStep == [kind |-> "bad", val |-> 0]
NoStep == [kind |-> "nil", val |-> 0]
HighPriority(n) == [m \in {"highPriority"} |-> n]
Total(n) == [m \in {"total"} |-> n]

NodeRanges == {Zero, Range2(1, 3), Range2(3, 1)}
PURanges == {Zero, Range2(100, 900), Range2(500, 2000), Range2(900, 500), Range2(500, 1500),
             Range2(-100, 1000), Range2(0, 1000), Range2(150, 900)}
Targets == {[m \in {} |-> 0], HighPriority(65), HighPriority(100), Total(70)}
Windows == {{}, {{1}}, {{}}}

\* "f" :> v is the patch that sets field f to v.
MCPatches ==
    {("nodes" :> r) : r \in NodeRanges} \cup {("pu" :> r) : r \in PURanges}
    \cup {("nodes" :> Zero) @@ ("pu" :> r) : r \in PURanges}
    \cup {("down" :> x) : x \in {UnsetStep, Whole(500), Whole(1500), Percent(10), BadStep}}
    \cup {("up" :> x) : x \in {Whole(250), Percent(10), BadStep}}
    \cup {("target" :> t) : t \in Targets}
    \cup {("allowed" :> w) : w \in Windows} \cup {("notAllowed" :> w) : w \in Windows}
    \cup {("key" :> b) : b \in BOOLEAN} \cup {("impersonate" :> b) : b \in BOOLEAN}
    \cup {("instance" :> "i2"), ("type" :> "impersonation"), ("downInterval" :> 30)}

MCAutoscalers ==
    [instance : {"i1", "i2"}, key : {FALSE}, impersonate : {FALSE}, type : {""},
     computeType : {""}, nodes : NodeRanges, pu : PURanges, down : {UnsetStep},
     up : {UnsetStep}, downInterval : {Nil}, upInterval : {Nil}, target : Targets, allowed : {{}}, notAllowed : {{}}]

MCAlphaPatches ==
    LET capacities == {("nodes" :> r) : r \in {Range2(1, 2), Range2(0, 2)}}
                      \cup {("pu" :> Range2(100, 1000)),
                            ("nodes" :> Range2(2, 2)) @@ ("pu" :> Range2(100, 900))}
        targets == {("highPriority" :> n) : n \in {50, 100}}
    IN  capacities \cup targets \cup {c @@ t : c \in capacities, t \in targets}
        \cup {("maxScaleDownNodes" :> n) : n \in {0, 3}} \cup {("impersonate" :> TRUE)}

MCSchedules ==
    [target : {"a", "b"}, cron : {{}, {1}}, duration : {Nil, 60}, additionalPU : {500},
     policy : {"", "Cap"}]

MCOverrides ==
    [target : {"", "a"}, pu : {0, 150, 700, 1500, 2000}, up : {NoStep, Whole(0), Whole(200), Percent(1)},
     down : {NoStep, BadStep}, upInterval : {Nil, 0, 5}, downInterval : {Nil}]

MCIntervals == [down |-> 55, up |-> 1]
=============================================================================
