------------------------------ MODULE MCPlanRun ------------------------------
(***************************************************************************)
(* Finite instances of PlanRun: every plan of up to three permitted steps  *)
(* over three numbers, in any listing and with repeated numbers, and short *)
(* plans with the steps check_plan must refuse.                            *)
(***************************************************************************)
EXTENDS PlanRun

ThreeNumbers == 1 .. 3

GoodSteps ==
    [num: ThreeNumbers, refs: {{}, {1}, {Trigger, 2}},
     guard: {NoGuard, Trigger, 1, 2}, permitted: {TRUE}]

OddSteps ==
    [num: {1, 2}, refs: {{}, {1}, {3}, {Malformed}},
     guard: {NoGuard, 1, 3, Trigger, Malformed}, permitted: BOOLEAN]

SomePlans ==
    UNION {[1 .. n -> GoodSteps] : n \in 0 .. 3}
        \cup [1 .. 2 -> OddSteps]
        \cup {[i \in 1 .. 4 |->
                 [num |-> (i % 3) + 1, refs |-> {}, guard |-> NoGuard, permitted |-> TRUE]]}

\* Two steps that carry the same number.
RepeatedNumber ==
    {p \in [1 .. 2 -> GoodSteps] : p[1].num = p[2].num}
=============================================================================
