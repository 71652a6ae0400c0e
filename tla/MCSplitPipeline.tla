--------------------------- MODULE MCSplitPipeline ---------------------------
(* Instances of SplitPipeline for TLC.  One unit is 500 dollars.           *)
EXTENDS SplitPipeline

Row(status, collision, comprehensive, limit, deductible) ==
    [status |-> status,
     active |-> [p \in Pools |-> IF p = "collision" THEN collision ELSE comprehensive],
     limit |-> [p \in Pools |-> limit],
     deductible |-> deductible]

(* Full cover, one pool only, no cover, lapsed, a high deductible and one  *)
(* over the limit.                                                         *)
MCPolicies ==
    {Row("active", TRUE, TRUE, 6, 1), Row("active", FALSE, TRUE, 3, 1),
     Row("active", FALSE, FALSE, 6, 1), Row("lapsed", TRUE, TRUE, 6, 1),
     Row("active", TRUE, TRUE, 6, 3), Row("active", TRUE, TRUE, 2, 3)}

MCRowCosts == {[p \in Pools |-> IF p = "collision" THEN 2 ELSE 1], [p \in Pools |-> 3]}

MCInstanceCosts == {1, 5}

MCConfidences == {60, 90}
=============================================================================
