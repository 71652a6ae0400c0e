------------------------------ MODULE MCPEVLoop ------------------------------
(* Instances of PEVLoop for TLC.  One unit is 500 dollars.                 *)
EXTENDS PEVLoop

Row(status, collision, comprehensive, limit, deductible) ==
    [status |-> status,
     active |-> [p \in Pools |-> IF p = "collision" THEN collision ELSE comprehensive],
     limit |-> [p \in Pools |-> limit],
     deductible |-> deductible]

(* Full cover, collision only, and a lapsed policy.                        *)
MCPolicies ==
    {Row("active", TRUE, TRUE, 6, 1),
     Row("active", TRUE, FALSE, 3, 1),
     Row("lapsed", TRUE, TRUE, 6, 1)}

MCRowCosts == {[p \in Pools |-> IF p = "collision" THEN 2 ELSE 1]}

(* A small claim and one over the auto-approve limit.                      *)
MCDamageCosts == {2, 7}

MCConfidences == {60, 90}

=============================================================================
