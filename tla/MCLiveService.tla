---------------------------- MODULE MCLiveService ----------------------------
(* Instances of LiveService for TLC.  One unit is 500 dollars.             *)
EXTENDS LiveService

Row(status, collision, comprehensive) ==
    [status |-> status,
     active |-> [p \in Pools |-> IF p = "collision" THEN collision ELSE comprehensive],
     limit |-> [p \in Pools |-> 6],
     deductible |-> 1]

(* Full cover, and collision only.                                         *)
MCPolicies == {Row("active", TRUE, TRUE), Row("active", TRUE, FALSE)}

(* A small claim and one over the auto-approve limit.                      *)
MCDamageCosts == {2, 7}

MCConfidences == {60, 90}
=============================================================================
