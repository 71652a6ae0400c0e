---------------------------- MODULE MCClaimPricing ----------------------------
(* Instances of ClaimPricing for TLC.  One unit is 500 dollars, so the     *)
(* auto-approve limit of 2000 is 4.                                        *)
EXTENDS Scoring

MCConfidences == {74, 75}

(* Every cost around the limits below and the auto-approve limit.          *)
MCClaimCosts == [Pools -> {0, 1, 2, 3, 6, 7}]

Rows(limits, deductibles) ==
    {row \in [status : {"active", "lapsed"}, active : [Pools -> BOOLEAN],
              limit : [Pools -> limits], deductible : deductibles] :
        row.status = "lapsed" => \A p \in Pools : row.active[p]}

(* Limits and deductibles on both sides of each other, malformed policies  *)
(* included.                                                               *)
MCPolicies == Rows({2, 3, 6}, {0, 1, 3})

=============================================================================
