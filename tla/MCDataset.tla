------------------------------ MODULE MCDataset ------------------------------
(* Instances of Dataset for TLC.  One unit is 500 dollars.                 *)
EXTENDS Dataset, TLC

CONSTANTS ada, ben

Row(status, collision, limit) ==
    [status |-> status,
     active |-> [p \in Pools |-> p # "collision" \/ collision],
     limit |-> [p \in Pools |-> limit],
     deductible |-> 1]

(* Full cover, and a customer without collision cover.                     *)
MCPolicyOf == ada :> Row("active", TRUE, 6) @@ ben :> Row("active", FALSE, 6)

Claim(customer, pool, cost) == [customer |-> customer, pool |-> pool, cost |-> cost]

(* Two claims of one kind and a third of another; two kinds of claims.     *)
MCClaimTables ==
    {<<Claim(ada, "collision", 2), Claim(ada, "collision", 3), Claim(ben, "collision", 2)>>,
     <<Claim(ben, "comprehensive", 6), Claim(ada, "collision", 1)>>}

MCMismatchClaims == <<Claim(ada, "collision", 2)>>

MCMismatchIds == <<4>>

MCLiveClaims == {Claim(ada, "collision", 2)}
=============================================================================
