----------------------------- MODULE ClaimPricing -----------------------------
(***************************************************************************)
(* One claim, its policy and its damage rows, priced again and again: the  *)
(* evaluation runs every claim through the pipeline more than once, and    *)
(* each pass brings the confidence its own vision call reported.  The rows *)
(* in the database do not change between passes.                           *)
(***************************************************************************)
EXTENDS RulesEngine

CONSTANTS
    Policies,     \* the policy rows a claim can join to
    ClaimCosts,   \* what the claim's damage rows can total, per pool
    Confidences   \* what a vision call can report

ASSUME PricingAssumption ==
    /\ Policies \subseteq PolicyRow
    /\ ClaimCosts \subseteq PoolCosts
    /\ Confidences \subseteq Nat

VARIABLES
    policy,      \* the row of policies
    costs,       \* cost_lookup.claim_costs_by_coverage of the claim
    evalResult,  \* the last compute_payout, or the record Unpriced
    liveResult   \* the last compute_payout_live, or the record Unpriced

vars == <<policy, costs, evalResult, liveResult>>

Unpriced ==
    [route |-> "none", payout |-> NoAmount, deductible |-> NoAmount,
     total |-> 0, covered |-> 0, reasons |-> {}]

TypeOK ==
    /\ policy \in PolicyRow
    /\ costs \in PoolCosts
    /\ evalResult \in PayoutResult \cup {Unpriced}
    /\ liveResult \in PayoutResult \cup {Unpriced}

Init ==
    /\ policy \in Policies
    /\ costs \in ClaimCosts
    /\ evalResult = Unpriced
    /\ liveResult = Unpriced

(* pipeline.run_claim's call: two pools, the coverage types in the rows.   *)
PriceClaim(confidence) ==
    /\ evalResult' = ComputePayout(policy, costs, confidence)
    /\ UNCHANGED <<policy, costs, liveResult>>

(* pipeline.run_upload's call: one pool, the coverage types not read.      *)
PriceUpload(confidence) ==
    /\ liveResult' = ComputePayoutLive(policy, costs, confidence)
    /\ UNCHANGED <<policy, costs, evalResult>>

Next == \E confidence \in Confidences : PriceClaim(confidence) \/ PriceUpload(confidence)

Spec == Init /\ [][Next]_vars

-----------------------------------------------------------------------------
Priced(result) == result.payout # NoAmount

ActiveLimits == ActiveLimit(policy, "collision") + ActiveLimit(policy, "comprehensive")

(* What the policy can be made to pay: a claim is paid only while the      *)
(* policy is active, never more than the damage costs, and never more than *)
(* the active limits less the one deductible (rules_engine.py:53-98).      *)
PaidWithinContract ==
    \A result \in {evalResult, liveResult} :
        Priced(result) =>
            /\ policy.status = "active"
            /\ AnyActive(policy)
            /\ result.payout <= TotalCost(costs)
            /\ result.payout > 0 => result.payout + policy.deductible <= ActiveLimits

(* Damage in a pool the customer did not buy moves no money: whatever such *)
(* rows the claim also holds, the route and the payout are those of the    *)
(* covered damage alone.  With no other damage the claim is denied, before *)
(* the deductible is held against limits that nothing draws on and the     *)
(* policy is taken for malformed (rules_engine.py:53-95).                  *)
UncoveredDamageIsInert ==
    evalResult # Unpriced =>
        /\ (\A p \in Pools : costs[p] > 0 => ~policy.active[p]) =>
               evalResult.route = "auto_deny"
        /\ \A other \in ClaimCosts :
               (\A p \in Pools : policy.active[p] => other[p] = costs[p]) =>
                   \A confidence \in Confidences :
                       LET here  == ComputePayout(policy, costs, confidence)
                           there == ComputePayout(policy, other, confidence)
                       IN  /\ here.payout = there.payout
                           /\ here.route = there.route

(* More damage never pays less, and never talks the engine out of sending  *)
(* a large payout to a human: every heavier claim on the same policy is    *)
(* priced too, its payout is at least as large, and one over the           *)
(* auto-approve limit is not approved (rules_engine.py:59-107).            *)
MoreDamageNeverPaysLess ==
    Priced(evalResult) =>
        \A heavier \in ClaimCosts :
            (\A p \in Pools : heavier[p] >= costs[p]) =>
                \A confidence \in Confidences :
                    LET worse == ComputePayout(policy, heavier, confidence)
                    IN  /\ Priced(worse)
                        /\ worse.payout >= evalResult.payout
                        /\ "payout_above_auto_approve_threshold" \in evalResult.reasons
                              => worse.route # "auto_approve"

(* The live branch departs from the eval branch only where its comment     *)
(* accepts it (rules_engine.py:124-129, 156-157): on a policy whose two    *)
(* limits are equal it pays more only by paying a peril the customer did   *)
(* not buy, and less only when both perils would draw on their own limit.  *)
LiveDivergesOnlyAsAccepted ==
    (/\ Priced(evalResult)
     /\ Priced(liveResult)
     /\ policy.limit["collision"] = policy.limit["comprehensive"]) =>
        /\ liveResult.payout > evalResult.payout => UncoveredPresent(policy, costs)
        /\ liveResult.payout < evalResult.payout => \A p \in Pools : costs[p] > 0

(* "Money is never model-dependent" (pipeline.py:81-83): a later pass with *)
(* another confidence may move a claim between approval and a human, and   *)
(* moves neither the payout nor a denial.                                  *)
MoneyIsNotModelDependent ==
    [][evalResult # Unpriced =>
          /\ evalResult'.payout = evalResult.payout
          /\ evalResult'.covered = evalResult.covered
          /\ (evalResult.route = "auto_deny") <=> (evalResult'.route = "auto_deny")]_vars

=============================================================================
