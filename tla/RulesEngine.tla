----------------------------- MODULE RulesEngine -----------------------------
(***************************************************************************)
(* common/rules_engine.py and the lookups it reads: the deterministic      *)
(* payout calculation every architecture but the monolith ends in.         *)
(*                                                                         *)
(* A policy is the row policy_lookup returns, a claim is what              *)
(* cost_lookup totals per coverage pool.  Dollars are whole numbers of a   *)
(* unit the instance chooses and a confidence is a percentage: the code    *)
(* only adds, subtracts and compares them.                                 *)
(***************************************************************************)
EXTENDS Integers, FiniteSets

CONSTANTS
    AutoApproveMax,       \* rules_engine.AUTO_APPROVE_MAX_PAYOUT
    ConfidenceThreshold,  \* rules_engine.CONFIDENCE_THRESHOLD
    NoAmount              \* None, where a payout or a deductible is expected

ASSUME RulesAssumption ==
    /\ AutoApproveMax \in Nat
    /\ ConfidenceThreshold \in Nat
    /\ NoAmount \notin Int

-----------------------------------------------------------------------------
(* The rows the engine reads and the result it returns.                    *)

Pools == {"collision", "comprehensive"}

PolicyRow ==
    [status : {"active", "lapsed"}, active : [Pools -> BOOLEAN],
     limit : [Pools -> Nat], deductible : Nat]

PoolCosts == [Pools -> Nat]

Routes == {"auto_approve", "auto_deny", "escalate"}

PayoutReasons ==
    {"policy_lapsed", "not_covered", "partial_coverage_some_instances_excluded",
     "policy_deductible_exceeds_limit", "payout_above_auto_approve_threshold",
     "confidence_below_threshold"}

PayoutResult ==
    [route : Routes, payout : Nat \cup {NoAmount}, deductible : Nat \cup {NoAmount},
     total : Nat, covered : Nat, reasons : SUBSET PayoutReasons]

TotalCost(costs) == costs["collision"] + costs["comprehensive"]

-----------------------------------------------------------------------------
(* What the calculation is made of.                                        *)

AtMost(a, cap) == IF a <= cap THEN a ELSE cap

Larger(a, b) == IF a >= b THEN a ELSE b

(* Mutant: the limit is not applied to the pool.                           *)
UncappedCost(policy, costs, p) == IF policy.active[p] THEN costs[p] ELSE 0

(* Mutant: damage over the limit is thrown out instead of cut down to it.  *)
CostWithinLimit(policy, costs, p) ==
    IF policy.active[p] /\ costs[p] <= policy.limit[p] THEN costs[p] ELSE 0

(* An active pool counts up to its own limit, an inactive one not at all.  *)
CappedCost(policy, costs, p) ==
    IF policy.active[p] THEN AtMost(costs[p], policy.limit[p]) ELSE 0

CoveredCost(policy, costs) ==
    CappedCost(policy, costs, "collision") + CappedCost(policy, costs, "comprehensive")

UncoveredPresent(policy, costs) ==
    \E p \in Pools : costs[p] > 0 /\ ~policy.active[p]

(* Mutant: a damaged pool's limit counts whether it was bought or not.     *)
DamagedLimit(policy, costs, p) == IF costs[p] > 0 THEN policy.limit[p] ELSE 0

(* The limit of a pool this claim can draw on: damaged and active.         *)
DrawnLimit(policy, costs, p) ==
    IF costs[p] > 0 /\ policy.active[p] THEN policy.limit[p] ELSE 0

ApplicableLimit(policy, costs) ==
    DrawnLimit(policy, costs, "collision") + DrawnLimit(policy, costs, "comprehensive")

(* Mutant: no floor at zero.                                               *)
NetUnfloored(covered, deductible) == covered - deductible

Net(covered, deductible) == Larger(covered - deductible, 0)

Confident(confidence) == confidence >= ConfidenceThreshold

SmallEnough(payout) == payout <= AutoApproveMax

GateReasons(payout, confidence) ==
    (IF SmallEnough(payout) THEN {} ELSE {"payout_above_auto_approve_threshold"})
    \cup (IF Confident(confidence) THEN {} ELSE {"confidence_below_threshold"})

-----------------------------------------------------------------------------
(* The four ways a calculation ends.                                       *)

Denied(total, reason) ==
    [route |-> "auto_deny", payout |-> NoAmount, deductible |-> NoAmount,
     total |-> total, covered |-> 0, reasons |-> {reason}]

Malformed(total, covered, reasons) ==
    [route |-> "escalate", payout |-> NoAmount, deductible |-> NoAmount,
     total |-> total, covered |-> covered,
     reasons |-> reasons \cup {"policy_deductible_exceeds_limit"}]

(* Mutant: an unconfident claim loses its payout with its approval.        *)
GatedPayout(policy, total, covered, reasons, confidence) ==
    LET payout == Net(covered, policy.deductible)
        passed == SmallEnough(payout) /\ Confident(confidence)
    IN [route |-> IF passed THEN "auto_approve" ELSE "escalate",
        payout |-> IF Confident(confidence) THEN payout ELSE NoAmount,
        deductible |-> policy.deductible, total |-> total, covered |-> covered,
        reasons |-> reasons \cup GateReasons(payout, confidence)]

(* A priced claim passes both gates or goes to a human with its payout.    *)
Gated(policy, total, covered, reasons, confidence) ==
    LET payout == Net(covered, policy.deductible)
    IN [route |-> IF SmallEnough(payout) /\ Confident(confidence)
                    THEN "auto_approve" ELSE "escalate",
        payout |-> payout, deductible |-> policy.deductible,
        total |-> total, covered |-> covered,
        reasons |-> reasons \cup GateReasons(payout, confidence)]

(* compute_payout, for a claim whose policy exists.                        *)
ComputePayout(policy, costs, confidence) ==
    LET total   == TotalCost(costs)
        covered == CoveredCost(policy, costs)
        partial == IF UncoveredPresent(policy, costs)
                     THEN {"partial_coverage_some_instances_excluded"} ELSE {}
    IN CASE policy.status = "lapsed" -> Denied(0, "policy_lapsed")
         [] policy.status # "lapsed" /\ covered <= 0 -> Denied(total, "not_covered")
         [] policy.status # "lapsed" /\ covered > 0 ->
              IF policy.deductible >= ApplicableLimit(policy, costs)
                THEN Malformed(total, covered, partial)
                ELSE Gated(policy, total, covered, partial, confidence)

(* The single pool of a live upload: the larger of the active limits.      *)
ActiveLimit(policy, p) == IF policy.active[p] THEN policy.limit[p] ELSE 0

(* Mutant: the two limits are added up for the one pool.                   *)
SummedLimit(policy) == ActiveLimit(policy, "collision") + ActiveLimit(policy, "comprehensive")

SinglePoolLimit(policy) ==
    Larger(ActiveLimit(policy, "collision"), ActiveLimit(policy, "comprehensive"))

AnyActive(policy) == \E p \in Pools : policy.active[p]

(* compute_payout_live, for a claim whose policy exists.                   *)
ComputePayoutLive(policy, costs, confidence) ==
    LET total   == TotalCost(costs)
        covered == AtMost(total, SinglePoolLimit(policy))
        payable == AnyActive(policy) /\ total > 0
    IN CASE policy.status = "lapsed" -> Denied(0, "policy_lapsed")
         [] policy.status # "lapsed" /\ ~payable -> Denied(total, "not_covered")
         [] policy.status # "lapsed" /\ payable ->
              IF policy.deductible >= SinglePoolLimit(policy)
                THEN Malformed(total, covered, {})
                ELSE Gated(policy, total, covered, {}, confidence)

=============================================================================
