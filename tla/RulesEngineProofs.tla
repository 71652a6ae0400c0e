-------------------------- MODULE RulesEngineProofs --------------------------
(* Facts about the payout calculation, for every policy, every damage and  *)
(* every confidence, whatever the auto-approve limit and the threshold;    *)
(* and the least element of a set of naturals, for the proofs built on it. *)
EXTENDS RulesEngine, WellFoundedInduction, TLAPS

(* The amounts the calculation is made of are natural numbers: an active   *)
(* pool contributes at most its limit and at most its damage.              *)
LEMMA AmountTypes ==
    ASSUME NEW policy \in PolicyRow, NEW costs \in PoolCosts
    PROVE  /\ TotalCost(costs) \in Nat
           /\ \A p \in Pools : /\ CappedCost(policy, costs, p) \in Nat
                               /\ CappedCost(policy, costs, p) <= costs[p]
                               /\ CappedCost(policy, costs, p) <= ActiveLimit(policy, p)
                               /\ DrawnLimit(policy, costs, p) \in Nat
           /\ CoveredCost(policy, costs) \in Nat
           /\ ApplicableLimit(policy, costs) \in Nat
           /\ SinglePoolLimit(policy) \in Nat
<1>1. \A p \in Pools : /\ costs[p] \in Nat
                       /\ policy.limit[p] \in Nat
                       /\ policy.active[p] \in BOOLEAN
  BY DEF PolicyRow, PoolCosts
<1>2. "collision" \in Pools /\ "comprehensive" \in Pools
  BY DEF Pools
<1>3. \A p \in Pools : /\ CappedCost(policy, costs, p) \in Nat
                       /\ CappedCost(policy, costs, p) <= costs[p]
                       /\ CappedCost(policy, costs, p) <= ActiveLimit(policy, p)
                       /\ DrawnLimit(policy, costs, p) \in Nat
                       /\ ActiveLimit(policy, p) \in Nat
  BY <1>1 DEF CappedCost, AtMost, DrawnLimit, ActiveLimit
<1> QED
  BY <1>1, <1>2, <1>3 DEF TotalCost, CoveredCost, ApplicableLimit, SinglePoolLimit, Larger

(* compute_payout always answers with a well-formed result.                *)
LEMMA PayoutType ==
    ASSUME NEW policy \in PolicyRow, NEW costs \in PoolCosts, NEW confidence \in Nat
    PROVE  ComputePayout(policy, costs, confidence) \in PayoutResult
<1> DEFINE total   == TotalCost(costs)
           covered == CoveredCost(policy, costs)
           partial == IF UncoveredPresent(policy, costs)
                        THEN {"partial_coverage_some_instances_excluded"} ELSE {}
<1>1. /\ total \in Nat /\ covered \in Nat
      /\ policy.deductible \in Nat
      /\ Net(covered, policy.deductible) \in Nat
  BY AmountTypes DEF PolicyRow, Net, Larger
<1>2. partial \subseteq PayoutReasons
  BY DEF PayoutReasons
<1>3. GateReasons(Net(covered, policy.deductible), confidence) \subseteq PayoutReasons
  BY DEF GateReasons, PayoutReasons
<1>4. Gated(policy, total, covered, partial, confidence) \in PayoutResult
  <2> HIDE DEF total, covered, partial
  <2> QED  BY <1>1, <1>2, <1>3 DEF Gated, PayoutResult, Routes
<1>5. Malformed(total, covered, partial) \in PayoutResult
  <2> HIDE DEF total, covered, partial
  <2> QED  BY <1>1, <1>2 DEF Malformed, PayoutResult, Routes, PayoutReasons
<1>6. Denied(0, "policy_lapsed") \in PayoutResult /\ Denied(total, "not_covered") \in PayoutResult
  <2> HIDE DEF total
  <2> QED  BY <1>1 DEF Denied, PayoutResult, Routes, PayoutReasons
<1>7. covered <= 0 \/ covered > 0
  <2> HIDE DEF covered
  <2> QED  BY <1>1
<1> QED
  BY <1>4, <1>5, <1>6, <1>7 DEF ComputePayout

(* So does compute_payout_live.                                            *)
LEMMA LivePayoutType ==
    ASSUME NEW policy \in PolicyRow, NEW costs \in PoolCosts, NEW confidence \in Nat
    PROVE  ComputePayoutLive(policy, costs, confidence) \in PayoutResult
<1> DEFINE total   == TotalCost(costs)
           covered == AtMost(total, SinglePoolLimit(policy))
<1>1. /\ total \in Nat /\ covered \in Nat
      /\ policy.deductible \in Nat
      /\ Net(covered, policy.deductible) \in Nat
  BY AmountTypes DEF PolicyRow, Net, Larger, AtMost
<1>2. GateReasons(Net(covered, policy.deductible), confidence) \subseteq PayoutReasons
  BY DEF GateReasons, PayoutReasons
<1>3. Gated(policy, total, covered, {}, confidence) \in PayoutResult
  <2> HIDE DEF total, covered
  <2> QED  BY <1>1, <1>2 DEF Gated, PayoutResult, Routes
<1>4. Malformed(total, covered, {}) \in PayoutResult
  <2> HIDE DEF total, covered
  <2> QED  BY <1>1 DEF Malformed, PayoutResult, Routes, PayoutReasons
<1>5. Denied(0, "policy_lapsed") \in PayoutResult /\ Denied(total, "not_covered") \in PayoutResult
  <2> HIDE DEF total
  <2> QED  BY <1>1 DEF Denied, PayoutResult, Routes, PayoutReasons
<1> QED
  BY <1>3, <1>4, <1>5 DEF ComputePayoutLive

(* The guards of compute_payout, read one outcome at a time.               *)
LEMMA PayoutCases ==
    ASSUME NEW policy \in PolicyRow, NEW costs \in PoolCosts, NEW confidence \in Nat,
           NEW partial,
           partial = IF UncoveredPresent(policy, costs)
                       THEN {"partial_coverage_some_instances_excluded"} ELSE {}
    PROVE  LET total   == TotalCost(costs)
               covered == CoveredCost(policy, costs)
               result  == ComputePayout(policy, costs, confidence)
           IN  /\ policy.status = "lapsed" => result = Denied(0, "policy_lapsed")
               /\ policy.status # "lapsed" /\ covered <= 0 =>
                     result = Denied(total, "not_covered")
               /\ (/\ policy.status # "lapsed" /\ covered > 0
                   /\ policy.deductible >= ApplicableLimit(policy, costs)) =>
                     result = Malformed(total, covered, partial)
               /\ (/\ policy.status # "lapsed" /\ covered > 0
                   /\ ~(policy.deductible >= ApplicableLimit(policy, costs))) =>
                     result = Gated(policy, total, covered, partial, confidence)
<1> DEFINE covered == CoveredCost(policy, costs)
<1>1. covered <= 0 <=> ~(covered > 0)
  <2>1. covered \in Nat
    BY AmountTypes
  <2> HIDE DEF covered
  <2> QED  BY <2>1
<1> QED
  BY <1>1 DEF ComputePayout

(* A claim is priced exactly when its policy is in force, some covered     *)
(* damage remains and the limits drawn on exceed the deductible; its       *)
(* payout is then the covered cost less the deductible, at least zero.     *)
LEMMA PricedExactly ==
    ASSUME NEW policy \in PolicyRow, NEW costs \in PoolCosts, NEW confidence \in Nat
    PROVE  LET result == ComputePayout(policy, costs, confidence)
           IN  /\ result.payout # NoAmount <=>
                     /\ policy.status # "lapsed"
                     /\ CoveredCost(policy, costs) > 0
                     /\ policy.deductible < ApplicableLimit(policy, costs)
               /\ result.payout # NoAmount =>
                     /\ result.payout = Net(CoveredCost(policy, costs), policy.deductible)
                     /\ result.covered = CoveredCost(policy, costs)
                     /\ result.route = IF SmallEnough(result.payout) /\ Confident(confidence)
                                         THEN "auto_approve" ELSE "escalate"
                     /\ "payout_above_auto_approve_threshold" \in result.reasons
                           => ~SmallEnough(result.payout)
               /\ result.payout = NoAmount =>
                     /\ result.route = "auto_deny" <=>
                           policy.status = "lapsed" \/ CoveredCost(policy, costs) <= 0
                     /\ result.covered = IF result.route = "auto_deny"
                                           THEN 0 ELSE CoveredCost(policy, costs)
                     /\ result.route # "auto_approve"
<1> DEFINE total   == TotalCost(costs)
           covered == CoveredCost(policy, costs)
           limit   == ApplicableLimit(policy, costs)
           partial == IF UncoveredPresent(policy, costs)
                        THEN {"partial_coverage_some_instances_excluded"} ELSE {}
           result  == ComputePayout(policy, costs, confidence)
<1>1. /\ covered \in Nat /\ limit \in Nat /\ policy.deductible \in Nat
      /\ Net(covered, policy.deductible) \in Nat
  BY AmountTypes DEF PolicyRow, Net, Larger
<1>2. NoAmount \notin Nat
  BY RulesAssumption
<1>3. /\ policy.status = "lapsed" => result = Denied(0, "policy_lapsed")
      /\ policy.status # "lapsed" /\ covered <= 0 => result = Denied(total, "not_covered")
      /\ policy.status # "lapsed" /\ covered > 0 /\ policy.deductible >= limit =>
            result = Malformed(total, covered, partial)
      /\ policy.status # "lapsed" /\ covered > 0 /\ ~(policy.deductible >= limit) =>
            result = Gated(policy, total, covered, partial, confidence)
  BY PayoutCases
<1>4. "payout_above_auto_approve_threshold" \notin partial
  OBVIOUS
<1> HIDE DEF total, covered, limit, partial, result
<1>5. CASE policy.status = "lapsed" \/ covered <= 0
  BY <1>1, <1>2, <1>3, <1>5 DEF Denied, total, covered, limit, result
<1>6. CASE policy.status # "lapsed" /\ covered > 0 /\ policy.deductible >= limit
  BY <1>1, <1>2, <1>3, <1>6 DEF Malformed, total, covered, limit, result
<1>7. CASE policy.status # "lapsed" /\ covered > 0 /\ ~(policy.deductible >= limit)
  <2>1. result = Gated(policy, total, covered, partial, confidence)
    BY <1>3, <1>7
  <2>2. /\ result.payout = Net(covered, policy.deductible)
        /\ result.covered = covered
        /\ result.route = IF SmallEnough(result.payout) /\ Confident(confidence)
                            THEN "auto_approve" ELSE "escalate"
        /\ result.reasons = partial \cup GateReasons(result.payout, confidence)
    BY <2>1 DEF Gated
  <2>3. "payout_above_auto_approve_threshold" \in result.reasons => ~SmallEnough(result.payout)
    BY <2>2, <1>4 DEF GateReasons
  <2> QED
    BY <1>1, <1>2, <1>7, <2>2, <2>3 DEF covered, limit, result
<1> QED
  BY <1>1, <1>5, <1>6, <1>7

(* The same reading of compute_payout_live: one pool, the larger limit.    *)
LEMMA LivePricedExactly ==
    ASSUME NEW policy \in PolicyRow, NEW costs \in PoolCosts, NEW confidence \in Nat
    PROVE  LET result == ComputePayoutLive(policy, costs, confidence)
           IN  result.payout # NoAmount =>
                  /\ policy.status # "lapsed"
                  /\ AnyActive(policy)
                  /\ TotalCost(costs) > 0
                  /\ policy.deductible < SinglePoolLimit(policy)
                  /\ result.payout = Net(AtMost(TotalCost(costs), SinglePoolLimit(policy)),
                                         policy.deductible)
<1> DEFINE total   == TotalCost(costs)
           limit   == SinglePoolLimit(policy)
           covered == AtMost(total, limit)
           payable == AnyActive(policy) /\ total > 0
           result  == ComputePayoutLive(policy, costs, confidence)
<1>1. total \in Nat /\ limit \in Nat /\ policy.deductible \in Nat
  BY AmountTypes DEF PolicyRow
<1>2. /\ policy.status = "lapsed" => result = Denied(0, "policy_lapsed")
      /\ policy.status # "lapsed" /\ ~payable => result = Denied(total, "not_covered")
      /\ policy.status # "lapsed" /\ payable /\ policy.deductible >= limit =>
            result = Malformed(total, covered, {})
      /\ policy.status # "lapsed" /\ payable /\ ~(policy.deductible >= limit) =>
            result = Gated(policy, total, covered, {}, confidence)
  BY DEF ComputePayoutLive
<1> SUFFICES ASSUME result.payout # NoAmount
             PROVE  /\ policy.status # "lapsed"
                    /\ payable
                    /\ policy.deductible < limit
                    /\ result.payout = Net(covered, policy.deductible)
  OBVIOUS
<1> HIDE DEF total, covered, limit, payable, result
<1>3. policy.status # "lapsed" /\ payable /\ ~(policy.deductible >= limit)
  <2>1. \A r : Denied(total, r).payout = NoAmount /\ Denied(0, r).payout = NoAmount
    BY DEF Denied
  <2>2. Malformed(total, covered, {}).payout = NoAmount
    BY DEF Malformed
  <2> QED  BY <1>2, <2>1, <2>2
<1> QED
  BY <1>1, <1>2, <1>3 DEF Gated

(* A surer pass over the same claim moves no money, and moves the route    *)
(* from a human if anywhere.                                               *)
LEMMA SurerPass ==
    ASSUME NEW policy \in PolicyRow, NEW costs \in PoolCosts,
           NEW sure \in Nat, Confident(sure), NEW confidence \in Nat
    PROVE  LET truth == ComputePayout(policy, costs, sure)
               pass  == ComputePayout(policy, costs, confidence)
           IN  /\ pass.payout = truth.payout
               /\ pass.route = truth.route \/ pass.route = "escalate"
<1> DEFINE truth == ComputePayout(policy, costs, sure)
           pass  == ComputePayout(policy, costs, confidence)
<1>1. truth.route \in Routes /\ pass.route \in Routes
  BY PayoutType DEF PayoutResult
<1>2. truth.payout # NoAmount <=> pass.payout # NoAmount
  BY PricedExactly
<1>3. CASE truth.payout # NoAmount
  <2>1. /\ truth.payout = pass.payout
        /\ truth.route = IF SmallEnough(truth.payout) THEN "auto_approve" ELSE "escalate"
        /\ pass.route = IF SmallEnough(pass.payout) /\ Confident(confidence)
                          THEN "auto_approve" ELSE "escalate"
    BY <1>2, <1>3, PricedExactly
  <2> QED
    BY <2>1
<1>4. CASE truth.payout = NoAmount
  <2>1. /\ pass.payout = NoAmount
        /\ truth.route = "auto_deny" <=> pass.route = "auto_deny"
        /\ truth.route # "auto_approve" /\ pass.route # "auto_approve"
    BY <1>2, <1>4, PricedExactly
  <2> QED
    BY <1>1, <1>4, <2>1 DEF Routes
<1> QED
  BY <1>3, <1>4

-----------------------------------------------------------------------------
(* A nonempty set of natural numbers has a least element.                  *)
LEMMA LeastOfNats ==
  ASSUME NEW T, T \subseteq Nat, T # {}
  PROVE  \E v \in T : \A w \in T : v <= w
  <1> DEFINE R == OpToRel(<, Nat)
  <1>1. \E v \in T : \A w \in T : ~(<<w, v>> \in R)
    <2>1. IsWellFoundedOn(R, Nat)
      BY NatLessThanWellFounded
    <2> HIDE DEF R
    <2> QED BY <2>1, WFMin
  <1>2. PICK v \in T : \A w \in T : ~(<<w, v>> \in R)
    BY <1>1
  <1>3. ASSUME NEW w \in T PROVE v <= w
    <2>1. v \in Nat /\ w \in Nat
      OBVIOUS
    <2>2. <<w, v>> \notin R
      BY <1>2
    <2>3. ~(w < v)
      BY <2>1, <2>2 DEF OpToRel
    <2> QED BY <2>1, <2>3
  <1> QED BY <1>3

=============================================================================
