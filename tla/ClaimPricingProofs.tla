-------------------------- MODULE ClaimPricingProofs --------------------------
(***************************************************************************)
(* What ClaimPricing checks on small instances, for every set of policies, *)
(* damage totals and confidences and every pair of gates, and what Scoring *)
(* makes of the engine's answers.                                          *)
(***************************************************************************)
EXTENDS Scoring, RulesEngineProofs

(* A result on record is what its function computed from the claim's       *)
(* policy and rows with some confidence: this is inductive because neither *)
(* the policy nor the rows ever change.                                    *)
IInv ==
    /\ policy \in Policies
    /\ costs \in ClaimCosts
    /\ \/ evalResult = Unpriced
       \/ \E confidence \in Confidences : evalResult = ComputePayout(policy, costs, confidence)
    /\ \/ liveResult = Unpriced
       \/ \E confidence \in Confidences : liveResult = ComputePayoutLive(policy, costs, confidence)

LEMMA InitIInv == Init => IInv
  BY DEF Init, IInv

LEMMA NextIInv == IInv /\ [Next]_vars => IInv'
<1> SUFFICES ASSUME IInv, [Next]_vars
             PROVE  IInv'
  OBVIOUS
<1>1. CASE \E confidence \in Confidences : PriceClaim(confidence)
  BY <1>1 DEF IInv, PriceClaim
<1>2. CASE \E confidence \in Confidences : PriceUpload(confidence)
  BY <1>2 DEF IInv, PriceUpload
<1>3. CASE UNCHANGED vars
  BY <1>3 DEF IInv, vars
<1> QED
  BY <1>1, <1>2, <1>3 DEF Next

(* The rows on record are always rows the engine can price.                *)
LEMMA RowTypes ==
    ASSUME IInv
    PROVE  /\ policy \in PolicyRow /\ costs \in PoolCosts /\ Confidences \subseteq Nat
           /\ Unpriced.payout = NoAmount
  BY PricingAssumption DEF IInv, Unpriced

(* The variables keep their types (rules_engine.py's PayoutResult).        *)
THEOREM TypeCorrect == Spec => []TypeOK
<1>1. IInv => TypeOK
  <2> SUFFICES ASSUME IInv PROVE TypeOK
    OBVIOUS
  <2>1. policy \in PolicyRow /\ costs \in PoolCosts /\ Confidences \subseteq Nat
    BY RowTypes
  <2>2. evalResult \in PayoutResult \cup {Unpriced}
    BY <2>1, PayoutType DEF IInv
  <2>3. liveResult \in PayoutResult \cup {Unpriced}
    BY <2>1, LivePayoutType DEF IInv
  <2> QED
    BY <2>1, <2>2, <2>3 DEF TypeOK
<1> QED
  BY <1>1, InitIInv, NextIInv, PTL DEF Spec

(* No result on record pays on a lapsed policy, pays more than the damage  *)
(* or more than the active limits less the deductible.                     *)
THEOREM ContractBoundsPayout == Spec => []PaidWithinContract
<1>1. IInv => PaidWithinContract
  <2> SUFFICES ASSUME IInv, NEW result \in {evalResult, liveResult}, Priced(result)
               PROVE  /\ policy.status = "active"
                      /\ AnyActive(policy)
                      /\ result.payout <= TotalCost(costs)
                      /\ result.payout > 0 => result.payout + policy.deductible <= ActiveLimits
    BY DEF PaidWithinContract
  <2> DEFINE total == TotalCost(costs)
             a     == ActiveLimit(policy, "collision")
             b     == ActiveLimit(policy, "comprehensive")
  <2>1. policy \in PolicyRow /\ costs \in PoolCosts /\ Confidences \subseteq Nat
    BY RowTypes
  <2>2. /\ "collision" \in Pools /\ "comprehensive" \in Pools
        /\ total \in Nat /\ a \in Nat /\ b \in Nat /\ policy.deductible \in Nat
        /\ costs["collision"] \in Nat /\ costs["comprehensive"] \in Nat
        /\ policy.status \in {"active", "lapsed"}
    BY <2>1, AmountTypes DEF Pools, PolicyRow, PoolCosts, ActiveLimit
  <2>3. result # Unpriced
    BY RowTypes DEF Priced
  <2>4. CASE \E confidence \in Confidences : result = ComputePayout(policy, costs, confidence)
    <3> DEFINE covered == CoveredCost(policy, costs)
    <3>1. /\ policy.status # "lapsed" /\ covered > 0
          /\ result.payout = Net(covered, policy.deductible)
      BY <2>1, <2>4, PricedExactly DEF Priced
    <3>2. /\ covered \in Nat
          /\ covered <= total
          /\ covered <= a + b
      BY <2>1, <2>2, AmountTypes DEF CoveredCost, TotalCost
    <3>3. AnyActive(policy)
      BY <2>2, <3>1 DEF CoveredCost, CappedCost, AnyActive
    <3> HIDE DEF covered, total, a, b
    <3>4. /\ result.payout <= total
          /\ result.payout > 0 => result.payout + policy.deductible <= a + b
      BY <2>2, <3>1, <3>2 DEF Net, Larger
    <3> QED
      BY <2>2, <3>1, <3>3, <3>4 DEF total, a, b, ActiveLimits
  <2>5. CASE \E confidence \in Confidences : result = ComputePayoutLive(policy, costs, confidence)
    <3> DEFINE covered == AtMost(total, SinglePoolLimit(policy))
    <3>1. /\ policy.status # "lapsed" /\ AnyActive(policy)
          /\ result.payout = Net(covered, policy.deductible)
      BY <2>1, <2>5, LivePricedExactly DEF Priced
    <3>2. /\ covered \in Nat
          /\ covered <= total
          /\ covered <= a + b
      BY <2>2 DEF AtMost, SinglePoolLimit, Larger
    <3> HIDE DEF covered, total, a, b
    <3>3. /\ result.payout <= total
          /\ result.payout > 0 => result.payout + policy.deductible <= a + b
      BY <2>2, <3>1, <3>2 DEF Net, Larger
    <3> QED
      BY <2>2, <3>1, <3>3 DEF total, a, b, ActiveLimits
  <2> QED
    BY <2>3, <2>4, <2>5 DEF IInv
<1> QED
  BY <1>1, InitIInv, NextIInv, PTL DEF Spec

(* Passes that differ only in the confidence agree on payout, covered cost *)
(* and denial.                                                             *)
LEMMA ConfidenceMovesNoMoney ==
    ASSUME NEW p \in PolicyRow, NEW c \in PoolCosts, NEW v \in Nat, NEW w \in Nat
    PROVE  LET first  == ComputePayout(p, c, v)
               second == ComputePayout(p, c, w)
           IN  /\ first.payout = second.payout
               /\ first.covered = second.covered
               /\ first.route = "auto_deny" <=> second.route = "auto_deny"
<1> DEFINE first  == ComputePayout(p, c, v)
           second == ComputePayout(p, c, w)
<1>1. first.payout = NoAmount <=> second.payout = NoAmount
  BY PricedExactly
<1>2. CASE first.payout # NoAmount /\ second.payout # NoAmount
  BY <1>2, PricedExactly
<1>3. CASE first.payout = NoAmount /\ second.payout = NoAmount
  BY <1>3, PricedExactly
<1> QED
  BY <1>1, <1>2, <1>3

(* A later pass over the same claim never moves its money.                 *)
THEOREM PassesAgreeOnMoney == Spec => MoneyIsNotModelDependent
<1> DEFINE SameMoney ==
        evalResult # Unpriced =>
            /\ evalResult'.payout = evalResult.payout
            /\ evalResult'.covered = evalResult.covered
            /\ (evalResult.route = "auto_deny") <=> (evalResult'.route = "auto_deny")
<1>1. IInv /\ [Next]_vars => [SameMoney]_vars
  <2> SUFFICES ASSUME IInv, [Next]_vars, evalResult # Unpriced
               PROVE  /\ evalResult'.payout = evalResult.payout
                      /\ evalResult'.covered = evalResult.covered
                      /\ (evalResult.route = "auto_deny") <=> (evalResult'.route = "auto_deny")
    OBVIOUS
  <2>1. PICK v \in Confidences : evalResult = ComputePayout(policy, costs, v)
    BY DEF IInv
  <2>2. CASE \E w \in Confidences : PriceClaim(w)
    <3>1. PICK w \in Confidences : evalResult' = ComputePayout(policy, costs, w)
      BY <2>2 DEF PriceClaim
    <3> QED
      BY <2>1, <3>1, RowTypes, ConfidenceMovesNoMoney
  <2>3. CASE evalResult' = evalResult
    BY <2>3
  <2> QED
    BY <2>2, <2>3 DEF Next, PriceUpload, vars
<1> QED
  BY <1>1, InitIInv, NextIInv, PTL DEF Spec, MoneyIsNotModelDependent

(* Without damage in an active pool the claim is denied, not called        *)
(* malformed.                                                              *)
LEMMA NothingCovered ==
    ASSUME IInv, evalResult # Unpriced, \A p \in Pools : costs[p] > 0 => ~policy.active[p]
    PROVE  evalResult.route = "auto_deny"
<1>1. policy \in PolicyRow /\ costs \in PoolCosts
  BY RowTypes
<1>2. PICK v \in Nat : evalResult = ComputePayout(policy, costs, v)
  BY RowTypes DEF IInv
<1>3. \A p \in Pools : CappedCost(policy, costs, p) = 0
  <2>1. \A p \in Pools : costs[p] \in Nat /\ policy.limit[p] \in Nat
    BY <1>1 DEF PolicyRow, PoolCosts
  <2> QED
    BY <2>1 DEF CappedCost, AtMost
<1>4. CoveredCost(policy, costs) = 0
  BY <1>3 DEF CoveredCost, Pools
<1> QED
  BY <1>1, <1>2, <1>4, PricedExactly

(* Damage in pools that are not active changes neither payout nor route,   *)
(* and a claim with no other damage is denied.                             *)
THEOREM UncoveredDamageMovesNothing == Spec => []UncoveredDamageIsInert
<1>1. IInv => UncoveredDamageIsInert
  <2> SUFFICES ASSUME IInv, evalResult # Unpriced, NEW other \in ClaimCosts,
                      \A p \in Pools : policy.active[p] => other[p] = costs[p],
                      NEW confidence \in Confidences
               PROVE  /\ ComputePayout(policy, costs, confidence).payout
                           = ComputePayout(policy, other, confidence).payout
                      /\ ComputePayout(policy, costs, confidence).route
                           = ComputePayout(policy, other, confidence).route
    BY NothingCovered DEF UncoveredDamageIsInert
  <2> DEFINE here  == ComputePayout(policy, costs, confidence)
             there == ComputePayout(policy, other, confidence)
  <2>1. /\ policy \in PolicyRow /\ costs \in PoolCosts /\ other \in PoolCosts
        /\ confidence \in Nat
    BY RowTypes, PricingAssumption
  <2>2. \A p \in Pools : /\ CappedCost(policy, costs, p) = CappedCost(policy, other, p)
                         /\ DrawnLimit(policy, costs, p) = DrawnLimit(policy, other, p)
    BY DEF CappedCost, DrawnLimit
  <2>3. /\ CoveredCost(policy, costs) = CoveredCost(policy, other)
        /\ ApplicableLimit(policy, costs) = ApplicableLimit(policy, other)
    BY <2>2 DEF CoveredCost, ApplicableLimit, Pools
  <2>4. here.payout # NoAmount <=> there.payout # NoAmount
    BY <2>1, <2>3, PricedExactly
  <2>5. CASE here.payout # NoAmount
    BY <2>1, <2>3, <2>4, <2>5, PricedExactly
  <2>6. CASE here.payout = NoAmount
    <3>1. here.route \in Routes /\ there.route \in Routes
      BY <2>1, PayoutType DEF PayoutResult
    <3>2. here.route = "auto_deny" <=> there.route = "auto_deny"
      BY <2>1, <2>3, <2>4, <2>6, PricedExactly
    <3>3. here.route # "auto_approve" /\ there.route # "auto_approve"
      BY <2>1, <2>4, <2>6, PricedExactly
    <3> QED
      BY <2>4, <2>6, <3>1, <3>2, <3>3 DEF Routes
  <2> QED
    BY <2>5, <2>6
<1> QED
  BY <1>1, InitIInv, NextIInv, PTL DEF Spec

(* A claim heavier than a priced one on the same policy is priced too and  *)
(* never paid less, and one too large to approve stays too large.          *)
THEOREM PayoutGrowsWithDamage == Spec => []MoreDamageNeverPaysLess
<1>1. IInv => MoreDamageNeverPaysLess
  <2> SUFFICES ASSUME IInv, Priced(evalResult), NEW heavier \in ClaimCosts,
                      \A p \in Pools : heavier[p] >= costs[p],
                      NEW confidence \in Confidences
               PROVE  LET worse == ComputePayout(policy, heavier, confidence)
                      IN  /\ Priced(worse)
                          /\ worse.payout >= evalResult.payout
                          /\ "payout_above_auto_approve_threshold" \in evalResult.reasons
                                => worse.route # "auto_approve"
    BY DEF MoreDamageNeverPaysLess
  <2> DEFINE worse    == ComputePayout(policy, heavier, confidence)
             lighter  == CoveredCost(policy, costs)
             covered  == CoveredCost(policy, heavier)
  <2>1. /\ policy \in PolicyRow /\ costs \in PoolCosts /\ heavier \in PoolCosts
        /\ confidence \in Nat
    BY RowTypes, PricingAssumption
  <2>2. PICK v \in Nat : evalResult = ComputePayout(policy, costs, v)
    BY RowTypes DEF IInv, Priced
  <2>3. lighter \in Nat /\ covered \in Nat /\ policy.deductible \in Nat
    BY <2>1, AmountTypes DEF PolicyRow
  <2>4. covered >= lighter
    <3>1. \A p \in Pools : /\ costs[p] \in Nat /\ heavier[p] \in Nat
                           /\ policy.limit[p] \in Nat
      BY <2>1 DEF PoolCosts, PolicyRow
    <3>2. \A p \in Pools : CappedCost(policy, heavier, p) >= CappedCost(policy, costs, p)
      BY <3>1 DEF CappedCost, AtMost
    <3>3. \A p \in Pools : /\ CappedCost(policy, heavier, p) \in Nat
                           /\ CappedCost(policy, costs, p) \in Nat
      BY <2>1, AmountTypes
    <3> QED
      BY <3>2, <3>3 DEF CoveredCost, Pools
  <2>5. /\ evalResult.payout = Net(lighter, policy.deductible)
        /\ policy.status # "lapsed" /\ lighter > 0
        /\ policy.deductible < ApplicableLimit(policy, costs)
    BY <2>1, <2>2, PricedExactly DEF Priced
  <2>6. Priced(worse) /\ worse.payout = Net(covered, policy.deductible)
    <3>1. ApplicableLimit(policy, heavier) >= ApplicableLimit(policy, costs)
      <4>1. \A p \in Pools : /\ costs[p] \in Nat /\ heavier[p] \in Nat
                             /\ policy.limit[p] \in Nat
        BY <2>1 DEF PoolCosts, PolicyRow
      <4>2. \A p \in Pools : /\ DrawnLimit(policy, heavier, p) \in Nat
                             /\ DrawnLimit(policy, costs, p) \in Nat
        BY <2>1, AmountTypes
      <4>3. \A p \in Pools : DrawnLimit(policy, heavier, p) >= DrawnLimit(policy, costs, p)
        BY <4>1 DEF DrawnLimit
      <4> QED
        BY <4>2, <4>3 DEF ApplicableLimit, Pools
    <3>2. /\ ApplicableLimit(policy, heavier) \in Nat
          /\ ApplicableLimit(policy, costs) \in Nat
      BY <2>1, AmountTypes
    <3>3. covered > 0 /\ policy.deductible < ApplicableLimit(policy, heavier)
      <4> HIDE DEF covered, lighter
      <4> QED
        BY <2>3, <2>4, <2>5, <3>1, <3>2
    <3> QED
      BY <2>1, <2>5, <3>3, PricedExactly DEF Priced
  <2>7. "payout_above_auto_approve_threshold" \in evalResult.reasons
          => ~SmallEnough(evalResult.payout)
    BY <2>1, <2>2, PricedExactly DEF Priced
  <2>8. worse.route = "auto_approve" => Priced(worse) /\ SmallEnough(worse.payout)
    BY <2>1, PricedExactly DEF Priced
  <2>9. /\ Net(covered, policy.deductible) >= Net(lighter, policy.deductible)
        /\ SmallEnough(Net(covered, policy.deductible))
             => SmallEnough(Net(lighter, policy.deductible))
    <3> HIDE DEF covered, lighter
    <3> QED
      BY <2>3, <2>4, RulesAssumption DEF Net, Larger, SmallEnough
  <2> HIDE DEF worse, covered, lighter
  <2> QED
    BY <2>5, <2>6, <2>7, <2>8, <2>9 DEF worse
<1> QED
  BY <1>1, InitIInv, NextIInv, PTL DEF Spec

(* On a policy with one limit for both pools the live branch pays more     *)
(* only for an unbought peril, and less only for damage of both perils.    *)
THEOREM LiveDivergence == Spec => []LiveDivergesOnlyAsAccepted
<1>1. IInv => LiveDivergesOnlyAsAccepted
  <2> SUFFICES ASSUME IInv, Priced(evalResult), Priced(liveResult),
                      policy.limit["collision"] = policy.limit["comprehensive"]
               PROVE  /\ liveResult.payout > evalResult.payout => UncoveredPresent(policy, costs)
                      /\ liveResult.payout < evalResult.payout => \A p \in Pools : costs[p] > 0
    BY DEF LiveDivergesOnlyAsAccepted
  <2> DEFINE two   == CoveredCost(policy, costs)
             one   == AtMost(TotalCost(costs), SinglePoolLimit(policy))
             limit == policy.limit["collision"]
             a     == costs["collision"]
             b     == costs["comprehensive"]
  <2>1. policy \in PolicyRow /\ costs \in PoolCosts
    BY RowTypes
  <2>2. /\ evalResult.payout = Net(two, policy.deductible)
        /\ liveResult.payout = Net(one, policy.deductible)
        /\ AnyActive(policy)
    BY <2>1, RowTypes, PricedExactly, LivePricedExactly DEF IInv, Priced
  <2>3. /\ a \in Nat /\ b \in Nat /\ limit \in Nat /\ policy.deductible \in Nat
        /\ two \in Nat /\ one \in Nat
    BY <2>1, AmountTypes DEF PolicyRow, PoolCosts, Pools, AtMost
  <2>4. SinglePoolLimit(policy) = limit
    BY <2>1, <2>2, <2>3 DEF SinglePoolLimit, ActiveLimit, Larger, AnyActive, Pools
  <2>5. one = AtMost(a + b, limit)
    BY <2>4 DEF TotalCost
  <2>6. two = (IF policy.active["collision"] THEN AtMost(a, limit) ELSE 0)
              + (IF policy.active["comprehensive"] THEN AtMost(b, limit) ELSE 0)
    BY DEF CoveredCost, CappedCost
  <2>7. ~UncoveredPresent(policy, costs) => two >= one
    <3>1. SUFFICES ASSUME /\ a > 0 => policy.active["collision"]
                          /\ b > 0 => policy.active["comprehensive"]
                   PROVE  two >= one
      BY DEF UncoveredPresent, Pools
    <3> HIDE DEF a, b, limit, one, two
    <3> QED
      BY <2>3, <2>5, <2>6, <3>1 DEF AtMost
  <2>8. (\E p \in Pools : ~(costs[p] > 0)) => two <= one
    <3>1. SUFFICES ASSUME a = 0 \/ b = 0
                   PROVE  two <= one
      BY <2>3 DEF Pools
    <3> HIDE DEF a, b, limit, one, two
    <3> QED
      BY <2>3, <2>5, <2>6, <3>1 DEF AtMost
  <2> HIDE DEF one, two
  <2> QED
    BY <2>2, <2>3, <2>7, <2>8 DEF Net, Larger
<1> QED
  BY <1>1, InitIInv, NextIInv, PTL DEF Spec

-----------------------------------------------------------------------------
(* The scores.                                                             *)

(* Perfect perception passes the gate.                                     *)
Attainable == ConfidenceThreshold <= TruthConfidence

-----------------------------------------------------------------------------
(* Another confidence than the truth's moves no money, and moves the route *)
(* to a human if anywhere.                                                 *)
LEMMA TruthAndPass ==
  ASSUME Attainable, NEW row \in PolicyRow, NEW total \in PoolCosts, NEW confidence \in Nat
  PROVE  LET truth == ComputePayout(row, total, TruthConfidence)
             pass  == ComputePayout(row, total, confidence)
         IN  /\ pass.payout = truth.payout
             /\ pass.route = truth.route \/ pass.route = "escalate"
  <1>1. TruthConfidence \in Nat /\ Confident(TruthConfidence)
    BY DEF TruthConfidence, Confident, Attainable
  <1> QED BY <1>1, SurerPass

(* What an architecture with the engine may answer, against the truth.     *)
LEMMA AnswerAndTruth ==
  ASSUME Attainable, IInv, NEW answer \in EngineAnswers
  PROVE  /\ answer.route = Truth.route \/ answer.route \in {"escalate", "retake"}
         /\ answer.route = "retake" \/ answer.route = "escalate" \/ Truth.route # "escalate"
         /\ answer.payout = Truth.payout \/ answer.payout = NoAmount
  <1>1. CASE answer \in Unpaid
    BY <1>1 DEF Unpaid, Answer
  <1>2. CASE answer \notin Unpaid
    <2>1. evalResult # Unpriced /\ answer = Answer(evalResult.route, evalResult.payout)
      BY <1>2 DEF EngineAnswers
    <2>2. PICK confidence \in Confidences : evalResult = ComputePayout(policy, costs, confidence)
      BY <2>1 DEF IInv
    <2>3. policy \in PolicyRow /\ costs \in PoolCosts /\ confidence \in Nat
      BY RowTypes
    <2>4. /\ evalResult.payout = Truth.payout
          /\ evalResult.route = Truth.route \/ evalResult.route = "escalate"
      BY <2>2, <2>3, TruthAndPass DEF Truth
    <2> QED BY <2>1, <2>4 DEF Answer
  <1> QED BY <1>1, <1>2

(* Whatever the confidences, an architecture that leaves the money to the  *)
(* engine loses points only by caution, or by a story it did not see       *)
(* through (compare.py:21-43); as long as the threshold can be reached.    *)
THEOREM CautionOnly == ASSUME Attainable PROVE Spec => []EngineErrsOnlyByCaution
  <1>1. IInv => EngineErrsOnlyByCaution
    <2> SUFFICES ASSUME IInv, NEW answer \in EngineAnswers, NEW other \in EngineAnswers
                 PROVE  LET rows == {ScoredRow(BaseRecord, answer), ScoredRow(MismatchRecord, other)}
                            m    == CommonMetrics(rows)
                        IN  /\ Base(m.false_approve \cup m.false_deny) = {}
                            /\ \A r \in Base(TrueEscalate(rows)) \ m.escalation_recall :
                                  r.pred_route = "retake"
                            /\ \A r \in Base(rows) \ m.base_route_accuracy :
                                  r.pred_route \in {"escalate", "retake"}
                            /\ \A r \in Payable(rows) \ m.payout_exact_match :
                                  r.pred_payout = NoAmount
      BY DEF EngineErrsOnlyByCaution
    <2> DEFINE base     == ScoredRow(BaseRecord, answer)
               mismatch == ScoredRow(MismatchRecord, other)
               rows     == {base, mismatch}
               m        == CommonMetrics(rows)
    <2>1. /\ base.mismatch_type = FALSE
          /\ base.true_route = Truth.route /\ base.pred_route = answer.route
          /\ base.route_ok = (answer.route = Truth.route)
          /\ base.true_payout = Truth.payout /\ base.pred_payout = answer.payout
          /\ base.payout_ok = (answer.payout = Truth.payout)
      BY DEF ScoredRow, BaseRecord, PayoutMatches
    <2>2. mismatch.mismatch_type = TRUE /\ mismatch.true_payout = NoAmount
      BY DEF ScoredRow, MismatchRecord
    <2>3. /\ m.false_approve = FalseApprove(rows) /\ m.false_deny = FalseDeny(rows)
          /\ m.escalation_recall = PredEscalate(rows) \cap TrueEscalate(rows)
          /\ m.base_route_accuracy = {r \in Base(rows) : r.route_ok}
          /\ m.payout_exact_match = {r \in Payable(rows) : r.payout_ok}
      BY DEF CommonMetrics
    <2>4. \A r \in rows : r = base \/ r = mismatch
      OBVIOUS
    <2> HIDE DEF base, mismatch, rows, m
    <2>5. Base(m.false_approve \cup m.false_deny) = {}
      BY <2>1, <2>2, <2>3, <2>4, AnswerAndTruth DEF Base, FalseApprove, FalseDeny
    <2>6. \A r \in Base(TrueEscalate(rows)) \ m.escalation_recall : r.pred_route = "retake"
      BY <2>1, <2>2, <2>3, <2>4, AnswerAndTruth DEF Base, TrueEscalate, PredEscalate
    <2>7. \A r \in Base(rows) \ m.base_route_accuracy : r.pred_route \in {"escalate", "retake"}
      BY <2>1, <2>2, <2>3, <2>4, AnswerAndTruth DEF Base
    <2>8. \A r \in Payable(rows) \ m.payout_exact_match : r.pred_payout = NoAmount
      BY <2>1, <2>2, <2>3, <2>4, AnswerAndTruth DEF Payable
    <2> QED BY <2>5, <2>6, <2>7, <2>8 DEF base, mismatch, rows, m
  <1> QED BY <1>1, InitIInv, NextIInv, PTL DEF Spec

-----------------------------------------------------------------------------
(* With damage in one pool only, that pool's limit bounds what is covered. *)
LEMMA OnePoolUnderCeiling ==
  ASSUME NEW row \in PolicyRow, NEW total \in PoolCosts, NEW p \in Pools, ~(total[p] > 0)
  PROVE  CoveredCost(row, total) <= SinglePoolLimit(row)
  <1>1. \A q \in Pools : /\ CappedCost(row, total, q) \in Nat
                         /\ CappedCost(row, total, q) <= total[q]
                         /\ CappedCost(row, total, q) <= ActiveLimit(row, q)
                         /\ total[q] \in Nat /\ ActiveLimit(row, q) \in Nat
    BY AmountTypes DEF PolicyRow, PoolCosts, ActiveLimit
  <1>2. CappedCost(row, total, p) = 0
    BY <1>1
  <1>3. "collision" \in Pools /\ "comprehensive" \in Pools
        /\ (p = "collision" \/ p = "comprehensive")
    BY DEF Pools
  <1> QED BY <1>1, <1>2, <1>3 DEF CoveredCost, SinglePoolLimit, Larger

(* A covered amount comes out of an active pool.                           *)
LEMMA CoveredIsActive ==
  ASSUME NEW row \in PolicyRow, NEW total \in PoolCosts, CoveredCost(row, total) > 0
  PROVE  AnyActive(row)
  BY DEF CoveredCost, CappedCost, AnyActive, Pools

(* The monolith is not called hallucinating for the amount the contract    *)
(* produces, unless both pools are damaged (run_arch1.py:44-66).           *)
THEOREM RightAmount == Spec => []RightAmountIsNoHallucination
  <1>1. IInv => RightAmountIsNoHallucination
    <2> SUFFICES ASSUME IInv, NEW stated \in Stated, NEW covered \in BOOLEAN, StatesTruth(stated)
                 PROVE  LET scored == Arch1Row(BaseRecord, MonolithAnswer(covered, stated))
                        IN  /\ scored.row.payout_ok
                            /\ \/ ~scored.hallucinated_payout
                               \/ \A p \in Pools : costs[p] > 0
      BY DEF RightAmountIsNoHallucination
    <2> DEFINE answer == MonolithAnswer(covered, stated)
    <2>1. policy \in PolicyRow /\ costs \in PoolCosts /\ TruthConfidence \in Nat
      BY RowTypes DEF TruthConfidence
    <2>2. /\ CoveredCost(policy, costs) \in Nat /\ policy.deductible \in Nat
          /\ SinglePoolLimit(policy) \in Nat
      BY <2>1, AmountTypes DEF PolicyRow
    <2>3. Truth.payout # NoAmount =>
            /\ policy.status # "lapsed" /\ CoveredCost(policy, costs) > 0
            /\ Truth.payout = Net(CoveredCost(policy, costs), policy.deductible)
      BY <2>1, PricedExactly DEF Truth
    <2>4. CoercePayout(stated) = Truth.payout
      <3>1. CASE Truth.payout = NoAmount
        BY <3>1 DEF StatesTruth, CoercePayout
      <3>2. CASE Truth.payout # NoAmount
        <4>1. Truth.payout \in Nat
          BY <2>2, <2>3, <3>2 DEF Net, Larger
        <4>2. stated.amount = Truth.payout /\ Unsigned(stated.amount) = Truth.payout
          BY <3>2, <4>1 DEF StatesTruth, Unsigned
        <4> QED BY <3>2, <4>2 DEF StatesTruth, CoercePayout
      <3> QED BY <3>1, <3>2
    <2>5. answer.payout = Truth.payout
      BY <2>4 DEF MonolithAnswer, Answer
    <2>6. Arch1Row(BaseRecord, answer).row.payout_ok
      BY <2>5 DEF Arch1Row, ScoredRow, BaseRecord, PayoutMatches
    <2>7. ASSUME IsHallucinated(Truth.payout, policy), NEW p \in Pools, ~(costs[p] > 0)
          PROVE  FALSE
      <3>1. Truth.payout # NoAmount /\ Truth.payout > 0
        BY <2>7 DEF IsHallucinated
      <3>2. Truth.payout > SinglePoolLimit(policy) - policy.deductible
        BY <2>1, <2>3, <2>7, <3>1, CoveredIsActive DEF IsHallucinated
      <3>3. Truth.payout = CoveredCost(policy, costs) - policy.deductible
        BY <2>2, <2>3, <3>1 DEF Net, Larger
      <3>4. CoveredCost(policy, costs) <= SinglePoolLimit(policy)
        BY <2>1, <2>7, OnePoolUnderCeiling
      <3> QED BY <2>2, <3>2, <3>3, <3>4
    <2>8. Arch1Row(BaseRecord, answer).hallucinated_payout = IsHallucinated(Truth.payout, policy)
      BY <2>5 DEF Arch1Row
    <2> QED BY <2>6, <2>7, <2>8
  <1> QED BY <1>1, InitIInv, NextIInv, PTL DEF Spec

=============================================================================
