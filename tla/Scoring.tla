------------------------------- MODULE Scoring -------------------------------
(***************************************************************************)
(* The arithmetic of eval/: the rows the runners make of a golden record   *)
(* and an architecture's answer, and the metrics compare.py computes of    *)
(* the rows.  There is no state but ClaimPricing's: what a pass of         *)
(* ClaimPricing returned is what Arch 2 or 3 answered for the claim.       *)
(* A rate is its numerator, the set of rows it counts.                     *)
(***************************************************************************)
EXTENDS ClaimPricing

-----------------------------------------------------------------------------
(* Golden records of the claim at hand and of a claim with the same damage *)
(* whose story was made up.                                                *)

TruthConfidence == 100

Truth == ComputePayout(policy, costs, TruthConfidence)

BaseRecord == [claim_id |-> "base", mismatch_type |-> FALSE, route |-> Truth.route, payout |-> Truth.payout]

MismatchRecord == [claim_id |-> "mismatch", mismatch_type |-> TRUE, route |-> "escalate", payout |-> NoAmount]

-----------------------------------------------------------------------------
(* Answers.                                                                *)

Answer(route, payout) == [route |-> route, payout |-> payout]

(* Arch 2 turns a photo away or sees no damage in it, Arch 3 escalates.    *)
Unpaid == {Answer("retake", NoAmount), Answer("escalate", NoAmount)}

(* What an architecture with the rules engine can answer for the claim     *)
(* that was last priced.                                                   *)
EngineAnswers ==
    Unpaid \cup IF evalResult = Unpriced THEN {} ELSE {Answer(evalResult.route, evalResult.payout)}

Unsigned(amount) == IF amount < 0 THEN -amount ELSE amount

(* The model's payout: a number is taken as it is, a text loses every      *)
(* character but its digits and the point, one without digits is None.     *)
CoercePayout(stated) ==
    CASE stated.form = "number" -> stated.amount
      [] stated.form = "text" -> Unsigned(stated.amount)
      [] stated.form \in {"null", "words"} -> NoAmount

(* vlm_call._result: the monolith never escalates, and nothing ties the    *)
(* payout to the decision.                                                 *)
MonolithAnswer(covered, stated) ==
    Answer(IF covered THEN "auto_approve" ELSE "auto_deny", CoercePayout(stated))

-----------------------------------------------------------------------------
(* run_arch1.py and run_interleaved.py: a row.                             *)

PayoutMatches(pred, truth) == pred = truth

(* Mutant: the ceiling is that of the smaller policy limit.                *)
SmallestCeiling(payout, row) ==
    /\ payout # NoAmount /\ payout > 0
    /\ \/ row.status = "lapsed"
       \/ ~AnyActive(row)
       \/ \E p \in Pools : row.active[p] /\ payout > row.limit[p] - row.deductible

(* A payout above the largest active limit less the deductible.            *)
IsHallucinated(payout, row) ==
    /\ payout # NoAmount /\ payout > 0
    /\ \/ row.status = "lapsed"
       \/ ~AnyActive(row)
       \/ payout > SinglePoolLimit(row) - row.deductible

ScoredRow(record, answer) ==
    [claim_id |-> record.claim_id, mismatch_type |-> record.mismatch_type,
     true_route |-> record.route, pred_route |-> answer.route,
     route_ok |-> answer.route = record.route,
     true_payout |-> record.payout, pred_payout |-> answer.payout,
     payout_ok |-> PayoutMatches(answer.payout, record.payout)]

Arch1Row(record, answer) ==
    [row |-> ScoredRow(record, answer),
     hallucinated_payout |-> IsHallucinated(answer.payout, policy)]

-----------------------------------------------------------------------------
(* compare.common_metrics over a set of rows.                              *)

Base(rows) == {r \in rows : ~r.mismatch_type}

Payable(rows) == {r \in rows : r.true_payout # NoAmount}

FalseApprove(rows) ==
    {r \in rows : r.pred_route = "auto_approve" /\ r.true_route # "auto_approve"}

(* Mutant: every refusal of a claim that is not to be denied counts, and   *)
(* so does a hand-over.                                                    *)
DenyUnlessApproved(rows) ==
    {r \in rows : r.pred_route # "auto_approve" /\ r.true_route = "auto_approve"}

FalseDeny(rows) ==
    {r \in rows : r.pred_route = "auto_deny" /\ r.true_route = "auto_approve"}

PredEscalate(rows) == {r \in rows : r.pred_route = "escalate"}

TrueEscalate(rows) == {r \in rows : r.true_route = "escalate"}

CommonMetrics(rows) ==
    [route_accuracy |-> {r \in rows : r.route_ok},
     base_route_accuracy |-> {r \in Base(rows) : r.route_ok},
     payout_exact_match |-> {r \in Payable(rows) : r.payout_ok},
     mismatch_caught |-> PredEscalate(rows \ Base(rows)),
     escalation_recall |-> PredEscalate(rows) \cap TrueEscalate(rows),
     false_approve |-> FalseApprove(rows),
     false_deny |-> FalseDeny(rows)]

-----------------------------------------------------------------------------
(* What the comparison is for: an architecture whose money comes from the  *)
(* rules engine looks bad in a column only by caution or by a story it did *)
(* not see through.  It never approves a base claim falsely and never      *)
(* denies one falsely, misses a true escalation of the base only by asking *)
(* for a new photo, misses a base route only by handing the claim over,    *)
(* and misses an exact payout only by stating none (compare.py:21-43).     *)
EngineErrsOnlyByCaution ==
    \A answer, other \in EngineAnswers :
        LET rows == {ScoredRow(BaseRecord, answer), ScoredRow(MismatchRecord, other)}
            m    == CommonMetrics(rows)
        IN  /\ Base(m.false_approve \cup m.false_deny) = {}
            /\ \A r \in Base(TrueEscalate(rows)) \ m.escalation_recall : r.pred_route = "retake"
            /\ \A r \in Base(rows) \ m.base_route_accuracy : r.pred_route \in {"escalate", "retake"}
            /\ \A r \in Payable(rows) \ m.payout_exact_match : r.pred_payout = NoAmount

(* A payout "the contract cannot produce" (run_arch1.py:44) is not what    *)
(* the contract does produce.  A monolith that states the true amount of a *)
(* claim, as a number or as a text that reads like one, has its payout     *)
(* counted as right and is not called hallucinating, as long as the damage *)
(* draws on one pool, which is how every claim of the golden set is made   *)
(* (run_arch1.py:37-66, vlm_call.py:127-139).                              *)
StatesTruth(stated) ==
    IF Truth.payout = NoAmount THEN stated.form \in {"null", "words"}
    ELSE stated.form \in {"number", "text"} /\ stated.amount = Truth.payout

Stated ==
    [form : {"number", "text", "null", "words"},
     amount : {0} \cup IF Truth.payout = NoAmount THEN {} ELSE {Truth.payout}]

RightAmountIsNoHallucination ==
    \A stated \in Stated, covered \in BOOLEAN :
        LET scored == Arch1Row(BaseRecord, MonolithAnswer(covered, stated))
        IN  StatesTruth(stated) =>
                /\ scored.row.payout_ok
                /\ \/ ~scored.hallucinated_payout
                   \/ \A p \in Pools : costs[p] > 0

=============================================================================
