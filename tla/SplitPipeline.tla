---------------------------- MODULE SplitPipeline ----------------------------
(***************************************************************************)
(* arch2_split/pipeline.py: one claim through gatekeeper, segmenter,       *)
(* damage assessor and rules engine, as run_claim takes an evaluation      *)
(* claim and run_upload a photo that is a new claim.  An action is one     *)
(* stage; every stage may raise, and nobody catches it.                    *)
(***************************************************************************)
EXTENDS RulesEngine, Sequences

CONSTANTS
    Policies,      \* the policy rows a claim can join to
    NoPolicy,      \* None: the claim joins to no policy
    RowCosts,      \* what the stored rows of an evaluation claim total
    InstanceCosts, \* what one damage instance costs
    Confidences,   \* what a vision call can report
    MaxInstances   \* bound: instances seen in one photo

ASSUME PipelineAssumption ==
    /\ Policies \subseteq PolicyRow
    /\ NoPolicy \notin PolicyRow
    /\ RowCosts \subseteq PoolCosts
    /\ InstanceCosts \subseteq Nat \ {0}
    /\ Confidences \subseteq Nat
    /\ MaxInstances \in Nat

VARIABLES
    claim,      \* is it an upload, and its policy
    pc,         \* the stage to run next, or how the run ended
    gate,       \* GatekeeperResult
    damage,     \* the instances of the assessor, a sequence
    confidence, \* the confidence handed to the rules engine
    rows,       \* the claim's rows of claim_damage_instances, costed
    result      \* route, payout, reasons of the PipelineResult

vars == <<claim, pc, gate, damage, confidence, rows, result>>

Stages == {"gatekeeper", "segmenter", "assessor", "write_claim", "rules_engine"}

Damages == UNION {[1..n -> [cost : InstanceCosts, confidence : Confidences]] : n \in 0..MaxInstances}

Unknown == [route |-> "none", payout |-> NoAmount, reasons |-> {}]

TypeOK ==
    /\ claim \in [live : BOOLEAN, policy : PolicyRow \cup {NoPolicy}]
    /\ pc \in Stages \cup {"done", "raised"}
    /\ gate \in [valid : BOOLEAN, confidence : Nat]
    /\ damage \in Damages
    /\ confidence \in Nat
    /\ rows \in PoolCosts
    /\ result \in [route : Routes \cup {"retake", "none"}, payout : Nat \cup {NoAmount},
                   reasons : SUBSET (PayoutReasons \cup {"gatekeeper_rejected", "no_damage_detected"})]

NoRows == [p \in Pools |-> 0]

(* An upload comes from a known customer and has no rows yet.              *)
Init ==
    /\ claim \in [live : BOOLEAN, policy : Policies \cup {NoPolicy}]
    /\ claim.live => claim.policy # NoPolicy
    /\ rows \in IF claim.live THEN {NoRows} ELSE RowCosts
    /\ pc = "gatekeeper"
    /\ gate = [valid |-> FALSE, confidence |-> 0]
    /\ damage = <<>>
    /\ confidence = 0
    /\ result = Unknown

(* The run returns before the rules engine, with no payout.                *)
EndWith(route, reason) ==
    /\ result' = [route |-> route, payout |-> NoAmount, reasons |-> {reason}]
    /\ pc' = "done"

Gatekeep ==
    /\ pc = "gatekeeper"
    /\ \E valid \in BOOLEAN, v \in Confidences :
          /\ gate' = [valid |-> valid, confidence |-> v]
          /\ IF valid THEN pc' = "segmenter" /\ UNCHANGED <<confidence, result>>
                      ELSE EndWith("retake", "gatekeeper_rejected") /\ confidence' = v
    /\ UNCHANGED <<claim, damage, rows>>

(* Only for the log: nothing later reads the panels.                       *)
Segment ==
    /\ pc = "segmenter"
    /\ pc' = "assessor"
    /\ UNCHANGED <<claim, gate, damage, confidence, rows, result>>

(* Mutant: the first instance speaks for all.                              *)
FirstConfidence(g, d) == IF d = <<>> THEN g.confidence ELSE d[1].confidence

(* Weakest link, or the gatekeeper's confidence with nothing to assess.    *)
PerceptionConfidence(g, d) ==
    IF d = <<>> THEN g.confidence
    ELSE CHOOSE v \in {d[i].confidence : i \in DOMAIN d} :
            \A i \in DOMAIN d : v <= d[i].confidence

Assess ==
    /\ pc = "assessor"
    /\ damage' \in Damages
    /\ confidence' = PerceptionConfidence(gate, damage')
    /\ IF damage' = <<>> THEN EndWith("escalate", "no_damage_detected")
       ELSE /\ pc' = IF claim.live THEN "write_claim" ELSE "rules_engine"
            /\ UNCHANGED result
    /\ UNCHANGED <<claim, gate, rows>>

(* What the instances cost, added up row by row.                           *)
PerceivedCost(d) ==
    LET total[n \in 0..Len(d)] == IF n = 0 THEN 0 ELSE total[n - 1] + d[n].cost
    IN  total[Len(d)]

(* Mutant: one row per claim instead of one per instance.                  *)
WriteFirstInstance ==
    /\ pc = "write_claim"
    /\ rows' = [NoRows EXCEPT !["collision"] = damage[1].cost]
    /\ pc' = "rules_engine"
    /\ UNCHANGED <<claim, gate, damage, confidence, result>>

(* The claim and a row per instance, all in the placeholder pool.          *)
WriteLiveClaim ==
    /\ pc = "write_claim"
    /\ rows' = [NoRows EXCEPT !["collision"] = PerceivedCost(damage)]
    /\ pc' = "rules_engine"
    /\ UNCHANGED <<claim, gate, damage, confidence, result>>

Payout ==
    IF claim.live THEN ComputePayoutLive(claim.policy, rows, confidence)
                  ELSE ComputePayout(claim.policy, rows, confidence)

Price ==
    /\ pc = "rules_engine"
    /\ claim.policy # NoPolicy
    /\ result' = [route |-> Payout.route, payout |-> Payout.payout, reasons |-> Payout.reasons]
    /\ pc' = "done"
    /\ UNCHANGED <<claim, gate, damage, confidence, rows>>

(* A vision call gives up, a category has no price, the claim no policy.   *)
StageRaises ==
    /\ pc \in Stages
    /\ pc' = "raised"
    /\ UNCHANGED <<claim, gate, damage, confidence, rows, result>>

Next == Gatekeep \/ Segment \/ Assess \/ WriteLiveClaim \/ Price \/ StageRaises

Spec == Init /\ [][Next]_vars

-----------------------------------------------------------------------------
(* "One low-confidence severity call should be able to trip escalation on  *)
(* its own" (pipeline.py:41-43), and a claim whose photo was turned away   *)
(* or shows no damage is not approved: approval needs a valid photo,       *)
(* damage in it, and every instance of it above the threshold.             *)
ApprovalNeedsSureSight ==
    result.route = "auto_approve" =>
        /\ gate.valid
        /\ damage # <<>>
        /\ \A i \in DOMAIN damage : Confident(damage[i].confidence)

(* What is paid for an upload is what was seen: the payout is the cost of  *)
(* all instances up to the limit, less the deductible, and an upload that  *)
(* was not priced has no damage rows unless pricing itself raised          *)
(* (pipeline.py:102-118, 144-152).                                         *)
PaidForWhatWasSeen ==
    claim.live =>
        /\ result.payout # NoAmount =>
             result.payout = Net(AtMost(PerceivedCost(damage), SinglePoolLimit(claim.policy)),
                                 claim.policy.deductible)
        /\ pc = "done" /\ rows # NoRows => result.reasons \cap
                                             {"gatekeeper_rejected", "no_damage_detected"} = {}

(* pipeline.py:68-72: the guard against unseen damage "only guards the     *)
(* auto-approve path", denials are left to the rules engine.               *)
NoDamageGuardsOnlyApproval ==
    ("no_damage_detected" \in result.reasons /\ ~claim.live /\ claim.policy # NoPolicy) =>
        ComputePayout(claim.policy, rows, confidence).route # "auto_deny"

=============================================================================
