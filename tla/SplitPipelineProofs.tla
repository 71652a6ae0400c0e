-------------------------- MODULE SplitPipelineProofs --------------------------
(***************************************************************************)
(* Arch 2 approves on sure sight only and pays what was seen, for any      *)
(* policies, rows and costs, any number of instances in a photo and any    *)
(* threshold.                                                              *)
(***************************************************************************)
EXTENDS SplitPipeline, RulesEngineProofs

(* What a stage may rely on of those before it.                            *)
Sighted ==
    /\ pc \in {"segmenter", "assessor", "write_claim", "rules_engine"} => gate.valid
    /\ pc \in {"write_claim", "rules_engine"} =>
          /\ damage # <<>>
          /\ confidence = PerceptionConfidence(gate, damage)

Undecided == pc \in Stages \cup {"raised"} => result = Unknown

SightInv ==
    /\ damage \in Damages
    /\ Sighted
    /\ Undecided
    /\ ApprovalNeedsSureSight

-----------------------------------------------------------------------------
(* The engine is handed a confidence that is no instance's more than its   *)
(* own: the weakest link (pipeline.py:43).                                 *)
LEMMA WeakestLink ==
  ASSUME NEW g, NEW d \in Damages, d # <<>>, NEW i \in DOMAIN d
  PROVE  /\ PerceptionConfidence(g, d) \in Nat
         /\ PerceptionConfidence(g, d) <= d[i].confidence
         /\ d[i].confidence \in Nat
  <1> DEFINE T == {d[j].confidence : j \in DOMAIN d}
  <1>1. PICK n \in 0..MaxInstances : d \in [1..n -> [cost : InstanceCosts, confidence : Confidences]]
    BY DEF Damages
  <1>2. \A j \in DOMAIN d : d[j].confidence \in Nat
    BY <1>1, PipelineAssumption
  <1>3. T \subseteq Nat /\ T # {}
    BY <1>2
  <1>4. \E v \in T : \A w \in T : v <= w
    BY <1>3, LeastOfNats
  <1>5. \E v \in T : \A j \in DOMAIN d : v <= d[j].confidence
    BY <1>4
  <1>6. PerceptionConfidence(g, d) = CHOOSE v \in T : \A j \in DOMAIN d : v <= d[j].confidence
    BY DEF PerceptionConfidence
  <1>7. PerceptionConfidence(g, d) \in T
        /\ \A j \in DOMAIN d : PerceptionConfidence(g, d) <= d[j].confidence
    BY <1>5, <1>6
  <1> QED BY <1>2, <1>3, <1>7

(* Neither branch approves below the threshold.                            *)
LEMMA ApprovalIsConfident ==
  ASSUME Payout.route = "auto_approve"
  PROVE  Confident(confidence)
  BY DEF Payout, ComputePayout, ComputePayoutLive, Denied, Malformed, Gated

LEMMA ThresholdIsNat == ConfidenceThreshold \in Nat
  BY RulesAssumption

-----------------------------------------------------------------------------
LEMMA InitSight == Init => SightInv
  <1> SUFFICES ASSUME Init PROVE SightInv
    OBVIOUS
  <1>1. damage \in Damages
    <2>1. 0 \in 0..MaxInstances
      BY PipelineAssumption
    <2>2. damage \in [1..0 -> [cost : InstanceCosts, confidence : Confidences]]
      BY DEF Init
    <2> QED BY <2>1, <2>2 DEF Damages
  <1>2. Sighted /\ Undecided /\ ApprovalNeedsSureSight
    BY DEF Init, Sighted, Undecided, ApprovalNeedsSureSight, Unknown
  <1> QED BY <1>1, <1>2 DEF SightInv

(* The gatekeeper lets a photo through as valid, or ends the run.          *)
LEMMA GatekeepSight == ASSUME SightInv, Gatekeep PROVE SightInv'
  <1>1. PICK valid \in BOOLEAN, v \in Confidences :
          /\ gate' = [valid |-> valid, confidence |-> v]
          /\ IF valid THEN pc' = "segmenter" /\ UNCHANGED <<confidence, result>>
                      ELSE EndWith("retake", "gatekeeper_rejected") /\ confidence' = v
    BY DEF Gatekeep
  <1>2. damage' \in Damages /\ result = Unknown
    BY DEF SightInv, Undecided, Gatekeep, Stages
  <1>3. CASE valid
    BY <1>1, <1>2, <1>3 DEF SightInv, Sighted, Undecided, ApprovalNeedsSureSight, Unknown
  <1>4. CASE ~valid
    BY <1>1, <1>2, <1>4 DEF SightInv, Sighted, Undecided, ApprovalNeedsSureSight, EndWith, Stages
  <1> QED BY <1>3, <1>4

LEMMA AssessSight == ASSUME SightInv, Assess PROVE SightInv'
  <1>1. gate.valid /\ result = Unknown /\ damage' \in Damages
    BY DEF SightInv, Sighted, Undecided, Assess, Stages
  <1>2. CASE damage' = <<>>
    BY <1>1, <1>2 DEF Assess, EndWith, SightInv, Sighted, Undecided, ApprovalNeedsSureSight, Stages
  <1>3. CASE damage' # <<>>
    BY <1>1, <1>3 DEF Assess, SightInv, Sighted, Undecided, ApprovalNeedsSureSight, Unknown
  <1> QED BY <1>2, <1>3

(* The engine approves only what every instance is sure of.                *)
LEMMA PriceSight == ASSUME SightInv, Price PROVE SightInv'
  <1>1. /\ gate.valid /\ damage # <<>> /\ damage \in Damages
        /\ confidence = PerceptionConfidence(gate, damage)
        /\ UNCHANGED <<gate, damage>> /\ pc' = "done" /\ result'.route = Payout.route
    BY DEF SightInv, Sighted, Price
  <1>2. ASSUME result'.route = "auto_approve", NEW i \in DOMAIN damage
        PROVE  Confident(damage[i].confidence)
    <2>1. Confident(confidence)
      BY <1>1, <1>2, ApprovalIsConfident
    <2> QED BY <1>1, <2>1, WeakestLink, ThresholdIsNat DEF Confident
  <1>3. ApprovalNeedsSureSight'
    BY <1>1, <1>2 DEF ApprovalNeedsSureSight, Confident
  <1> QED BY <1>1, <1>3 DEF SightInv, Sighted, Undecided, Stages

LEMMA NextSight == SightInv /\ [Next]_vars => SightInv'
  <1> SUFFICES ASSUME SightInv, [Next]_vars PROVE SightInv'
    OBVIOUS
  <1>1. CASE Segment
    BY <1>1 DEF Segment, SightInv, Sighted, Undecided, ApprovalNeedsSureSight, Stages
  <1>2. CASE WriteLiveClaim
    BY <1>2 DEF WriteLiveClaim, SightInv, Sighted, Undecided, ApprovalNeedsSureSight, Stages
  <1>3. CASE StageRaises
    BY <1>3 DEF StageRaises, SightInv, Sighted, Undecided, ApprovalNeedsSureSight, Stages
  <1>4. CASE UNCHANGED vars
    BY <1>4 DEF vars, SightInv, Sighted, Undecided, ApprovalNeedsSureSight
  <1> QED BY <1>1, <1>2, <1>3, <1>4, GatekeepSight, AssessSight, PriceSight DEF Next

(* An approval of Arch 2 rests on a valid photo, visible damage, and       *)
(* instances that are every one above the threshold, on both branches of   *)
(* the engine (pipeline.py:41-43, 68-83, 144-152).                         *)
THEOREM SureSight == Spec => []ApprovalNeedsSureSight
  <1>1. SightInv => ApprovalNeedsSureSight
    BY DEF SightInv
  <1> QED BY <1>1, InitSight, NextSight, PTL DEF Spec

-----------------------------------------------------------------------------
(* The cost of what was seen.                                              *)

LEMMA DamageFacts ==
  ASSUME NEW d \in Damages
  PROVE  /\ Len(d) \in Nat /\ DOMAIN d = 1..Len(d)
         /\ \A i \in 1..Len(d) : d[i].cost \in Nat
  <1> DEFINE Instances == [cost : InstanceCosts, confidence : Confidences]
  <1>1. PICK n \in 0..MaxInstances : d \in [1..n -> Instances]
    BY DEF Damages
  <1>2. n \in Nat
    BY PipelineAssumption
  <1>3. \A i \in 1..n : d[i] \in Instances /\ d[i].cost \in Nat
    <2>1. \A instance \in Instances : instance.cost \in Nat
      BY PipelineAssumption
    <2> HIDE DEF Instances
    <2> QED BY <1>1, <2>1
  <1>4. Len(d) = n
    <2> HIDE DEF Instances
    <2> QED BY <1>1, <1>2
  <1> QED BY <1>1, <1>2, <1>3, <1>4

(* The sums of the first instances, as far as m.                           *)
Sums(d, m, g) == g = [n \in 0..m |-> IF n = 0 THEN 0 ELSE g[n - 1] + d[n].cost]

LEMMA SumsAreNats ==
  ASSUME NEW d \in Damages, NEW m \in 0..Len(d), NEW g, Sums(d, m, g)
  PROVE  \A n \in 0..m : g[n] \in Nat
  <1> DEFINE bad == {n \in 0..m : g[n] \notin Nat}
  <1>1. SUFFICES ASSUME bad # {} PROVE FALSE
    OBVIOUS
  <1>2. m \in Nat /\ m <= Len(d) /\ Len(d) \in Nat
    BY DamageFacts
  <1>3. PICK v \in bad : \A w \in bad : v <= w
    <2>1. bad \subseteq Nat
      OBVIOUS
    <2> HIDE DEF bad
    <2> QED BY <1>1, <2>1, LeastOfNats
  <1>4. v \in 0..m /\ g[v] \notin Nat /\ g[v] = IF v = 0 THEN 0 ELSE g[v - 1] + d[v].cost
    BY DEF Sums
  <1>5. v # 0 /\ v \in 1..Len(d) /\ v - 1 \in 0..m
    BY <1>2, <1>4
  <1>6. g[v - 1] \in Nat
    <2>1. v - 1 \notin bad
      BY <1>3, <1>4, <1>5
    <2> QED BY <1>5, <2>1
  <1> QED BY <1>4, <1>5, <1>6, DamageFacts

LEMMA SumsExist ==
  ASSUME NEW d \in Damages
  PROVE  \A m \in 0..Len(d) : \E g : Sums(d, m, g)
  <1> DEFINE bad == {m \in 0..Len(d) : ~\E g : Sums(d, m, g)}
  <1>1. SUFFICES ASSUME bad # {} PROVE FALSE
    OBVIOUS
  <1>2. Len(d) \in Nat
    BY DamageFacts
  <1>3. PICK v \in bad : \A w \in bad : v <= w
    <2>1. bad \subseteq Nat
      OBVIOUS
    <2> HIDE DEF bad
    <2> QED BY <1>1, <2>1, LeastOfNats
  <1>4. v \in 0..Len(d) /\ ~\E g : Sums(d, v, g)
    OBVIOUS
  <1>5. v # 0
    <2>1. Sums(d, 0, [n \in 0..0 |-> 0])
      BY DEF Sums
    <2> QED BY <1>4, <2>1
  <1>6. v - 1 \in 0..Len(d) /\ v - 1 \notin bad
    BY <1>2, <1>3, <1>4, <1>5
  <1>7. PICK g : Sums(d, v - 1, g)
    BY <1>6
  <1> DEFINE h == [n \in 0..v |-> IF n = v THEN g[v - 1] + d[v].cost ELSE g[n]]
  <1>8. \A n \in 0..v : h[n] = IF n = 0 THEN 0 ELSE h[n - 1] + d[n].cost
    <2> TAKE n \in 0..v
    <2>1. v \in Nat /\ n \in Nat
      BY <1>4
    <2>2. CASE n = v
      <3>1. v - 1 \in 0..v /\ v - 1 # v
        BY <1>4, <1>5, <2>1
      <3> QED BY <1>5, <2>2, <3>1
    <2>3. CASE n # v
      <3>1. n \in 0..(v - 1) /\ h[n] = g[n]
        BY <2>1, <2>3
      <3>2. g[n] = IF n = 0 THEN 0 ELSE g[n - 1] + d[n].cost
        BY <1>7, <3>1 DEF Sums
      <3>3. n # 0 => n - 1 \in 0..v /\ n - 1 # v
        BY <2>1, <3>1
      <3>4. n # 0 => h[n - 1] = g[n - 1]
        BY <3>3
      <3> QED BY <3>1, <3>2, <3>4
    <2> QED BY <2>2, <2>3
  <1>9. Sums(d, v, h)
    <2>1. h = [n \in 0..v |-> h[n]]
      OBVIOUS
    <2> HIDE DEF h
    <2> QED BY <1>8, <2>1 DEF Sums
  <1> QED BY <1>4, <1>9

(* What was seen costs a natural number.                                   *)
LEMMA PerceivedCostType ==
  ASSUME NEW d \in Damages
  PROVE  PerceivedCost(d) \in Nat
  <1> DEFINE total == CHOOSE g : Sums(d, Len(d), g)
  <1>1. Len(d) \in 0..Len(d)
    BY DamageFacts
  <1>2. Sums(d, Len(d), total)
    BY <1>1, SumsExist
  <1>3. PerceivedCost(d) = total[Len(d)]
    BY DEF PerceivedCost, Sums
  <1> HIDE DEF total
  <1> QED BY <1>1, <1>2, <1>3, SumsAreNats

-----------------------------------------------------------------------------
(* What Arch 2 pays an upload.                                             *)

(* The rows of what was seen, as WriteLiveClaim stores them.               *)
SeenRows == [NoRows EXCEPT !["collision"] = PerceivedCost(damage)]

(* An upload has no rows before they are written, those of what was seen   *)
(* before they are priced, and a run that ends early leaves none.          *)
LiveRows ==
    claim.live =>
        /\ claim.policy \in PolicyRow
        /\ pc \in {"gatekeeper", "segmenter", "assessor", "write_claim"} => rows = NoRows
        /\ pc = "rules_engine" => rows = SeenRows
        /\ (pc = "done" /\ result.reasons \cap {"gatekeeper_rejected", "no_damage_detected"} # {})
              => rows = NoRows

PayInv ==
    /\ TypeOK
    /\ SightInv
    /\ LiveRows
    /\ PaidForWhatWasSeen

LEMMA SeenRowsFacts ==
  ASSUME damage \in Damages
  PROVE  /\ SeenRows \in PoolCosts
         /\ SeenRows["collision"] = PerceivedCost(damage)
         /\ SeenRows["comprehensive"] = 0
         /\ PerceivedCost(damage) \in Nat
         /\ TotalCost(SeenRows) = PerceivedCost(damage)
  <1>1. PerceivedCost(damage) \in Nat
    BY PerceivedCostType
  <1>2. /\ SeenRows \in PoolCosts
        /\ SeenRows["collision"] = PerceivedCost(damage)
        /\ SeenRows["comprehensive"] = 0
    BY <1>1 DEF SeenRows, NoRows, PoolCosts, Pools
  <1> QED BY <1>1, <1>2 DEF TotalCost

(* A priced result has a type, and none of the reasons of an early end.    *)
LEMMA PayoutFacts ==
  ASSUME TypeOK, claim.policy # NoPolicy
  PROVE  /\ Payout.route \in Routes /\ Payout.payout \in Nat \cup {NoAmount}
         /\ Payout.reasons \subseteq PayoutReasons
         /\ Payout.reasons \cap {"gatekeeper_rejected", "no_damage_detected"} = {}
  <1>1. claim.policy \in PolicyRow /\ rows \in PoolCosts /\ confidence \in Nat
    BY DEF TypeOK
  <1>2. Payout \in PayoutResult
    BY <1>1, PayoutType, LivePayoutType DEF Payout
  <1> QED BY <1>2 DEF PayoutResult, PayoutReasons

(* The engine's price of what was seen.                                    *)
LEMMA LivePrice ==
  ASSUME PayInv, pc = "rules_engine", claim.live, Payout.payout # NoAmount
  PROVE  Payout.payout = Net(AtMost(PerceivedCost(damage), SinglePoolLimit(claim.policy)),
                             claim.policy.deductible)
  <1>1. /\ claim.policy \in PolicyRow /\ rows = SeenRows /\ confidence \in Nat
        /\ damage \in Damages
    BY DEF PayInv, LiveRows, TypeOK
  <1>2. SeenRows \in PoolCosts /\ TotalCost(SeenRows) = PerceivedCost(damage)
    BY <1>1, SeenRowsFacts
  <1> QED BY <1>1, <1>2, LivePricedExactly DEF Payout

(* An early end has a reason of its own and no payout.                     *)
LEMMA EarlyEnd ==
  ASSUME NEW route \in {"retake", "escalate"},
         NEW reason \in {"gatekeeper_rejected", "no_damage_detected"}, EndWith(route, reason)
  PROVE  /\ pc' = "done"
         /\ result'.payout = NoAmount
         /\ result'.reasons = {reason}
         /\ result' \in [route : Routes \cup {"retake", "none"}, payout : Nat \cup {NoAmount},
                         reasons : SUBSET (PayoutReasons \cup
                                           {"gatekeeper_rejected", "no_damage_detected"})]
  BY DEF EndWith, Routes

LEMMA InitPay == Init => PayInv
  <1> SUFFICES ASSUME Init PROVE PayInv
    OBVIOUS
  <1>1. SightInv
    BY InitSight
  <1>2. NoRows \in PoolCosts /\ claim.policy \in PolicyRow \cup {NoPolicy}
    BY PipelineAssumption DEF NoRows, PoolCosts, Init
  <1>3. rows \in PoolCosts /\ (claim.live => rows = NoRows)
    BY <1>2, PipelineAssumption DEF Init
  <1>4. result.payout = NoAmount /\ result.reasons = {} /\ pc = "gatekeeper"
    BY DEF Init, Unknown
  <1>5. TypeOK
    BY <1>1, <1>2, <1>3 DEF Init, TypeOK, SightInv, Stages, Unknown
  <1>6. LiveRows
    BY <1>2, <1>3, <1>4, PipelineAssumption DEF LiveRows, Init
  <1> QED BY <1>1, <1>4, <1>5, <1>6 DEF PayInv, PaidForWhatWasSeen

LEMMA GatekeepPay == ASSUME PayInv, Gatekeep PROVE PayInv'
  <1>1. PICK valid \in BOOLEAN, v \in Confidences :
          /\ gate' = [valid |-> valid, confidence |-> v]
          /\ IF valid THEN pc' = "segmenter" /\ UNCHANGED <<confidence, result>>
                      ELSE EndWith("retake", "gatekeeper_rejected") /\ confidence' = v
    BY DEF Gatekeep
  <1>2. SightInv'
    BY GatekeepSight DEF PayInv
  <1>3. UNCHANGED <<claim, damage, rows>> /\ pc = "gatekeeper" /\ v \in Nat /\ result = Unknown
    BY PipelineAssumption DEF Gatekeep, PayInv, SightInv, Undecided, Stages
  <1>4. CASE valid
    <2>1. TypeOK'
      BY <1>1, <1>3, <1>4 DEF PayInv, TypeOK, Stages
    <2>2. LiveRows'
      BY <1>1, <1>3, <1>4 DEF PayInv, LiveRows, NoRows
    <2>3. PaidForWhatWasSeen'
      BY <1>1, <1>3, <1>4 DEF PaidForWhatWasSeen, Unknown
    <2> QED BY <1>2, <2>1, <2>2, <2>3 DEF PayInv
  <1>5. CASE ~valid
    <2>1. /\ pc' = "done" /\ result'.payout = NoAmount
          /\ result' \in [route : Routes \cup {"retake", "none"}, payout : Nat \cup {NoAmount},
                          reasons : SUBSET (PayoutReasons \cup
                                            {"gatekeeper_rejected", "no_damage_detected"})]
      BY <1>1, <1>5, EarlyEnd
    <2>2. TypeOK'
      BY <1>1, <1>3, <1>5, <2>1 DEF PayInv, TypeOK
    <2>3. LiveRows' /\ PaidForWhatWasSeen'
      BY <1>3, <2>1 DEF PayInv, LiveRows, PaidForWhatWasSeen, NoRows
    <2> QED BY <1>2, <2>2, <2>3 DEF PayInv
  <1> QED BY <1>4, <1>5

LEMMA AssessPay == ASSUME PayInv, Assess PROVE PayInv'
  <1>1. SightInv'
    BY AssessSight DEF PayInv
  <1>2. /\ UNCHANGED <<claim, gate, rows>> /\ pc = "assessor" /\ damage' \in Damages
        /\ result = Unknown /\ confidence' = PerceptionConfidence(gate, damage')
    BY DEF Assess, PayInv, SightInv, Undecided, Stages
  <1>3. confidence' \in Nat
    <2>1. CASE damage' = <<>>
      BY <1>2, <2>1 DEF PerceptionConfidence, PayInv, TypeOK
    <2>2. CASE damage' # <<>>
      <3>1. \E i : i \in DOMAIN damage'
        BY <1>2, <2>2, DamageFacts
      <3> QED BY <1>2, <2>2, <3>1, WeakestLink
    <2> QED BY <2>1, <2>2
  <1>4. CASE damage' = <<>>
    <2>1. /\ pc' = "done" /\ result'.payout = NoAmount
          /\ result' \in [route : Routes \cup {"retake", "none"}, payout : Nat \cup {NoAmount},
                          reasons : SUBSET (PayoutReasons \cup
                                            {"gatekeeper_rejected", "no_damage_detected"})]
      BY <1>4, EarlyEnd DEF Assess
    <2>2. TypeOK'
      BY <1>2, <1>3, <2>1 DEF PayInv, TypeOK
    <2>3. LiveRows' /\ PaidForWhatWasSeen'
      BY <1>2, <2>1 DEF PayInv, LiveRows, PaidForWhatWasSeen, NoRows
    <2> QED BY <1>1, <2>2, <2>3 DEF PayInv
  <1>5. CASE damage' # <<>>
    <2>1. pc' = (IF claim.live THEN "write_claim" ELSE "rules_engine") /\ result' = Unknown
      BY <1>2, <1>5 DEF Assess
    <2>2. TypeOK'
      BY <1>2, <1>3, <2>1 DEF PayInv, TypeOK, Stages
    <2>3. LiveRows' /\ PaidForWhatWasSeen'
      BY <1>2, <2>1 DEF PayInv, LiveRows, PaidForWhatWasSeen, NoRows, Unknown
    <2> QED BY <1>1, <2>2, <2>3 DEF PayInv
  <1> QED BY <1>4, <1>5

LEMMA WriteLiveClaimPay == ASSUME PayInv, WriteLiveClaim PROVE PayInv'
  <1>1. SightInv'
    BY NextSight DEF PayInv, Next
  <1>2. /\ rows' = SeenRows /\ pc = "write_claim" /\ pc' = "rules_engine"
        /\ UNCHANGED <<claim, gate, damage, confidence, result>> /\ result = Unknown
    BY DEF WriteLiveClaim, SeenRows, PayInv, SightInv, Undecided, Stages
  <1>3. SeenRows \in PoolCosts /\ SeenRows' = SeenRows
    BY <1>2, SeenRowsFacts DEF PayInv, TypeOK, SeenRows, NoRows
  <1>4. TypeOK'
    BY <1>2, <1>3 DEF PayInv, TypeOK, Stages
  <1>5. LiveRows' /\ PaidForWhatWasSeen'
    BY <1>2, <1>3 DEF PayInv, LiveRows, PaidForWhatWasSeen, Unknown
  <1> QED BY <1>1, <1>4, <1>5 DEF PayInv

LEMMA PricePay == ASSUME PayInv, Price PROVE PayInv'
  <1>1. SightInv'
    BY PriceSight DEF PayInv
  <1>2. /\ pc = "rules_engine" /\ pc' = "done" /\ claim.policy # NoPolicy
        /\ result' = [route |-> Payout.route, payout |-> Payout.payout,
                      reasons |-> Payout.reasons]
        /\ UNCHANGED <<claim, gate, damage, confidence, rows>>
    BY DEF Price
  <1>3. /\ result'.payout = Payout.payout /\ result'.reasons = Payout.reasons
        /\ result'.reasons \cap {"gatekeeper_rejected", "no_damage_detected"} = {}
        /\ result' \in [route : Routes \cup {"retake", "none"}, payout : Nat \cup {NoAmount},
                        reasons : SUBSET (PayoutReasons \cup
                                          {"gatekeeper_rejected", "no_damage_detected"})]
    BY <1>2, PayoutFacts DEF PayInv
  <1>4. TypeOK'
    BY <1>2, <1>3 DEF PayInv, TypeOK
  <1>5. LiveRows'
    BY <1>2, <1>3 DEF PayInv, LiveRows
  <1>6. PaidForWhatWasSeen'
    BY <1>2, <1>3, LivePrice DEF PaidForWhatWasSeen
  <1> QED BY <1>1, <1>4, <1>5, <1>6 DEF PayInv

LEMMA NextPay == PayInv /\ [Next]_vars => PayInv'
  <1> SUFFICES ASSUME PayInv, [Next]_vars PROVE PayInv'
    OBVIOUS
  <1>1. SightInv'
    BY NextSight DEF PayInv
  <1>2. CASE Segment
    <2>1. TypeOK'
      BY <1>2 DEF Segment, PayInv, TypeOK, Stages
    <2>2. LiveRows' /\ PaidForWhatWasSeen'
      BY <1>2 DEF Segment, PayInv, LiveRows, PaidForWhatWasSeen, NoRows
    <2> QED BY <1>1, <2>1, <2>2 DEF PayInv
  <1>3. CASE StageRaises
    <2>1. TypeOK'
      BY <1>3 DEF StageRaises, PayInv, TypeOK
    <2>2. LiveRows' /\ PaidForWhatWasSeen'
      BY <1>3 DEF StageRaises, PayInv, LiveRows, PaidForWhatWasSeen
    <2> QED BY <1>1, <2>1, <2>2 DEF PayInv
  <1>4. CASE UNCHANGED vars
    <2>1. TypeOK' /\ LiveRows' /\ PaidForWhatWasSeen'
      BY <1>4 DEF vars, PayInv, TypeOK, LiveRows, PaidForWhatWasSeen, NoRows, SeenRows
    <2> QED BY <1>1, <2>1 DEF PayInv
  <1> QED BY <1>2, <1>3, <1>4, GatekeepPay, AssessPay, WriteLiveClaimPay, PricePay DEF Next

(* The state of the pipeline is typed, for any photo and any policy.       *)
THEOREM TypeCorrect == Spec => []TypeOK
  <1>1. PayInv => TypeOK
    BY DEF PayInv
  <1> QED BY <1>1, InitPay, NextPay, PTL DEF Spec

(* The payout of an upload is the cost of every instance seen, however     *)
(* many, up to the larger limit and less the deductible, and a photo       *)
(* turned away or without damage leaves no rows (pipeline.py:102-118,      *)
(* 144-152).                                                               *)
THEOREM PaidAsSeen == Spec => []PaidForWhatWasSeen
  <1>1. PayInv => PaidForWhatWasSeen
    BY DEF PayInv
  <1> QED BY <1>1, InitPay, NextPay, PTL DEF Spec

=============================================================================
