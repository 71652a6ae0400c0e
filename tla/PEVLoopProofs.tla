---------------------------- MODULE PEVLoopProofs ----------------------------
(***************************************************************************)
(* PEVLoop, for every set of policies, damage and confidences.  Under any  *)
(* limits it is typed, adjudicates no claim without a policy and bills     *)
(* clean facts only.  That every fact is clean takes a replan budget other *)
(* than one: with a single replan a claim can leave the planner for the    *)
(* money with the coverage flag unresolved.  That the limits never bite,   *)
(* and that the agent is a ClaimDecision, takes no less than Headroom.     *)
(***************************************************************************)
EXTENDS PEVLoop, RulesEngineProofs, FiniteSetTheorems

-----------------------------------------------------------------------------
(* The data of the model.                                                  *)

LEMMA ItemTypes ==
    /\ Absent \in Items /\ ErrorItem \in Items
    /\ \A p \in Perils, d \in Nat, v \in Nat :
          /\ OkItem(p, d, v) \in Items
          /\ \A r \in ItemReasons : FlagItem(r, p, d, v) \in Items
  BY DEF OkItem, FlagItem, Absent, ErrorItem, Items, Perils, ItemReasons

LEMMA PrereqValues ==
    /\ Prereqs["image_quality"] = {} /\ Prereqs["claimed_peril"] = {}
    /\ Prereqs["policy_dates"] = {}
    /\ Prereqs["damage_type"] = {"image_quality"}
    /\ Prereqs["story_consistency"] = {"damage_type"}
    /\ Prereqs["policy_coverage"] = {"claimed_peril"}
  BY DEF Prereqs, Checks

LEMMA ItemFields ==
    /\ \A p, d, v : /\ OkItem(p, d, v).status = "ok"
                     /\ OkItem(p, d, v).reason = "none"
                     /\ OkItem(p, d, v).peril = p
                     /\ OkItem(p, d, v).cost = d
    /\ \A r, p, d, v : /\ FlagItem(r, p, d, v).status = "flagged"
                        /\ FlagItem(r, p, d, v).reason = r
                        /\ FlagItem(r, p, d, v).peril = p
                        /\ FlagItem(r, p, d, v).cost = d
  BY DEF OkItem, FlagItem

(* What the items of one run of a check have in common.                    *)
ItemFacts(check, item) ==
    /\ item \in Items
    /\ item.status # "absent"
    /\ item.reason = "error" => item.status = "flagged" /\ item.peril = "unknown" /\ item.cost = 0
    /\ check = "damage_type" /\ item.status = "ok" => item.cost # 0
    /\ check = "story_consistency" =>
         /\ item.status = "ok" => item.cost = workspace.damage
         /\ item.status = "flagged" => item.reason # "none"
    /\ check = "claimed_peril" => (item.status = "ok" <=> item.peril \in Pools)
    /\ check = "policy_coverage" /\ item.status = "ok" =>
         /\ item.peril = workspace.peril
         /\ item.peril # "unknown"
         /\ claim.policy # NoPolicy
    /\ check = "policy_coverage" /\ item.status = "flagged" =>
         item.reason = "error" \/ workspace.peril = "unknown"
    /\ check = "policy_dates" /\ item.status = "ok" => claim.policy # NoPolicy

(* A check answers with an item of its kind, or the executor records that  *)
(* it raised.                                                              *)
LEMMA InvestigateFacts ==
    ASSUME TypeOK, NEW check \in Checks, NEW item \in Investigate(check)
    PROVE  ItemFacts(check, item)
<1>1. CASE item = ErrorItem
  BY <1>1, ItemTypes DEF ErrorItem, FlagItem, ItemFacts, Pools
<1>2. CASE item \in CheckItems(check)
  <2>1. CASE check = "image_quality"
    <3>1. item \in ImageItems
      BY <1>2, <2>1 DEF CheckItems
    <3>2. PICK v \in Nat : item \in {OkItem("unknown", 0, v), FlagItem("none", "unknown", 0, v)}
      BY <3>1, PEVAssumption DEF ImageItems
    <3>3. item \in Items
      BY <3>2, ItemTypes DEF ItemReasons, Perils
    <3> QED
      BY <2>1, <3>2, <3>3, ItemFields DEF ItemFacts
  <2>2. CASE check = "damage_type"
    <3>1. item \in DamageItems
      BY <1>2, <2>2 DEF CheckItems
    <3>2. \/ \E d \in Nat \ {0}, v \in Nat : item = OkItem("unknown", d, v)
          \/ item = FlagItem("none", "unknown", 0, 0)
      BY <3>1, PEVAssumption DEF DamageItems
    <3>3. item \in Items
      BY <3>2, ItemTypes DEF ItemReasons, Perils
    <3> QED
      BY <2>2, <3>2, <3>3, ItemFields DEF ItemFacts
  <2>3. CASE check = "story_consistency"
    <3>1. item \in StoryItems
      BY <1>2, <2>3 DEF CheckItems
    <3>2. \/ item = OkItem("unknown", workspace.damage, 0)
          \/ item = FlagItem("possible_prompt_injection", "unknown", workspace.damage, 0)
          \/ item = FlagItem("story_damage_inconsistent", "unknown", workspace.damage, 0)
      BY <3>1 DEF StoryItems, TypeOK, Stories
    <3>3. workspace.damage \in Nat
      BY DEF TypeOK
    <3>4. item \in Items
      BY <3>2, <3>3, ItemTypes DEF ItemReasons, Perils
    <3> QED
      BY <2>3, <3>2, <3>3, <3>4, ItemFields DEF ItemFacts
  <2>4. CASE check = "claimed_peril"
    <3>1. item \in PerilItems
      BY <1>2, <2>4 DEF CheckItems
    <3>2. \/ \E p \in Pools : item = OkItem(p, 0, 0)
          \/ item = FlagItem("none", "unknown", 0, 0)
          \/ item = FlagItem("possible_prompt_injection", "unknown", 0, 0)
      BY <3>1 DEF PerilItems, TypeOK, Stories
    <3>3. "unknown" \notin Pools
      BY DEF Pools
    <3>4. item \in Items
      BY <3>2, <3>3, ItemTypes DEF ItemReasons, Perils
    <3> QED
      BY <2>4, <3>2, <3>3, <3>4, ItemFields DEF ItemFacts
  <2>5. CASE check = "policy_coverage"
    <3>1. item \in CoverageItems
      BY <1>2, <2>5 DEF CheckItems
    <3>2. /\ claim.policy # NoPolicy
          /\ \/ item = FlagItem("none", "unknown", 0, 0) /\ workspace.peril = "unknown"
             \/ item = OkItem(workspace.peril, 0, 0) /\ workspace.peril # "unknown"
      BY <3>1 DEF CoverageItems
    <3>3. workspace.peril \in Perils
      BY DEF TypeOK
    <3>4. item \in Items
      BY <3>2, <3>3, ItemTypes DEF ItemReasons, Perils
    <3> QED
      BY <2>5, <3>2, <3>3, <3>4, ItemFields DEF ItemFacts
  <2>6. CASE check = "policy_dates"
    <3>1. item \in DatesItems
      BY <1>2, <2>6 DEF CheckItems
    <3>2. item = OkItem("unknown", 0, 0) /\ claim.policy # NoPolicy
      BY <3>1 DEF DatesItems
    <3> QED
      BY <2>6, <3>2, ItemTypes, ItemFields DEF ItemFacts, Perils
  <2> QED
    BY <2>1, <2>2, <2>3, <2>4, <2>5, <2>6 DEF Checks
<1> QED
  BY <1>1, <1>2 DEF Investigate

(* The codes of a classified flag are reason codes.                        *)
LEMMA FlagCodeType ==
    ASSUME NEW check \in Checks, NEW item \in Items,
           check = "story_consistency" => item.reason # "none"
    PROVE  FlagCode(check, item) \in FlagCodes
<1>1. item.reason \in ItemReasons
  BY DEF Items
<1>2. CASE item.reason = "error"
  BY <1>2 DEF FlagCode, FlagCodes
<1>3. CASE item.reason # "error"
  <2>1. CASE check = "story_consistency"
    <3>1. FlagCode(check, item) = item.reason
      BY <1>3, <2>1 DEF FlagCode
    <3> QED
      BY <1>1, <1>3, <2>1, <3>1 DEF ItemReasons, FlagCodes
  <2>2. CASE check = "claimed_peril"
    <3>1. FlagCode(check, item) \in {"possible_prompt_injection", "peril_unknown"}
      BY <1>3, <2>2 DEF FlagCode
    <3> QED
      BY <3>1 DEF FlagCodes
  <2>3. CASE check \notin {"story_consistency", "claimed_peril"}
    <3>1. FlagCode(check, item) \in
            {"image_unusable", "no_damage_detected", "coverage_unknown", "flagged"}
      BY <1>3, <2>3 DEF FlagCode, Checks
    <3> QED
      BY <3>1 DEF FlagCodes
  <2> QED
    BY <2>1, <2>2, <2>3
<1> QED
  BY <1>2, <1>3

-----------------------------------------------------------------------------
(* The inductive invariant.                                                *)

(* What the evidence and the workspace say of each other: the workspace    *)
(* holds the facts of the two checks that write to it, and a dependent     *)
(* check that came out clean used those facts.                             *)
EvidenceInv ==
    /\ \A c \in Checks : evidence[c].status = "absent" => evidence[c].cost = 0
    /\ \A c \in Resolved(evidence) : Prereqs[c] \subseteq Resolved(evidence)
    /\ evidence["damage_type"].status = "ok" => evidence["damage_type"].cost # 0
    /\ workspace.damage = evidence["damage_type"].cost
    /\ evidence["story_consistency"].status = "ok" =>
         evidence["story_consistency"].cost = workspace.damage
    /\ evidence["story_consistency"].status = "flagged" =>
         evidence["story_consistency"].reason # "none"
    /\ workspace.peril = evidence["claimed_peril"].peril
    /\ evidence["claimed_peril"].status = "ok" <=> evidence["claimed_peril"].peril \in Pools
    /\ evidence["policy_coverage"].status = "ok" =>
         /\ evidence["policy_coverage"].peril = workspace.peril
         /\ evidence["policy_coverage"].peril # "unknown"
         /\ claim.policy # NoPolicy
    /\ evidence["policy_dates"].status = "ok" => claim.policy # NoPolicy

(* The clean ones of the two checks that can raise a soft flag.            *)
OkSoft ==
    (IF evidence["claimed_peril"].status = "ok" THEN 1 ELSE 0)
    + (IF evidence["policy_coverage"].status = "ok" THEN 1 ELSE 0)

StartInv == pc = "start" => Resolved(evidence) = {} /\ replans = 0

(* The planner and the executor see soft flags only: every replan so far   *)
(* has cleaned one of the two soft checks.  There is a replan left for     *)
(* them, unless there is but one and it is used up.                        *)
InvestigatingInv ==
    pc \in {"planner", "executor"} =>
        /\ \A c \in Flagged(evidence) : ~IsHard(c, evidence[c]) /\ MaxReplans > 0
        /\ Flagged(evidence) # {} /\ MaxReplans # 1 => replans < MaxReplans
        /\ replans <= OkSoft

PlannedInv ==
    pc = "executor" =>
        /\ planNext \in Checks
        /\ evidence[planNext].status # "ok"
        /\ Prereqs[planNext] \subseteq Resolved(evidence)

(* At the verifier the item just gathered may be anything.                 *)
VerifyingInv ==
    pc = "verifier" =>
        /\ planNext \in Resolved(evidence)
        /\ \A c \in Flagged(evidence) \ {planNext} :
              ~IsHard(c, evidence[c]) /\ MaxReplans > 0
        /\ IF unproductive THEN planNext \in Flagged(evidence) ELSE replans <= OkSoft

DecidedInv ==
    /\ pc \in {"adjudicate", "adjudicated"} =>
         /\ Resolved(evidence) = Checks
         /\ \A c \in Flagged(evidence) : ~IsHard(c, evidence[c]) /\ c = "policy_coverage"
         /\ MaxReplans # 1 => Flagged(evidence) = {}
    /\ pc = "adjudicated" /\ claim.live => rows = PersistedRows(evidence)

IInv ==
    /\ TypeOK
    /\ EvidenceInv
    /\ StartInv
    /\ InvestigatingInv
    /\ PlannedInv
    /\ VerifyingInv
    /\ DecidedInv

LEMMA InitIInv == Init => IInv
<1> SUFFICES ASSUME Init PROVE IInv
  OBVIOUS
<1>1. TypeOK
  <2>1. NoRows \in PoolCosts
    BY DEF NoRows, PoolCosts
  <2>2. rows \in PoolCosts /\ claim.policy \in PolicyRow \cup {NoPolicy}
    BY <2>1, PEVAssumption DEF Init
  <2>3. Undecided \in Outcomes
    BY DEF Undecided, Outcomes
  <2>4. claim \in [usable : BOOLEAN, live : BOOLEAN, story : Stories,
                   policy : PolicyRow \cup {NoPolicy}]
    BY PEVAssumption DEF Init
  <2> QED
    BY <2>2, <2>3, <2>4, ItemTypes DEF Init, TypeOK, Perils, RunReasons
<1>2. /\ \A c \in Checks : evidence[c] = Absent
      /\ Resolved(evidence) = {} /\ Flagged(evidence) = {}
      /\ workspace.damage = 0 /\ workspace.peril = "unknown"
      /\ pc = "start"
  BY DEF Init, Absent, Resolved, Flagged
<1>3. EvidenceInv
  BY <1>2 DEF EvidenceInv, Absent, Checks, Pools
<1> QED
  BY <1>1, <1>2, <1>3
     DEF IInv, StartInv, InvestigatingInv, PlannedInv, VerifyingInv, DecidedInv, Init

-----------------------------------------------------------------------------
(* The executor: the only step that touches evidence and workspace.        *)

(* What one executor run does, with the facts of the item it gathered.     *)
LEMMA ExecuteStep ==
    ASSUME IInv, Execute
    PROVE  \E item \in Items :
              /\ ItemFacts(planNext, item)
              /\ evidence' = [evidence EXCEPT ![planNext] = item]
              /\ workspace' = Remember(planNext, item)
              /\ IF planNext \in Resolved(evidence)
                   THEN /\ replans' = replans + 1
                        /\ unproductive' = (evidence[planNext].status = item.status)
                   ELSE replans' = replans /\ unproductive' = FALSE
<1>1. PICK item \in Investigate(planNext) :
        /\ evidence' = [evidence EXCEPT ![planNext] = item]
        /\ workspace' = Remember(planNext, item)
        /\ replans' = IF planNext \in Resolved(evidence) THEN replans + 1 ELSE replans
        /\ unproductive' =
             (planNext \in Resolved(evidence) /\ evidence[planNext].status = item.status)
  BY DEF Execute
<1>2. ItemFacts(planNext, item)
  BY InvestigateFacts DEF IInv, PlannedInv, Execute, Visit
<1>3. item \in Items
  BY <1>2 DEF ItemFacts
<1>4. CASE planNext \in Resolved(evidence)
  BY <1>1, <1>2, <1>3, <1>4
<1>5. CASE planNext \notin Resolved(evidence)
  BY <1>1, <1>2, <1>3, <1>5
<1> QED
  BY <1>4, <1>5

(* The workspace after the check, by the check that ran.                   *)
LEMMA RememberCases ==
    ASSUME NEW check \in Checks, NEW item, workspace \in [damage : Nat, peril : Perils]
    PROVE  /\ Remember(check, item).damage =
                IF item.reason # "error" /\ check = "damage_type" THEN item.cost
                                                                 ELSE workspace.damage
           /\ Remember(check, item).peril =
                IF item.reason # "error" /\ check = "claimed_peril" THEN item.peril
                                                                   ELSE workspace.peril
           /\ item.cost \in Nat /\ item.peril \in Perils =>
                Remember(check, item) \in [damage : Nat, peril : Perils]
<1>1. CASE item.reason # "error" /\ check = "damage_type"
  <2>1. Remember(check, item) = [workspace EXCEPT !.damage = item.cost]
    BY <1>1 DEF Remember
  <2> QED  BY <1>1, <2>1
<1>2. CASE item.reason # "error" /\ check = "claimed_peril"
  <2>1. Remember(check, item) = [workspace EXCEPT !.peril = item.peril]
    BY <1>2 DEF Remember
  <2> QED  BY <1>2, <2>1
<1>3. CASE item.reason = "error" \/ check \notin {"damage_type", "claimed_peril"}
  <2>1. Remember(check, item) = workspace
    BY <1>3 DEF Remember
  <2> QED  BY <1>3, <2>1
<1> QED
  BY <1>1, <1>2, <1>3

LEMMA ExecuteType == IInv /\ Execute => TypeOK'
<1> SUFFICES ASSUME IInv, Execute PROVE TypeOK'
  OBVIOUS
<1>1. planNext \in Checks
  BY DEF IInv, PlannedInv, Execute, Visit
<1>2. PICK item \in Items :
        /\ evidence' = [evidence EXCEPT ![planNext] = item]
        /\ workspace' = Remember(planNext, item)
        /\ IF planNext \in Resolved(evidence)
             THEN /\ replans' = replans + 1
                  /\ unproductive' = (evidence[planNext].status = item.status)
             ELSE replans' = replans /\ unproductive' = FALSE
  BY ExecuteStep
<1>3. evidence' \in [Checks -> Items]
  BY <1>1, <1>2 DEF IInv, TypeOK
<1>4. workspace' \in [damage : Nat, peril : Perils]
  BY <1>1, <1>2, RememberCases DEF IInv, TypeOK, Items
<1>5. replans' \in Nat
  BY <1>2 DEF IInv, TypeOK
<1>6. unproductive' \in BOOLEAN
  BY <1>2, Zenon
<1>7. executed' \in [Checks -> Nat] /\ toolCalls' \in Nat /\ visits' \in Nat
  BY <1>1 DEF Execute, Visit, IInv, TypeOK
<1> QED
  BY <1>3, <1>4, <1>5, <1>6, <1>7 DEF Execute, Visit, IInv, TypeOK, Nodes

LEMMA ExecuteEvidence == IInv /\ Execute => EvidenceInv'
<1> SUFFICES ASSUME IInv, Execute PROVE EvidenceInv'
  OBVIOUS
<1>1. /\ planNext \in Checks
      /\ evidence[planNext].status # "ok"
      /\ Prereqs[planNext] \subseteq Resolved(evidence)
      /\ \A c \in Flagged(evidence) : ~IsHard(c, evidence[c])
      /\ claim' = claim
  BY DEF IInv, PlannedInv, InvestigatingInv, Execute, Visit
<1>2. PICK item \in Items :
        /\ ItemFacts(planNext, item)
        /\ evidence' = [evidence EXCEPT ![planNext] = item]
        /\ workspace' = Remember(planNext, item)
  BY ExecuteStep
<1>3. /\ evidence \in [Checks -> Items]
      /\ workspace \in [damage : Nat, peril : Perils]
      /\ EvidenceInv
  BY DEF IInv, TypeOK
<1>4. /\ evidence'[planNext] = item
      /\ \A c \in Checks \ {planNext} : evidence'[c] = evidence[c]
  BY <1>1, <1>2, <1>3
<1>5. Resolved(evidence)' = Resolved(evidence) \cup {planNext}
  BY <1>1, <1>2, <1>4 DEF Resolved, ItemFacts
<1>6. /\ workspace'.damage = IF item.reason # "error" /\ planNext = "damage_type"
                               THEN item.cost ELSE workspace.damage
      /\ workspace'.peril = IF item.reason # "error" /\ planNext = "claimed_peril"
                              THEN item.peril ELSE workspace.peril
  BY <1>1, <1>2, <1>3, RememberCases
(* Only the two soft checks can have been gathered before.                 *)
<1>7. planNext \notin {"claimed_peril", "policy_coverage"} => evidence[planNext].status = "absent"
  <2>1. evidence[planNext].status = "flagged" => planNext \in Flagged(evidence)
    BY <1>1 DEF Flagged
  <2>2. evidence[planNext].status \in {"absent", "ok", "flagged"}
    BY <1>1, <1>3 DEF Items
  <2> QED
    BY <1>1, <2>1, <2>2 DEF IsHard
<1>8. \A c \in Checks : evidence'[c].status = "absent" => evidence'[c].cost = 0
  BY <1>2, <1>3, <1>4 DEF EvidenceInv, ItemFacts
<1>9. \A c \in Resolved(evidence)' : Prereqs[c] \subseteq Resolved(evidence)'
  BY <1>1, <1>3, <1>5 DEF EvidenceInv
<1>10. (evidence["damage_type"].status = "ok" => evidence["damage_type"].cost # 0)'
  BY <1>2, <1>3, <1>4 DEF EvidenceInv, ItemFacts, Checks
<1>11. (workspace.damage = evidence["damage_type"].cost)'
  <2>1. CASE planNext = "damage_type"
    BY <1>2, <1>3, <1>4, <1>6, <1>7, <2>1 DEF EvidenceInv, ItemFacts, Checks
  <2>2. CASE planNext # "damage_type"
    BY <1>3, <1>4, <1>6, <2>2 DEF EvidenceInv, Checks
  <2> QED
    BY <2>1, <2>2
<1>12. (evidence["story_consistency"].status = "ok" =>
          evidence["story_consistency"].cost = workspace.damage)'
  <2>1. CASE planNext = "story_consistency"
    BY <1>2, <1>4, <1>6, <2>1 DEF ItemFacts
  <2>2. CASE planNext = "damage_type"
    <3>1. "damage_type" \notin Resolved(evidence)
      BY <1>7, <2>2 DEF Resolved
    <3>2. "story_consistency" \notin Resolved(evidence)
      BY <1>3, <3>1, PrereqValues DEF EvidenceInv
    <3> QED
      BY <1>4, <2>2, <3>2 DEF Resolved, Checks
  <2>3. CASE planNext \notin {"story_consistency", "damage_type"}
    BY <1>3, <1>4, <1>6, <2>3 DEF EvidenceInv, Checks
  <2> QED
    BY <2>1, <2>2, <2>3
<1>13. (evidence["story_consistency"].status = "flagged" =>
          evidence["story_consistency"].reason # "none")'
  BY <1>2, <1>3, <1>4 DEF EvidenceInv, ItemFacts, Checks
<1>14. (workspace.peril = evidence["claimed_peril"].peril)'
  <2>1. CASE planNext = "claimed_peril"
    <3>1. workspace.peril = "unknown"
      BY <1>1, <1>3, <2>1 DEF EvidenceInv, Perils
    <3> QED
      BY <1>2, <1>4, <1>6, <2>1, <3>1 DEF ItemFacts
  <2>2. CASE planNext # "claimed_peril"
    BY <1>3, <1>4, <1>6, <2>2 DEF EvidenceInv, Checks
  <2> QED
    BY <2>1, <2>2
<1>15. (evidence["claimed_peril"].status = "ok" <=> evidence["claimed_peril"].peril \in Pools)'
  BY <1>2, <1>3, <1>4 DEF EvidenceInv, ItemFacts, Checks
<1>16. (evidence["policy_coverage"].status = "ok" =>
          /\ evidence["policy_coverage"].peril = workspace.peril
          /\ evidence["policy_coverage"].peril # "unknown"
          /\ claim.policy # NoPolicy)'
  <2>1. CASE planNext = "policy_coverage"
    BY <1>1, <1>2, <1>4, <1>6, <2>1 DEF ItemFacts
  <2>2. CASE planNext = "claimed_peril"
    <3>1. evidence["policy_coverage"].status # "ok"
      BY <1>1, <1>3, <2>2 DEF EvidenceInv, Perils
    <3> QED
      BY <1>4, <2>2, <3>1 DEF Checks
  <2>3. CASE planNext \notin {"policy_coverage", "claimed_peril"}
    BY <1>1, <1>3, <1>4, <1>6, <2>3 DEF EvidenceInv, Checks
  <2> QED
    BY <2>1, <2>2, <2>3
<1>17. (evidence["policy_dates"].status = "ok" => claim.policy # NoPolicy)'
  BY <1>1, <1>2, <1>3, <1>4 DEF EvidenceInv, ItemFacts, Checks
<1> QED
  BY <1>8, <1>9, <1>10, <1>11, <1>12, <1>13, <1>14, <1>15, <1>16, <1>17 DEF EvidenceInv

(* After the executor the verifier's part of the invariant holds: a rerun  *)
(* either cleaned its check or is marked unproductive.                     *)
LEMMA ExecuteVerifying == IInv /\ Execute => VerifyingInv'
<1> SUFFICES ASSUME IInv, Execute PROVE VerifyingInv'
  OBVIOUS
<1>1. /\ planNext \in Checks
      /\ evidence[planNext].status # "ok"
      /\ \A c \in Flagged(evidence) : ~IsHard(c, evidence[c]) /\ MaxReplans > 0
      /\ replans <= OkSoft
      /\ planNext' = planNext
  BY DEF IInv, PlannedInv, InvestigatingInv, Execute, Visit
<1>2. PICK item \in Items :
        /\ ItemFacts(planNext, item)
        /\ evidence' = [evidence EXCEPT ![planNext] = item]
        /\ IF planNext \in Resolved(evidence)
             THEN /\ replans' = replans + 1
                  /\ unproductive' = (evidence[planNext].status = item.status)
             ELSE replans' = replans /\ unproductive' = FALSE
  BY ExecuteStep
<1>3. evidence \in [Checks -> Items] /\ replans \in Nat
  BY DEF IInv, TypeOK
<1>4. /\ evidence'[planNext] = item
      /\ \A c \in Checks \ {planNext} : evidence'[c] = evidence[c]
      /\ evidence[planNext].status \in {"absent", "ok", "flagged"}
      /\ item.status \in {"ok", "flagged"}
  BY <1>1, <1>2, <1>3 DEF Items, ItemFacts
<1>5. planNext' \in Resolved(evidence)'
  BY <1>1, <1>4 DEF Resolved
<1>6. \A c \in Flagged(evidence)' \ {planNext'} : ~IsHard(c, evidence'[c]) /\ MaxReplans > 0
  <2> SUFFICES ASSUME NEW c \in Flagged(evidence)' \ {planNext'}
               PROVE  ~IsHard(c, evidence'[c]) /\ MaxReplans > 0
    OBVIOUS
  <2>1. c \in Flagged(evidence) /\ evidence'[c] = evidence[c]
    BY <1>1, <1>4 DEF Flagged
  <2>2. ~IsHard(c, evidence[c]) /\ MaxReplans > 0
    BY <1>1, <2>1
  <2> QED
    BY <1>3, <2>1, <2>2, PEVAssumption
<1>7. CASE planNext \notin Resolved(evidence)
  <2>1. OkSoft' >= OkSoft
    BY <1>1, <1>4 DEF OkSoft, Checks
  <2>2. OkSoft \in Nat /\ OkSoft' \in Nat
    BY DEF OkSoft
  <2>3. replans' <= OkSoft' /\ unproductive' = FALSE
    BY <1>1, <1>2, <1>3, <1>7, <2>1, <2>2
  <2> QED
    BY <1>5, <1>6, <2>3 DEF VerifyingInv
<1>8. CASE planNext \in Resolved(evidence)
  <2>1. evidence[planNext].status = "flagged"
    BY <1>1, <1>4, <1>8 DEF Resolved
  <2>2. planNext \in {"claimed_peril", "policy_coverage"}
    BY <1>1, <2>1 DEF Flagged, IsHard
  <2>3. CASE item.status = "ok"
    <3>1. OkSoft' = OkSoft + 1
      BY <1>4, <2>1, <2>2, <2>3 DEF OkSoft, Checks
    <3>2. OkSoft \in Nat
      BY DEF OkSoft
    <3>3. replans' <= OkSoft'
      BY <1>1, <1>2, <1>3, <1>8, <3>1, <3>2
    <3>4. ~unproductive'
      BY <1>2, <1>8, <2>1, <2>3, Zenon
    <3> QED
      BY <1>5, <1>6, <3>3, <3>4 DEF VerifyingInv
  <2>4. CASE item.status = "flagged"
    <3>1. planNext' \in Flagged(evidence)' /\ unproductive'
      BY <1>1, <1>2, <1>4, <1>8, <2>1, <2>4 DEF Flagged
    <3> QED
      BY <1>5, <1>6, <3>1 DEF VerifyingInv
  <2> QED
    BY <1>4, <2>3, <2>4
<1> QED
  BY <1>7, <1>8

-----------------------------------------------------------------------------
(* The other steps leave evidence and workspace alone.                     *)

LEMMA EvidenceUnchanged ==
    ASSUME EvidenceInv, evidence' = evidence, workspace' = workspace, claim' = claim
    PROVE  EvidenceInv'
  BY DEF EvidenceInv, Resolved

LEMMA PlanCheckIInv ==
    ASSUME IInv, Visit("planner"), NEW check \in Checks, Plan(check),
           evidence[check].status # "ok", Prereqs[check] \subseteq Resolved(evidence)
    PROVE  IInv'
<1>1. TypeOK'
  BY DEF IInv, TypeOK, Visit, Plan, loopVars, Nodes
<1>2. EvidenceInv'
  BY EvidenceUnchanged DEF IInv, Visit, Plan, loopVars
<1>3. InvestigatingInv' /\ PlannedInv'
  BY DEF IInv, InvestigatingInv, PlannedInv, Visit, Plan, loopVars, OkSoft, Flagged, Resolved
<1>4. StartInv' /\ VerifyingInv' /\ DecidedInv'
  BY DEF StartInv, VerifyingInv, DecidedInv, Plan
<1> QED
  BY <1>1, <1>2, <1>3, <1>4 DEF IInv

LEMMA PlanNextCheckIInv == IInv /\ PlanNextCheck => IInv'
<1> SUFFICES ASSUME IInv, PlanNextCheck PROVE IInv'
  OBVIOUS
<1>1. PICK check \in Available(evidence) : Plan(check)
  BY DEF PlanNextCheck
<1>2. /\ check \in Checks /\ Prereqs[check] \subseteq Resolved(evidence)
      /\ evidence[check].status # "ok"
  BY <1>1 DEF Available, Resolved
<1> QED
  BY <1>1, <1>2, PlanCheckIInv DEF PlanNextCheck

LEMMA PlanReplanIInv == IInv /\ PlanReplan => IInv'
<1> SUFFICES ASSUME IInv, PlanReplan PROVE IInv'
  OBVIOUS
<1>1. PICK check \in Retryable(evidence) : Plan(check)
  BY DEF PlanReplan
<1>2. /\ check \in Checks /\ evidence[check].status # "ok" /\ check \in Resolved(evidence)
  BY <1>1 DEF Retryable, Flagged, Resolved
<1>3. Prereqs[check] \subseteq Resolved(evidence)
  BY <1>2 DEF IInv, EvidenceInv
<1> QED
  BY <1>1, <1>2, <1>3, PlanCheckIInv DEF PlanReplan

(* With nothing left to run every check has been resolved: the first       *)
(* unresolved check of each chain of prerequisites would be available.     *)
LEMMA NothingAvailable ==
    ASSUME Available(evidence) = {}
    PROVE  Resolved(evidence) = Checks
<1>1. \A c \in Checks : Prereqs[c] \subseteq Resolved(evidence) => c \in Resolved(evidence)
  BY DEF Available
<1>2. /\ "image_quality" \in Resolved(evidence)
      /\ "claimed_peril" \in Resolved(evidence)
      /\ "policy_dates" \in Resolved(evidence)
  BY <1>1, PrereqValues DEF Checks
<1>3. /\ "damage_type" \in Resolved(evidence)
      /\ "policy_coverage" \in Resolved(evidence)
  BY <1>1, <1>2, PrereqValues DEF Checks
<1>4. "story_consistency" \in Resolved(evidence)
  BY <1>1, <1>3, PrereqValues DEF Checks
<1> QED
  BY <1>2, <1>3, <1>4 DEF Checks, Resolved

(* The clean items are those that are neither absent nor flagged.          *)
LEMMA CleanItems ==
    ASSUME TypeOK
    PROVE  Clean(evidence) = Resolved(evidence) \ Flagged(evidence)
<1>1. \A c \in Checks : evidence[c].status \in {"absent", "ok", "flagged"}
  BY DEF TypeOK, Items
<1> QED
  BY <1>1 DEF Clean, Resolved, Flagged

(* A vague peril is retried first: while it is flagged nothing has been    *)
(* cleaned by a replan yet, the coverage of an unknown peril least of all. *)
LEMMA VaguePeril ==
    ASSUME TypeOK, EvidenceInv, "claimed_peril" \in Flagged(evidence)
    PROVE  OkSoft = 0
<1>1. evidence["claimed_peril"].status = "flagged"
  BY DEF Flagged
<1>2. workspace.peril = evidence["claimed_peril"].peril /\ workspace.peril \notin Pools
  BY <1>1 DEF EvidenceInv
<1>3. evidence["policy_coverage"].status # "ok"
  BY <1>2 DEF TypeOK, Perils, EvidenceInv
<1> QED
  BY <1>1, <1>3 DEF OkSoft

(* The planner's sufficient branch finds clean evidence, but for the       *)
(* coverage when a single replan went to the peril it waited for.          *)
LEMMA SufficientIsClean ==
    ASSUME IInv, PlanSufficient
    PROVE  /\ Resolved(evidence) = Checks
           /\ \A c \in Flagged(evidence) : ~IsHard(c, evidence[c]) /\ c = "policy_coverage"
           /\ MaxReplans # 1 => Flagged(evidence) = {}
<1>1. Resolved(evidence) = Checks
  BY NothingAvailable DEF PlanSufficient
<1>2. replans \in Nat /\ MaxReplans \in Nat /\ replans <= OkSoft
  BY PEVAssumption DEF IInv, TypeOK, InvestigatingInv, PlanSufficient, Visit
<1>3. ASSUME NEW c \in Flagged(evidence)
      PROVE  ~IsHard(c, evidence[c]) /\ c = "policy_coverage" /\ MaxReplans = 1
  <2>1. /\ ~IsHard(c, evidence[c]) /\ MaxReplans > 0
        /\ MaxReplans # 1 => replans < MaxReplans
    BY <1>3 DEF IInv, InvestigatingInv, PlanSufficient, Visit
  <2>2. replans >= MaxReplans
    BY <1>3, <2>1 DEF PlanSufficient, Retryable
  <2>3. c \in {"claimed_peril", "policy_coverage"}
    BY <2>1 DEF IsHard
  <2>4. c # "claimed_peril"
    <3> SUFFICES ASSUME c = "claimed_peril" PROVE FALSE
      OBVIOUS
    <3>1. OkSoft = 0
      BY <1>3, VaguePeril DEF IInv
    <3> QED
      BY <1>2, <2>1, <2>2, <3>1
  <2> QED
    BY <1>2, <2>1, <2>2, <2>3, <2>4
<1> QED
  BY <1>1, <1>3

LEMMA PlanSufficientIInv == IInv /\ PlanSufficient => IInv'
<1> SUFFICES ASSUME IInv, PlanSufficient PROVE IInv'
  OBVIOUS
<1>1. TypeOK'
  BY DEF IInv, TypeOK, PlanSufficient, Visit, loopVars, Nodes
<1>2. EvidenceInv'
  BY EvidenceUnchanged DEF IInv, PlanSufficient, Visit, loopVars
<1>3. StartInv' /\ InvestigatingInv' /\ PlannedInv' /\ VerifyingInv' /\ DecidedInv'
  BY SufficientIsClean DEF StartInv, InvestigatingInv, PlannedInv, VerifyingInv, DecidedInv,
                           PlanSufficient, loopVars, Resolved, Flagged
<1> QED
  BY <1>1, <1>2, <1>3 DEF IInv

LEMMA ExecuteIInv == IInv /\ Execute => IInv'
<1> SUFFICES ASSUME IInv, Execute PROVE IInv'
  OBVIOUS
<1>1. StartInv' /\ InvestigatingInv' /\ PlannedInv' /\ DecidedInv'
  BY DEF StartInv, InvestigatingInv, PlannedInv, DecidedInv, Execute
<1> QED
  BY <1>1, ExecuteType, ExecuteEvidence, ExecuteVerifying DEF IInv

(* The verifier's early returns, read one decision at a time.              *)
LEMMA VerdictCases ==
    ASSUME NEW item
    PROVE  LET verdict == Verdict(item)
           IN  /\ verdict.next \in {"escalate", "adjudicate", "planner"}
               /\ verdict.reasons \subseteq
                     {FlagCode(planNext, item), "missing_evidence", "unproductive_repeat",
                      "replan_limit", "tool_call_limit"}
               /\ verdict.next # "escalate" =>
                     /\ item.status = "flagged" =>
                          ~IsHard(planNext, item) /\ ~(replans >= MaxReplans)
                     /\ ~unproductive
                     /\ verdict.reasons = {}
               /\ verdict.next = "adjudicate" => AllRequiredOk(evidence)
  BY DEF Verdict

(* The verifier sends the run on only with soft flags that have a replan   *)
(* left, unless the budget is one: the replan that cleaned one of two soft *)
(* checks then leaves none for the other.                                  *)
LEMMA VerifyIInv == IInv /\ Verify => IInv'
<1> SUFFICES ASSUME IInv, Verify PROVE IInv'
  OBVIOUS
<1> DEFINE item    == evidence[planNext]
           verdict == Verdict(item)
<1>1. /\ planNext \in Resolved(evidence)
      /\ \A c \in Flagged(evidence) \ {planNext} :
            ~IsHard(c, evidence[c]) /\ MaxReplans > 0
      /\ IF unproductive THEN planNext \in Flagged(evidence) ELSE replans <= OkSoft
  BY DEF IInv, VerifyingInv, Verify, Visit
<1>2. /\ pc' = verdict.next
      /\ reasons' = reasons \cup verdict.reasons
      /\ UNCHANGED <<loopVars, planNext, outcome, rows, claim>>
      /\ visits' = visits + 1
  BY DEF Verify, Visit
<1>3. planNext \in Checks /\ item \in Items
  BY <1>1 DEF Resolved, IInv, TypeOK
<1>4. verdict.next \in {"escalate", "adjudicate", "planner"}
  BY VerdictCases
<1>5. TypeOK'
  <2>1. planNext = "story_consistency" /\ item.status = "flagged" => item.reason # "none"
    BY DEF IInv, EvidenceInv
  <2>2. verdict.reasons \subseteq RunReasons
    <3>1. CASE item.status = "flagged"
      <4>1. FlagCode(planNext, item) \in FlagCodes
        BY <1>3, <2>1, <3>1, FlagCodeType
      <4> HIDE DEF item, verdict
      <4> QED
        BY <4>1, VerdictCases DEF RunReasons, verdict
    <3>2. CASE item.status # "flagged"
      <4>1. verdict.reasons \subseteq {"unproductive_repeat", "replan_limit", "tool_call_limit"}
        BY <3>2 DEF Verdict
      <4> QED
        BY <4>1 DEF RunReasons
    <3> QED
      BY <3>1, <3>2
  <2>3. pc' \in Nodes
    BY <1>2, <1>4 DEF Nodes
  <2> HIDE DEF item, verdict
  <2> QED
    BY <1>2, <2>2, <2>3 DEF IInv, TypeOK, loopVars
<1>6. EvidenceInv'
  BY <1>2, EvidenceUnchanged DEF IInv, loopVars
<1>7. StartInv' /\ PlannedInv' /\ VerifyingInv'
  BY <1>2, <1>4 DEF StartInv, PlannedInv, VerifyingInv
<1>8. InvestigatingInv'
  <2> SUFFICES ASSUME pc' = "planner"
               PROVE  /\ \A c \in Flagged(evidence) :
                            ~IsHard(c, evidence[c]) /\ MaxReplans > 0
                      /\ Flagged(evidence) # {} /\ MaxReplans # 1 => replans < MaxReplans
                      /\ replans <= OkSoft
    BY <1>2, <1>4 DEF InvestigatingInv, loopVars, Flagged, OkSoft
  <2>1. /\ item.status = "flagged" =>
             ~IsHard(planNext, item) /\ ~(replans >= MaxReplans)
        /\ ~unproductive
    BY <1>2, VerdictCases
  <2>2. replans \in Nat /\ MaxReplans \in Nat /\ replans <= OkSoft
    BY <1>1, <2>1, PEVAssumption DEF IInv, TypeOK
  <2>3. ASSUME NEW c \in Flagged(evidence)
        PROVE  /\ ~IsHard(c, evidence[c])
               /\ MaxReplans > 0
               /\ MaxReplans # 1 => replans < MaxReplans
    <3>1. CASE c = planNext
      BY <2>1, <2>2, <3>1 DEF Flagged
    <3>2. CASE c # planNext
      <4>1. ~IsHard(c, evidence[c]) /\ MaxReplans > 0
        BY <1>1, <3>2
      <4>2. c \in {"claimed_peril", "policy_coverage"} /\ evidence[c].status = "flagged"
        BY <4>1 DEF IsHard, Flagged
      <4>3. OkSoft <= 1
        BY <4>2 DEF OkSoft
      <4>4. OkSoft \in Nat
        BY DEF OkSoft
      <4> QED
        BY <2>2, <4>1, <4>3, <4>4
    <3> QED
      BY <3>1, <3>2
  <2> QED
    BY <2>2, <2>3
<1>9. DecidedInv'
  <2> SUFFICES ASSUME pc' = "adjudicate"
               PROVE  Resolved(evidence) = Checks /\ Flagged(evidence) = {}
    BY <1>2, <1>4 DEF DecidedInv, loopVars, Resolved, Flagged
  <2> QED
    BY <1>2, VerdictCases DEF AllRequiredOk
<1> QED
  BY <1>5, <1>6, <1>7, <1>8, <1>9 DEF IInv

LEMMA BeginIInv == IInv /\ (Begin \/ RejectInput) => IInv'
<1> SUFFICES ASSUME IInv, Begin \/ RejectInput PROVE IInv'
  OBVIOUS
<1>1. /\ UNCHANGED <<loopVars, claim, planNext, visits, rows>>
      /\ pc = "start" /\ pc' \in {"planner", "handed_over"}
      /\ reasons' \in {reasons, {"invalid_claim_input"}}
      /\ outcome' \in {outcome, [Undecided EXCEPT !.route = "escalate"]}
  BY DEF Begin, RejectInput
<1>2. [Undecided EXCEPT !.route = "escalate"] \in Outcomes
  BY DEF Undecided, Outcomes, Routes
<1>3. TypeOK'
  BY <1>1, <1>2 DEF IInv, TypeOK, loopVars, Nodes, Ended, RunReasons
<1>4. EvidenceInv'
  BY <1>1, EvidenceUnchanged DEF IInv, loopVars
<1>5. InvestigatingInv'
  <2>1. Flagged(evidence) = {} /\ replans = 0
    BY <1>1 DEF IInv, StartInv, Resolved, Flagged
  <2>2. OkSoft >= 0
    BY DEF OkSoft
  <2> QED
    BY <1>1, <2>1, <2>2 DEF InvestigatingInv, loopVars, OkSoft, Flagged
<1>6. StartInv' /\ PlannedInv' /\ VerifyingInv' /\ DecidedInv'
  BY <1>1 DEF StartInv, PlannedInv, VerifyingInv, DecidedInv
<1> QED
  BY <1>3, <1>4, <1>5, <1>6 DEF IInv

LEMMA PersistedRowsType ==
    ASSUME TypeOK
    PROVE  RowsToPrice \in PoolCosts
<1>1. evidence["damage_type"].cost \in Nat /\ rows \in PoolCosts
  BY DEF TypeOK, Items, Checks
<1> QED
  BY <1>1 DEF RowsToPrice, PersistedRows, PoolCosts

LEMMA PerceptionConfidenceType ==
    ASSUME TypeOK
    PROVE  PerceptionConfidence(evidence) \in Nat
  BY DEF TypeOK, Items, Checks, PerceptionConfidence

LEMMA AdjudicateIInv == IInv /\ Adjudicate => IInv'
<1> SUFFICES ASSUME IInv, Adjudicate PROVE IInv'
  OBVIOUS
<1> DEFINE confidence == PerceptionConfidence(evidence)
           result     == ComputePayout(claim.policy, RowsToPrice, confidence)
<1>1. /\ pc = "adjudicate" /\ pc' = "adjudicated"
      /\ claim.policy # NoPolicy
      /\ visits' = visits + 1
      /\ rows' = RowsToPrice
      /\ UNCHANGED <<loopVars, planNext, claim>>
      /\ outcome' = [route |-> result.route, payout |-> result.payout,
                     deductible |-> result.deductible, confidence |-> confidence]
      /\ reasons' = reasons \cup result.reasons
  BY DEF Adjudicate, Visit
<1>2. /\ RowsToPrice \in PoolCosts /\ confidence \in Nat /\ claim.policy \in PolicyRow
  BY <1>1, PersistedRowsType, PerceptionConfidenceType DEF IInv, TypeOK
<1>3. result \in PayoutResult
  BY <1>2, PayoutType
<1>4. outcome' \in Outcomes /\ reasons' \subseteq RunReasons
  <2> HIDE DEF result, confidence
  <2> QED
    BY <1>1, <1>2, <1>3 DEF PayoutResult, Outcomes, RunReasons, IInv, TypeOK
<1>5. TypeOK'
  BY <1>1, <1>2, <1>4 DEF IInv, TypeOK, loopVars, Ended
<1>6. EvidenceInv'
  BY <1>1, EvidenceUnchanged DEF IInv, loopVars
<1>7. DecidedInv'
  <2>1. /\ (Resolved(evidence) = Checks)'
        /\ (\A c \in Flagged(evidence) : ~IsHard(c, evidence[c]) /\ c = "policy_coverage")'
        /\ (MaxReplans # 1 => Flagged(evidence) = {})'
    BY <1>1 DEF IInv, DecidedInv, Resolved, Flagged, loopVars
  <2>2. claim.live => rows' = PersistedRows(evidence)
    BY <1>1 DEF RowsToPrice
  <2>3. evidence["damage_type"].cost # 0
    <3>1. "damage_type" \in Clean(evidence)
      BY <1>1, CleanItems DEF IInv, DecidedInv, Checks
    <3> QED
      BY <3>1 DEF IInv, EvidenceInv, Clean
  <2>4. PersistedRows(evidence)' = PersistedRows(evidence)
    BY <1>1, <2>3 DEF PersistedRows, BilledPool, loopVars
  <2> QED
    BY <1>1, <2>1, <2>2, <2>4 DEF DecidedInv
<1>8. StartInv' /\ InvestigatingInv' /\ PlannedInv' /\ VerifyingInv'
  BY <1>1 DEF StartInv, InvestigatingInv, PlannedInv, VerifyingInv
<1> QED
  BY <1>5, <1>6, <1>7, <1>8 DEF IInv

(* The steps after which nothing more happens to the claim.                *)
LEMMA LastStepIInv ==
    IInv /\ (AdjudicateRaises \/ EscalateTerminal \/ RecursionError) => IInv'
<1> SUFFICES ASSUME IInv, AdjudicateRaises \/ EscalateTerminal \/ RecursionError
             PROVE  IInv'
  OBVIOUS
<1>1. /\ UNCHANGED <<loopVars, claim, planNext, reasons>>
      /\ pc' \in {"raised", "handed_over"}
      /\ visits' \in {visits, visits + 1}
      /\ rows' \in {rows, RowsToPrice}
      /\ outcome' \in {outcome, [Undecided EXCEPT !.route = "escalate",
                                     !.confidence = PerceptionConfidence(evidence)]}
  BY DEF AdjudicateRaises, EscalateTerminal, RecursionError, Visit
<1>2. [Undecided EXCEPT !.route = "escalate",
                        !.confidence = PerceptionConfidence(evidence)] \in Outcomes
  BY PerceptionConfidenceType DEF IInv, Undecided, Outcomes, Routes
<1>3. TypeOK'
  BY <1>1, <1>2, PersistedRowsType DEF IInv, TypeOK, loopVars, Ended
<1>4. EvidenceInv'
  BY <1>1, EvidenceUnchanged DEF IInv, loopVars
<1>5. StartInv' /\ InvestigatingInv' /\ PlannedInv' /\ VerifyingInv' /\ DecidedInv'
  BY <1>1 DEF StartInv, InvestigatingInv, PlannedInv, VerifyingInv, DecidedInv
<1> QED
  BY <1>3, <1>4, <1>5 DEF IInv

LEMMA StutterIInv == IInv /\ UNCHANGED vars => IInv'
<1> SUFFICES ASSUME IInv, UNCHANGED vars PROVE IInv'
  OBVIOUS
<1>1. TypeOK'
  BY DEF IInv, TypeOK, vars
<1>2. EvidenceInv'
  BY EvidenceUnchanged DEF IInv, vars
<1>3. StartInv' /\ InvestigatingInv' /\ PlannedInv' /\ VerifyingInv' /\ DecidedInv'
  BY DEF IInv, StartInv, InvestigatingInv, PlannedInv, VerifyingInv, DecidedInv, vars,
         Resolved, Flagged, OkSoft, Clean, PersistedRows, BilledPool
<1> QED
  BY <1>1, <1>2, <1>3 DEF IInv

LEMMA NextIInv == IInv /\ [Next]_vars => IInv'
  BY PlanNextCheckIInv, PlanReplanIInv, PlanSufficientIInv, ExecuteIInv, VerifyIInv,
     BeginIInv, AdjudicateIInv, LastStepIInv, StutterIInv DEF Next

-----------------------------------------------------------------------------
(* The theorems.                                                           *)

(* Every variable keeps its type through every run, whatever the limits    *)
(* (pev_state.PEVState).                                                   *)
THEOREM TypeCorrect == Spec => []TypeOK
<1>1. IInv => TypeOK
  BY DEF IInv
<1> QED
  BY <1>1, InitIInv, NextIInv, PTL DEF Spec

(* Six clean facts, with any budget of replans but one.                    *)
LEMMA AllClean ==
    ASSUME MaxReplans # 1, IInv, pc \in {"adjudicate", "adjudicated"}
    PROVE  Clean(evidence) = Checks
  BY CleanItems DEF IInv, DecidedInv

(* Money is computed only on six clean facts (pev_nodes.py:171-172).       *)
THEOREM MoneyNeedsCleanEvidence ==
    ASSUME MaxReplans # 1
    PROVE  Spec => []MoneyOnlyOnCleanEvidence
<1>1. IInv => MoneyOnlyOnCleanEvidence
  BY AllClean DEF MoneyOnlyOnCleanEvidence
<1> QED
  BY <1>1, InitIInv, NextIInv, PTL DEF Spec

(* What the engine is given, and what it bills, under any limits.          *)
LEMMA BilledFacts ==
    ASSUME IInv, pc \in {"adjudicate", "adjudicated"}
    PROVE  BilledFactsAreClean
<1>1. /\ Resolved(evidence) = Checks
      /\ \A c \in Flagged(evidence) : ~IsHard(c, evidence[c]) /\ c = "policy_coverage"
  BY DEF IInv, DecidedInv
<1>2. \A c \in Checks \ {"policy_coverage"} : evidence[c].status = "ok"
  <2>1. \A c \in Checks \ {"policy_coverage"} : c \in Clean(evidence)
    BY <1>1, CleanItems DEF IInv
  <2> QED
    BY <2>1 DEF Clean
<1>3. /\ evidence["story_consistency"].cost = evidence["damage_type"].cost
      /\ evidence["damage_type"].cost # 0
      /\ evidence["claimed_peril"].peril \in Pools
      /\ claim.policy # NoPolicy
  BY <1>2 DEF IInv, EvidenceInv, Checks
<1>4. pc = "adjudicated" /\ claim.live => rows = PersistedRows(evidence)
  BY DEF IInv, DecidedInv
<1> QED
  BY <1>1, <1>3, <1>4 DEF BilledFactsAreClean, PersistedRows, BilledPool

(* However the limits are set, they buy no money on a fact that is billed  *)
(* and not clean (pev_state.py:8-12, pev_nodes.py:93-104).                 *)
THEOREM NoLimitBuysMoney == Spec => []BilledFactsAreClean
<1>1. IInv => BilledFactsAreClean
  BY BilledFacts DEF BilledFactsAreClean
<1> QED
  BY <1>1, InitIInv, NextIInv, PTL DEF Spec

(* What is billed is what was vetted: one damage for the story check and   *)
(* the bill, one peril for the coverage check and the pool.                *)
THEOREM BillMatchesVetting ==
    ASSUME MaxReplans # 1
    PROVE  Spec => []PricedFactsAreVettedFacts
<1>1. IInv => PricedFactsAreVettedFacts
  <2> SUFFICES ASSUME IInv, pc = "adjudicated" PROVE PricedFactsAreVettedFacts
    BY DEF PricedFactsAreVettedFacts
  <2>1. evidence["policy_coverage"].status = "ok"
    BY AllClean DEF Clean, Checks
  <2>2. evidence["policy_coverage"].peril = evidence["claimed_peril"].peril
    BY <2>1 DEF IInv, EvidenceInv
  <2> QED
    BY <2>2, BilledFacts DEF BilledFactsAreClean, PricedFactsAreVettedFacts
<1> QED
  BY <1>1, InitIInv, NextIInv, PTL DEF Spec

(* adjudicate_node never meets a claim without a policy, whatever the      *)
(* limits.                                                                 *)
THEOREM AdjudicationHasPolicy == Spec => []AdjudicateHasPolicy
<1>1. IInv => AdjudicateHasPolicy
  BY BilledFacts DEF BilledFactsAreClean, AdjudicateHasPolicy
<1> QED
  BY <1>1, InitIInv, NextIInv, PTL DEF Spec

-----------------------------------------------------------------------------
(* What is counted: tool calls, retries, node visits, and the reasons of a *)
(* hand-over.                                                              *)

(* The limits leave headroom: every check once and two retries, three      *)
(* visits a call and one to decide (pev_state.py:7-9, agent.py:10-11).     *)
Headroom ==
    /\ MaxReplans >= 2
    /\ MaxToolCalls >= 8
    /\ RecursionLimit >= 25

(* A check has been executed exactly when it has an item, and every tool   *)
(* call is the first of a check or a replan.                               *)
CountInv ==
    /\ \A c \in Checks : executed[c] = 0 <=> c \notin Resolved(evidence)
    /\ toolCalls = Cardinality(Resolved(evidence)) + replans

(* Nothing is retried twice: a retry that does not clean its check is      *)
(* marked, and the verifier lets no marked one through.                    *)
OnceInv ==
    /\ pc \in {"planner", "executor"} => \A c \in Flagged(evidence) : executed[c] = 1
    /\ pc = "verifier" =>
         /\ \A c \in Flagged(evidence) \ {planNext} : executed[c] = 1
         /\ planNext \in Flagged(evidence) =>
              IF unproductive THEN executed[planNext] > 1 ELSE executed[planNext] = 1

(* What the budgets have to spare.  Something is open whenever the planner *)
(* is asked, and a soft flag fresh from the executor leaves a replan: the  *)
(* coverage is not flagged again once the peril is known.                  *)
BudgetInv ==
    /\ replans <= 2
    /\ pc = "start" => visits = 0
    /\ pc = "planner" => visits = 3 * toolCalls
    /\ pc = "executor" => visits = 3 * toolCalls + 1
    /\ pc = "verifier" => visits = 3 * toolCalls - 1
    /\ pc \in {"adjudicate", "escalate"} => visits = 3 * toolCalls
    /\ pc \in {"planner", "executor"} => Clean(evidence) # Checks
    /\ pc = "verifier" =>
         \A c \in Flagged(evidence) : ~IsHard(c, evidence[c]) => replans <= 1

LimitReasons == {"tool_call_limit", "replan_limit", "missing_evidence"}

(* Reasons are given at the end only, and no rows are written before.      *)
ReasonInv ==
    /\ pc \in {"start", "planner", "executor", "verifier", "adjudicate"} => reasons = {}
    /\ pc \in {"start", "handed_over"} \cup Nodes => (claim.live => rows = NoRows)
    /\ pc \in {"escalate", "handed_over"} =>
         /\ reasons # {}
         /\ reasons \cap PayoutReasons = {}
         /\ \/ reasons = {"invalid_claim_input"} /\ pc = "handed_over"
            \/ \E c \in Flagged(evidence) :
                 FlagCode(c, evidence[c]) \in reasons \/ executed[c] > 1
    /\ reasons \cap LimitReasons = {}
    /\ pc = "handed_over" => outcome.route = "escalate" /\ outcome.payout = NoAmount

(* One executor run, as the counts see it.                                 *)
LEMMA ExecuteShape ==
    ASSUME IInv, Execute
    PROVE  /\ planNext \in Checks /\ planNext' = planNext
           /\ evidence[planNext].status # "ok"
           /\ evidence'[planNext].status \in {"ok", "flagged"}
           /\ \A c \in Checks \ {planNext} : evidence'[c] = evidence[c]
           /\ Resolved(evidence)' = Resolved(evidence) \cup {planNext}
           /\ IF planNext \in Resolved(evidence)
                THEN /\ evidence[planNext].status = "flagged"
                     /\ replans' = replans + 1
                     /\ unproductive' = (evidence'[planNext].status = "flagged")
                ELSE replans' = replans /\ unproductive' = FALSE
           /\ planNext = "policy_coverage" /\ evidence'[planNext].status = "flagged" =>
                evidence'[planNext].reason = "error" \/ workspace.peril = "unknown"
<1>1. /\ planNext \in Checks /\ planNext' = planNext
      /\ evidence[planNext].status # "ok"
      /\ evidence \in [Checks -> Items]
  BY DEF IInv, PlannedInv, TypeOK, Execute, Visit
<1>2. PICK item \in Items :
        /\ ItemFacts(planNext, item)
        /\ evidence' = [evidence EXCEPT ![planNext] = item]
        /\ IF planNext \in Resolved(evidence)
             THEN /\ replans' = replans + 1
                  /\ unproductive' = (evidence[planNext].status = item.status)
             ELSE replans' = replans /\ unproductive' = FALSE
  BY ExecuteStep
<1>3. /\ evidence'[planNext] = item
      /\ \A c \in Checks \ {planNext} : evidence'[c] = evidence[c]
  BY <1>1, <1>2
<1>4. /\ item.status \in {"ok", "flagged"}
      /\ evidence[planNext].status \in {"absent", "flagged"}
  BY <1>1, <1>2 DEF Items, ItemFacts
<1>5. Resolved(evidence)' = Resolved(evidence) \cup {planNext}
  BY <1>1, <1>3, <1>4 DEF Resolved
<1>6. planNext \in Resolved(evidence) => evidence[planNext].status = "flagged"
  BY <1>4 DEF Resolved
<1>7. planNext = "policy_coverage" /\ item.status = "flagged" =>
        item.reason = "error" \/ workspace.peril = "unknown"
  BY <1>2 DEF ItemFacts
<1>8. CASE planNext \in Resolved(evidence)
  <2>1. replans' = replans + 1 /\ unproductive' = ("flagged" = item.status)
    BY <1>2, <1>6, <1>8
  <2>2. unproductive' = (item.status = "flagged")
    BY <2>1, Zenon
  <2> QED
    BY <1>1, <1>3, <1>4, <1>5, <1>6, <1>7, <1>8, <2>1, <2>2
<1>9. CASE planNext \notin Resolved(evidence)
  BY <1>1, <1>2, <1>3, <1>4, <1>5, <1>7, <1>9
<1> QED
  BY <1>8, <1>9

LEMMA ChecksFinite ==
    /\ IsFiniteSet(Checks) /\ Cardinality(Checks) = 6
    /\ \A S \in SUBSET Checks :
          /\ IsFiniteSet(S) /\ Cardinality(S) \in Nat /\ Cardinality(S) <= 6
          /\ S # Checks => Cardinality(S) <= 5
<1> DEFINE Add(S, c) == IsFiniteSet(S) /\ c \notin S =>
                          IsFiniteSet(S \cup {c}) /\ Cardinality(S \cup {c}) = Cardinality(S) + 1
<1>1. IsFiniteSet({}) /\ Cardinality({}) = 0
  BY FS_EmptySet
<1>2. \A S, c : Add(S, c)
  BY FS_AddElement
<1> DEFINE C1 == {} \cup {"image_quality"}
           C2 == C1 \cup {"damage_type"}
           C3 == C2 \cup {"story_consistency"}
           C4 == C3 \cup {"claimed_peril"}
           C5 == C4 \cup {"policy_coverage"}
           C6 == C5 \cup {"policy_dates"}
<1>3. IsFiniteSet(C1) /\ Cardinality(C1) = 1
  BY <1>1, <1>2
<1>4. IsFiniteSet(C2) /\ Cardinality(C2) = 2
  BY <1>2, <1>3
<1>5. IsFiniteSet(C3) /\ Cardinality(C3) = 3
  BY <1>2, <1>4
<1>6. IsFiniteSet(C4) /\ Cardinality(C4) = 4
  BY <1>2, <1>5
<1>7. IsFiniteSet(C5) /\ Cardinality(C5) = 5
  BY <1>2, <1>6
<1>8. IsFiniteSet(C6) /\ Cardinality(C6) = 6
  BY <1>2, <1>7
<1>9. C6 = Checks
  BY DEF Checks
<1> HIDE DEF C6, Add
<1>10. ASSUME NEW S \in SUBSET Checks
       PROVE  /\ IsFiniteSet(S) /\ Cardinality(S) \in Nat /\ Cardinality(S) <= 6
              /\ S # Checks => Cardinality(S) <= 5
  <2>1. /\ IsFiniteSet(S) /\ Cardinality(S) <= 6
        /\ Cardinality(S) = 6 => S = Checks
    BY <1>8, <1>9, FS_Subset
  <2>2. Cardinality(S) \in Nat
    BY <2>1, FS_CardinalityType
  <2> QED
    BY <2>1, <2>2
<1> QED
  BY <1>8, <1>9, <1>10

LEMMA ExecuteCount == IInv /\ CountInv /\ Execute => CountInv'
<1> SUFFICES ASSUME IInv, CountInv, Execute PROVE CountInv'
  OBVIOUS
<1>1. /\ executed' = [executed EXCEPT ![planNext] = @ + 1] /\ executed \in [Checks -> Nat]
      /\ toolCalls' = toolCalls + 1 /\ toolCalls \in Nat /\ replans \in Nat
  BY DEF Execute, IInv, TypeOK
<1>2. \A c \in Checks : (executed[c] = 0 <=> c \notin Resolved(evidence))'
  BY <1>1, ExecuteShape DEF CountInv
<1>3. Resolved(evidence) \in SUBSET Checks /\ IsFiniteSet(Resolved(evidence))
      /\ Cardinality(Resolved(evidence)) \in Nat
  BY ChecksFinite DEF Resolved
<1>4. CASE planNext \in Resolved(evidence)
  <2>1. Resolved(evidence)' = Resolved(evidence) /\ replans' = replans + 1
    BY <1>4, ExecuteShape
  <2> QED
    BY <1>1, <1>2, <1>3, <2>1 DEF CountInv
<1>5. CASE planNext \notin Resolved(evidence)
  <2>1. Resolved(evidence)' = Resolved(evidence) \cup {planNext} /\ replans' = replans
    BY <1>5, ExecuteShape
  <2>2. Cardinality(Resolved(evidence)') = Cardinality(Resolved(evidence)) + 1
    BY <1>3, <1>5, <2>1, FS_AddElement
  <2> QED
    BY <1>1, <1>2, <1>3, <2>1, <2>2 DEF CountInv
<1> QED
  BY <1>4, <1>5

LEMMA ExecuteOnce == IInv /\ CountInv /\ OnceInv /\ Execute => OnceInv'
<1> SUFFICES ASSUME IInv, CountInv, OnceInv, Execute PROVE OnceInv'
  OBVIOUS
<1>1. /\ executed' = [executed EXCEPT ![planNext] = @ + 1] /\ executed \in [Checks -> Nat]
      /\ pc = "executor" /\ pc' = "verifier"
  BY DEF Execute, Visit, IInv, TypeOK
<1>2. \A c \in Flagged(evidence)' \ {planNext'} : executed'[c] = 1
  BY <1>1, ExecuteShape DEF OnceInv, Flagged
<1>3. CASE planNext \in Resolved(evidence)
  <2>1. /\ executed[planNext] = 1 /\ planNext' = planNext /\ planNext \in Checks
        /\ unproductive' = (evidence'[planNext].status = "flagged")
    BY <1>1, <1>3, ExecuteShape DEF OnceInv, Flagged
  <2>2. executed'[planNext] = 2
    BY <1>1, <2>1
  <2>3. planNext' \in Flagged(evidence)' => unproductive'
    BY <2>1 DEF Flagged
  <2> QED
    BY <1>1, <1>2, <2>1, <2>2, <2>3 DEF OnceInv
<1>4. CASE planNext \notin Resolved(evidence)
  <2>1. /\ executed[planNext] = 0 /\ planNext' = planNext /\ planNext \in Checks
        /\ unproductive' = FALSE
    BY <1>1, <1>4, ExecuteShape DEF CountInv
  <2> QED
    BY <1>1, <1>2, <2>1 DEF OnceInv
<1> QED
  BY <1>3, <1>4

(* Every other step leaves the counts alone, and the verifier sends no     *)
(* marked retry on.                                                        *)
LEMMA CountUnchanged ==
    ASSUME CountInv, evidence' = evidence, executed' = executed, toolCalls' = toolCalls,
           replans' = replans
    PROVE  CountInv'
  BY DEF CountInv, Resolved

LEMMA NextOnce ==
    IInv /\ CountInv /\ OnceInv /\ [Next]_vars => CountInv' /\ OnceInv'
<1> SUFFICES ASSUME IInv, CountInv, OnceInv, [Next]_vars PROVE CountInv' /\ OnceInv'
  OBVIOUS
<1>1. CASE Execute
  BY <1>1, ExecuteCount, ExecuteOnce
<1>2. CASE Verify
  <2> DEFINE item == evidence[planNext]
             verdict == Verdict(item)
  <2>1. /\ UNCHANGED <<loopVars, planNext>> /\ pc' = verdict.next /\ pc = "verifier"
    BY <1>2 DEF Verify, Visit
  <2>2. /\ verdict.next \in {"escalate", "adjudicate", "planner"}
        /\ verdict.next = "planner" => ~unproductive
    BY VerdictCases
  <2>3. CountInv'
    BY <2>1, CountUnchanged DEF loopVars
  <2>4. pc' = "planner" => \A c \in Flagged(evidence) : executed[c] = 1
    BY <2>1, <2>2 DEF OnceInv
  <2> QED
    BY <2>1, <2>2, <2>3, <2>4 DEF OnceInv, loopVars, Flagged
<1>3. CASE Begin \/ RejectInput
  <2>1. /\ UNCHANGED loopVars /\ pc' \in {"planner", "handed_over"} /\ Flagged(evidence) = {}
    BY <1>3 DEF Begin, RejectInput, IInv, StartInv, Flagged, Resolved
  <2> QED
    BY <2>1, CountUnchanged DEF OnceInv, loopVars, Flagged
<1>4. CASE PlanNextCheck \/ PlanReplan
  <2>1. UNCHANGED loopVars /\ pc = "planner" /\ pc' = "executor"
    BY <1>4 DEF PlanNextCheck, PlanReplan, Plan, Visit
  <2> QED
    BY <2>1, CountUnchanged DEF OnceInv, loopVars, Flagged
<1>5. CASE PlanSufficient \/ Adjudicate \/ AdjudicateRaises \/ EscalateTerminal \/ RecursionError
  <2>1. UNCHANGED loopVars /\ pc' \in {"adjudicate"} \cup Ended
    BY <1>5 DEF PlanSufficient, Adjudicate, AdjudicateRaises, EscalateTerminal, RecursionError,
                Ended
  <2> QED
    BY <2>1, CountUnchanged DEF OnceInv, loopVars, Ended
<1>6. CASE UNCHANGED vars
  BY <1>6, CountUnchanged DEF OnceInv, vars, Flagged
<1> QED
  BY <1>1, <1>2, <1>3, <1>4, <1>5, <1>6 DEF Next

LEMMA InitOnce == Init => CountInv /\ OnceInv
<1> SUFFICES ASSUME Init PROVE CountInv /\ OnceInv
  OBVIOUS
<1>1. Resolved(evidence) = {}
  BY DEF Init, Absent, Resolved
<1> QED
  BY <1>1, FS_EmptySet DEF Init, CountInv, OnceInv

-----------------------------------------------------------------------------
(* Under Headroom.                                                         *)

(* Coverage comes out clean only for a peril that did.                     *)
LEMMA SoftChain ==
    ASSUME IInv
    PROVE  /\ OkSoft \in 0..2
           /\ evidence["policy_coverage"].status = "ok" => evidence["claimed_peril"].status = "ok"
           /\ evidence["claimed_peril"].status # "ok" => OkSoft = 0
           /\ evidence["policy_coverage"].status # "ok" => OkSoft <= 1
           /\ workspace.peril = "unknown" => OkSoft = 0
<1>1. /\ evidence["claimed_peril"].peril \in Perils
      /\ workspace.peril = evidence["claimed_peril"].peril
      /\ evidence["claimed_peril"].status = "ok" <=> evidence["claimed_peril"].peril \in Pools
      /\ evidence["policy_coverage"].status = "ok" => workspace.peril # "unknown"
  BY DEF IInv, TypeOK, EvidenceInv, Items, Checks
<1> QED
  BY <1>1 DEF OkSoft, Perils, Pools

(* A soft flag is one of the two soft checks, and not clean.               *)
LEMMA SoftFlag ==
    ASSUME NEW c \in Flagged(evidence), ~IsHard(c, evidence[c])
    PROVE  /\ c \in {"claimed_peril", "policy_coverage"}
           /\ evidence[c].status = "flagged"
           /\ evidence[c].reason # "error"
  BY DEF IsHard, Flagged

LEMMA OpenCheck ==
    ASSUME IInv, Clean(evidence) # Checks
    PROVE  \/ Resolved(evidence) # Checks
           \/ Flagged(evidence) # {}
<1>1. \A c \in Checks : evidence[c].status \in {"absent", "ok", "flagged"}
  BY DEF IInv, TypeOK, Items
<1> QED
  BY <1>1 DEF Clean, Resolved, Flagged

(* Eight calls are never used up while something is open.                  *)
LEMMA CallsLeft ==
    ASSUME IInv, CountInv, BudgetInv
    PROVE  /\ toolCalls \in Nat /\ toolCalls <= 8
           /\ Clean(evidence) # Checks /\ (\A c \in Flagged(evidence) : ~IsHard(c, evidence[c]))
                /\ pc \in {"planner", "executor", "verifier"} => toolCalls <= 7
<1>1. /\ Resolved(evidence) \in SUBSET Checks
      /\ toolCalls = Cardinality(Resolved(evidence)) + replans
      /\ replans \in Nat /\ toolCalls \in Nat /\ replans <= 2
  BY DEF Resolved, CountInv, BudgetInv, IInv, TypeOK
<1>2. toolCalls <= 8
  BY <1>1, ChecksFinite
<1>3. ASSUME Clean(evidence) # Checks, \A c \in Flagged(evidence) : ~IsHard(c, evidence[c]),
             pc \in {"planner", "executor", "verifier"}
      PROVE  toolCalls <= 7
  <2>1. CASE Resolved(evidence) # Checks
    BY <1>1, <2>1, ChecksFinite
  <2>2. CASE Flagged(evidence) # {}
    <3>1. PICK c \in Flagged(evidence) : ~IsHard(c, evidence[c])
      BY <1>3, <2>2
    <3>2. c \in {"claimed_peril", "policy_coverage"} /\ evidence[c].status = "flagged"
      BY <3>1, SoftFlag
    <3>3. OkSoft <= 1 /\ OkSoft \in Nat
      BY <3>2, SoftChain
    <3>4. replans <= 1
      BY <1>1, <1>3, <3>1, <3>3 DEF IInv, InvestigatingInv, BudgetInv
    <3> QED
      BY <1>1, <3>4, ChecksFinite
  <2> QED
    BY <1>3, <2>1, <2>2, OpenCheck
<1> QED
  BY <1>1, <1>2, <1>3

LEMMA ExecuteBudget == IInv /\ CountInv /\ BudgetInv /\ Execute => BudgetInv'
<1> SUFFICES ASSUME IInv, CountInv, BudgetInv, Execute PROVE BudgetInv'
  OBVIOUS
<1>1. /\ pc = "executor" /\ pc' = "verifier"
      /\ toolCalls' = toolCalls + 1 /\ visits' = visits + 1
      /\ toolCalls \in Nat /\ visits \in Nat /\ replans \in Nat
      /\ replans <= OkSoft
      /\ \A c \in Flagged(evidence) : ~IsHard(c, evidence[c])
  BY DEF Execute, Visit, IInv, TypeOK, InvestigatingInv
<1>2. visits' = 3 * toolCalls' - 1
  BY <1>1 DEF BudgetInv
<1>3. CASE planNext \notin Resolved(evidence)
  <2>1. replans' = replans /\ replans' <= 2
    BY <1>1, <1>3, ExecuteShape, SoftChain
  <2>2. ASSUME NEW c \in Flagged(evidence)', ~IsHard(c, evidence[c])'
        PROVE  replans' <= 1
    <3>1. c \in {"claimed_peril", "policy_coverage"}
      BY <2>2 DEF IsHard, Flagged
    <3>2. evidence[c].status # "ok"
      BY <2>2, ExecuteShape DEF Flagged
    <3> QED
      BY <1>1, <2>1, <3>1, <3>2, SoftChain
  <2> QED
    BY <1>1, <1>2, <2>1, <2>2 DEF BudgetInv
<1>4. CASE planNext \in Resolved(evidence)
  <2>1. replans' = replans + 1 /\ planNext \in Flagged(evidence)
    BY <1>4, ExecuteShape DEF Flagged
  <2>2. planNext \in {"claimed_peril", "policy_coverage"} /\ evidence[planNext].status = "flagged"
    BY <1>1, <2>1, SoftFlag
  <2>3. replans' <= 2
    BY <1>1, <2>1, <2>2, SoftChain
  <2>4. ASSUME NEW c \in Flagged(evidence)', ~IsHard(c, evidence[c])'
        PROVE  replans' <= 1
    <3>1. c \in {"claimed_peril", "policy_coverage"} /\ evidence'[c].reason # "error"
          /\ evidence'[c].status = "flagged" /\ c \in Checks
      BY <2>4 DEF IsHard, Flagged
    <3>2. OkSoft = 0
      <4>1. CASE planNext = "claimed_peril"
        BY <2>2, <4>1, SoftChain
      <4>2. CASE planNext = "policy_coverage" /\ c = "policy_coverage"
        BY <3>1, <4>2, ExecuteShape, SoftChain
      <4>3. CASE planNext = "policy_coverage" /\ c = "claimed_peril"
        <5>1. evidence["claimed_peril"].status = "flagged"
          BY <3>1, <4>3, ExecuteShape
        <5> QED
          BY <5>1, SoftChain
      <4> QED
        BY <2>2, <3>1, <4>1, <4>2, <4>3
    <3> QED
      BY <1>1, <2>1, <3>2
  <2> QED
    BY <1>1, <1>2, <2>3, <2>4 DEF BudgetInv
<1> QED
  BY <1>3, <1>4

(* What is left of the verifier's early returns: a flag that ends the run, *)
(* a retry that changed nothing, clean evidence, or more to do.            *)
LEMMA VerdictUnderHeadroom ==
    ASSUME Headroom, IInv, CountInv, OnceInv, BudgetInv, pc = "verifier"
    PROVE  LET item    == evidence[planNext]
               verdict == Verdict(item)
           IN  \/ /\ verdict = [next |-> "escalate", reasons |-> {FlagCode(planNext, item)}]
                  /\ planNext \in Flagged(evidence)
               \/ /\ verdict = [next |-> "escalate", reasons |-> {"unproductive_repeat"}]
                  /\ planNext \in Flagged(evidence) /\ executed[planNext] > 1
               \/ /\ verdict = [next |-> "adjudicate", reasons |-> {}]
                  /\ Clean(evidence) = Checks
               \/ /\ verdict = [next |-> "planner", reasons |-> {}]
                  /\ Clean(evidence) # Checks
<1> DEFINE item    == evidence[planNext]
           verdict == Verdict(item)
<1>1. /\ planNext \in Resolved(evidence) /\ planNext \in Checks
      /\ \A c \in Flagged(evidence) \ {planNext} : ~IsHard(c, evidence[c])
      /\ unproductive => planNext \in Flagged(evidence)
      /\ MaxReplans \in Nat /\ MaxToolCalls \in Nat /\ replans \in Nat
      /\ MaxReplans >= 2 /\ MaxToolCalls >= 8
  BY PEVAssumption DEF IInv, TypeOK, VerifyingInv, Resolved, Headroom
<1>2. \A c \in Checks : evidence[c].status \in {"absent", "ok", "flagged"}
  BY DEF IInv, TypeOK, Items
<1>3. AllRequiredOk(evidence) <=> Clean(evidence) = Checks
  BY <1>2 DEF AllRequiredOk, Resolved, Flagged, Clean
<1>4. item.status = "flagged" <=> planNext \in Flagged(evidence)
  BY <1>1 DEF Flagged
<1>5. CASE item.status = "flagged" /\ IsHard(planNext, item)
  <2>1. verdict = [next |-> "escalate", reasons |-> {FlagCode(planNext, item)}]
    BY <1>5 DEF Verdict
  <2> QED
    BY <1>4, <1>5, <2>1
<1>6. CASE ~(item.status = "flagged" /\ IsHard(planNext, item))
  <2>1. \A c \in Flagged(evidence) : ~IsHard(c, evidence[c])
    BY <1>1, <1>4, <1>6
  <2>2. ~(item.status = "flagged" /\ replans >= MaxReplans)
    BY <1>1, <1>4, <2>1 DEF BudgetInv
  <2>3. CASE unproductive
    <3>1. verdict = [next |-> "escalate", reasons |-> {"unproductive_repeat"}]
      BY <1>6, <2>2, <2>3 DEF Verdict
    <3>2. planNext \in Flagged(evidence) /\ executed[planNext] > 1
      BY <1>1, <2>3 DEF OnceInv
    <3> QED
      BY <3>1, <3>2
  <2>4. CASE ~unproductive
    <3>1. ~(replans > MaxReplans)
      BY <1>1 DEF BudgetInv
    <3>2. CASE Clean(evidence) = Checks
      <4>1. verdict = [next |-> "adjudicate", reasons |-> {}]
        BY <1>3, <1>6, <2>2, <2>4, <3>1, <3>2 DEF Verdict
      <4> QED
        BY <3>2, <4>1
    <3>3. CASE Clean(evidence) # Checks
      <4>1. ~(toolCalls >= MaxToolCalls)
        BY <1>1, <2>1, <3>3, CallsLeft
      <4>2. verdict = [next |-> "planner", reasons |-> {}]
        BY <1>3, <1>6, <2>2, <2>4, <3>1, <3>3, <4>1 DEF Verdict
      <4> QED
        BY <3>3, <4>2
    <3> QED
      BY <3>2, <3>3
  <2> QED
    BY <2>3, <2>4
<1> QED
  BY <1>5, <1>6

LEMMA NextBudget ==
    ASSUME Headroom
    PROVE  IInv /\ CountInv /\ OnceInv /\ BudgetInv /\ [Next]_vars => BudgetInv'
<1> SUFFICES ASSUME IInv, CountInv, OnceInv, BudgetInv, [Next]_vars PROVE BudgetInv'
  OBVIOUS
<1>1. CASE Execute
  BY <1>1, ExecuteBudget
<1>2. CASE Verify
  <2>1. /\ pc = "verifier" /\ UNCHANGED loopVars /\ visits' = visits + 1
        /\ pc' = Verdict(evidence[planNext]).next
        /\ visits \in Nat /\ toolCalls \in Nat
    BY <1>2 DEF Verify, Visit, IInv, TypeOK
  <2>2. /\ pc' \in {"escalate", "adjudicate", "planner"}
        /\ pc' = "planner" => Clean(evidence) # Checks
    BY <2>1, VerdictUnderHeadroom
  <2> QED
    BY <2>1, <2>2 DEF BudgetInv, loopVars, Clean
<1>3. CASE Begin \/ RejectInput
  <2>1. /\ pc = "start" /\ pc' \in {"planner", "handed_over"}
        /\ UNCHANGED <<loopVars, visits>>
    BY <1>3 DEF Begin, RejectInput
  <2>2. Resolved(evidence) = {} /\ replans = 0
    BY <2>1 DEF IInv, StartInv
  <2>3. toolCalls = 0
    BY <2>2, FS_EmptySet DEF CountInv
  <2>4. Clean(evidence) # Checks
    BY <2>2 DEF Clean, Resolved, Checks
  <2> QED
    BY <2>1, <2>3, <2>4 DEF BudgetInv, loopVars, Clean
<1>4. CASE PlanNextCheck \/ PlanReplan
  <2>1. /\ pc = "planner" /\ pc' = "executor" /\ UNCHANGED loopVars
        /\ visits' = visits + 1
    BY <1>4 DEF PlanNextCheck, PlanReplan, Plan, Visit
  <2> QED
    BY <2>1 DEF BudgetInv, loopVars, Clean
<1>5. CASE PlanSufficient
  <2>1. Resolved(evidence) = Checks /\ Flagged(evidence) = {}
    BY <1>5, SufficientIsClean DEF Headroom
  <2>2. Clean(evidence) = Checks
    BY <2>1, CleanItems DEF IInv
  <2> QED
    BY <1>5, <2>2 DEF BudgetInv, PlanSufficient, Visit
<1>6. CASE Adjudicate \/ AdjudicateRaises \/ EscalateTerminal \/ RecursionError
  <2>1. UNCHANGED loopVars /\ pc' \in Ended
    BY <1>6 DEF Adjudicate, AdjudicateRaises, EscalateTerminal, RecursionError, Ended
  <2> QED
    BY <2>1 DEF BudgetInv, loopVars, Ended
<1>7. CASE UNCHANGED vars
  BY <1>7 DEF BudgetInv, vars, Clean, Flagged
<1> QED
  BY <1>1, <1>2, <1>3, <1>4, <1>5, <1>6, <1>7 DEF Next

(* The codes of flags are neither limits nor the rules engine's reasons.   *)
LEMMA ReasonsApart ==
    /\ FlagCodes \cap LimitReasons = {} /\ FlagCodes \cap PayoutReasons = {}
    /\ PayoutReasons \cap LimitReasons = {}
    /\ {"unproductive_repeat", "invalid_claim_input"} \cap (LimitReasons \cup PayoutReasons) = {}
  BY DEF FlagCodes, LimitReasons, PayoutReasons

LEMMA NextReason ==
    ASSUME Headroom
    PROVE  IInv /\ CountInv /\ OnceInv /\ BudgetInv /\ ReasonInv /\ [Next]_vars => ReasonInv'
<1> SUFFICES ASSUME IInv, CountInv, OnceInv, BudgetInv, ReasonInv, [Next]_vars
             PROVE  ReasonInv'
  OBVIOUS
<1>1. CASE Begin \/ PlanNextCheck \/ PlanReplan \/ PlanSufficient \/ Execute
  <2>1. /\ pc \in {"start", "planner", "executor"}
        /\ pc' \in {"planner", "executor", "verifier", "adjudicate"}
        /\ UNCHANGED <<reasons, rows, claim>>
    BY <1>1 DEF Begin, PlanNextCheck, PlanReplan, PlanSufficient, Execute, Plan, Visit
  <2> QED
    BY <2>1 DEF ReasonInv, Nodes
<1>2. CASE RejectInput
  <2>1. /\ ~claim.usable /\ pc = "start" /\ pc' = "handed_over"
        /\ reasons' = {"invalid_claim_input"} /\ UNCHANGED <<rows, claim>>
        /\ outcome' = [Undecided EXCEPT !.route = "escalate"]
    BY <1>2 DEF RejectInput
  <2>2. outcome'.route = "escalate" /\ outcome'.payout = NoAmount
    BY <2>1 DEF Undecided
  <2> QED
    BY <2>1, <2>2, ReasonsApart DEF ReasonInv
<1>3. CASE Verify
  <2> DEFINE item    == evidence[planNext]
             verdict == Verdict(item)
  <2>1. /\ pc = "verifier" /\ UNCHANGED <<loopVars, rows, claim, outcome, planNext>>
        /\ pc' = verdict.next /\ reasons' = reasons \cup verdict.reasons
        /\ reasons = {} /\ (claim.live => rows = NoRows)
    BY <1>3 DEF Verify, Visit, ReasonInv, Nodes
  <2>2. CASE pc' \in {"adjudicate", "planner"}
    <3>1. reasons' = {}
      BY <2>1, <2>2, VerdictUnderHeadroom
    <3> QED
      BY <2>1, <2>2, <3>1 DEF ReasonInv
  <2>3. CASE pc' = "escalate"
    <3>1. /\ planNext \in Flagged(evidence)
          /\ \/ reasons' = {FlagCode(planNext, item)}
             \/ reasons' = {"unproductive_repeat"} /\ executed[planNext] > 1
      <4>1. reasons' = verdict.reasons /\ verdict.next = "escalate"
        BY <2>1, <2>3
      <4>2. /\ planNext \in Flagged(evidence)
            /\ \/ verdict.reasons = {FlagCode(planNext, item)}
               \/ verdict.reasons = {"unproductive_repeat"} /\ executed[planNext] > 1
        <5> HIDE DEF verdict, item
        <5>1. \/ /\ verdict = [next |-> "escalate", reasons |-> {FlagCode(planNext, item)}]
                 /\ planNext \in Flagged(evidence)
              \/ /\ verdict = [next |-> "escalate", reasons |-> {"unproductive_repeat"}]
                 /\ planNext \in Flagged(evidence) /\ executed[planNext] > 1
              \/ verdict = [next |-> "adjudicate", reasons |-> {}]
              \/ verdict = [next |-> "planner", reasons |-> {}]
          BY <2>1, VerdictUnderHeadroom DEF verdict, item
        <5> QED
          BY <4>1, <5>1
      <4> QED
        BY <4>1, <4>2
    <3>2. FlagCode(planNext, item) \in FlagCodes
      <4>1. planNext \in Checks /\ item \in Items
        BY <3>1 DEF Flagged, IInv, TypeOK
      <4>2. planNext = "story_consistency" => item.reason # "none"
        BY <3>1 DEF IInv, EvidenceInv, Flagged
      <4> QED
        BY <4>1, <4>2, FlagCodeType
    <3>3. reasons' # {} /\ reasons' \cap PayoutReasons = {} /\ reasons' \cap LimitReasons = {}
      BY <3>1, <3>2, ReasonsApart
    <3>4. \E c \in Flagged(evidence)' :
             FlagCode(c, evidence[c])' \in reasons' \/ executed'[c] > 1
      BY <2>1, <3>1 DEF loopVars, Flagged
    <3> QED
      BY <2>1, <2>3, <3>3, <3>4 DEF ReasonInv
  <2> QED
    BY <2>1, <2>2, <2>3, VerdictCases
<1>4. CASE Adjudicate
  <2> DEFINE result == ComputePayout(claim.policy, RowsToPrice, PerceptionConfidence(evidence))
  <2>1. /\ pc = "adjudicate" /\ pc' = "adjudicated" /\ reasons' = reasons \cup result.reasons
        /\ reasons = {} /\ claim.policy \in PolicyRow
    BY <1>4 DEF Adjudicate, Visit, ReasonInv, IInv, TypeOK
  <2>2. result \in PayoutResult
    BY <2>1, PersistedRowsType, PerceptionConfidenceType, PayoutType DEF IInv
  <2>3. result.reasons \subseteq PayoutReasons
    <3> HIDE DEF result
    <3> QED
      BY <2>2 DEF PayoutResult
  <2> HIDE DEF result
  <2> QED
    BY <2>1, <2>3, ReasonsApart DEF ReasonInv, Nodes
<1>5. CASE EscalateTerminal
  <2>1. /\ pc = "escalate" /\ pc' = "handed_over"
        /\ UNCHANGED <<loopVars, reasons, rows, claim>>
        /\ outcome'.route = "escalate" /\ outcome'.payout = NoAmount
    BY <1>5 DEF EscalateTerminal, Visit, Undecided
  <2> QED
    BY <2>1 DEF ReasonInv, Nodes, loopVars, Flagged
<1>6. CASE AdjudicateRaises \/ RecursionError
  <2>1. pc' = "raised" /\ UNCHANGED reasons
    BY <1>6 DEF AdjudicateRaises, RecursionError
  <2> QED
    BY <2>1 DEF ReasonInv, Nodes
<1>7. CASE UNCHANGED vars
  BY <1>7 DEF ReasonInv, vars, Flagged
<1> QED
  BY <1>1, <1>2, <1>3, <1>4, <1>5, <1>6, <1>7 DEF Next

LEMMA InitHeadroom == Init => BudgetInv /\ ReasonInv
<1> SUFFICES ASSUME Init PROVE BudgetInv /\ ReasonInv
  OBVIOUS
<1>1. claim.live => rows = NoRows
  BY DEF Init
<1> QED
  BY <1>1 DEF Init, BudgetInv, ReasonInv

HInv == IInv /\ CountInv /\ OnceInv /\ BudgetInv /\ ReasonInv

LEMMA InitHInv == Init => HInv
  BY InitIInv, InitOnce, InitHeadroom DEF HInv

LEMMA NextHInv ==
    ASSUME Headroom
    PROVE  HInv /\ [Next]_vars => HInv'
  BY NextIInv, NextOnce, NextBudget, NextReason DEF HInv

-----------------------------------------------------------------------------
(* A clean fact is never gathered again, a hard flag never investigated    *)
(* away, a soft one retried once (pev_nodes.py:19-20, 88-98).              *)
THEOREM SoftFlagsOnlyAreRetried == Spec => OnlySoftFlagsAreReinvestigated
<1> DEFINE Retried(c) == executed'[c] > 1 /\ executed'[c] # executed[c]
           Retry == \A c \in Checks : Retried(c) =>
                      /\ evidence[c].status = "flagged" /\ ~IsHard(c, evidence[c])
                      /\ executed[c] = 1
<1>1. IInv /\ CountInv /\ OnceInv /\ [Next]_vars => [Retry]_vars
  <2> SUFFICES ASSUME IInv, CountInv, OnceInv, Next, NEW c \in Checks, Retried(c)
               PROVE  /\ evidence[c].status = "flagged" /\ ~IsHard(c, evidence[c])
                      /\ executed[c] = 1
    OBVIOUS
  <2>1. Execute
    BY DEF Next, Begin, RejectInput, PlanNextCheck, PlanReplan, PlanSufficient, Plan, Verify,
           Adjudicate, AdjudicateRaises, EscalateTerminal, RecursionError, loopVars
  <2>2. /\ executed' = [executed EXCEPT ![planNext] = @ + 1] /\ executed \in [Checks -> Nat]
        /\ pc = "executor"
    BY <2>1 DEF Execute, Visit, IInv, TypeOK
  <2>3. c = planNext /\ executed[c] # 0
    BY <2>2
  <2>4. c \in Resolved(evidence)
    BY <2>3 DEF CountInv
  <2>5. c \in Flagged(evidence)
    BY <2>1, <2>3, <2>4, ExecuteShape DEF Flagged
  <2> QED
    BY <2>2, <2>5 DEF OnceInv, IInv, InvestigatingInv, Flagged
<1>2. Init => IInv /\ CountInv /\ OnceInv
  BY InitIInv, InitOnce
<1>3. IInv /\ CountInv /\ OnceInv /\ [Next]_vars => IInv' /\ CountInv' /\ OnceInv'
  BY NextIInv, NextOnce
<1> QED
  BY <1>1, <1>2, <1>3, PTL DEF Spec, OnlySoftFlagsAreReinvestigated

(* No budget and no step limit cuts an investigation short, and the counts *)
(* are those of the calls made (pev_state.py:7-9, agent.py:10-11).         *)
THEOREM LimitsNeverBite ==
    ASSUME Headroom
    PROVE  Spec => []LimitsAreHeadroom
<1>1. HInv => LimitsAreHeadroom
  <2> SUFFICES ASSUME HInv PROVE LimitsAreHeadroom
    OBVIOUS
  <2>1. /\ MaxToolCalls \in Nat /\ MaxReplans \in Nat /\ RecursionLimit \in Nat
        /\ replans \in Nat /\ visits \in Nat /\ toolCalls \in Nat
        /\ MaxReplans >= 2 /\ MaxToolCalls >= 8 /\ RecursionLimit >= 25
    BY PEVAssumption DEF Headroom, HInv, IInv, TypeOK
  <2>2. toolCalls <= 8 /\ (pc \in {"planner", "executor"} => toolCalls <= 7)
    BY CallsLeft DEF HInv, BudgetInv, IInv, InvestigatingInv
  <2>3. pc \in Nodes => visits < RecursionLimit
    BY <2>1, <2>2 DEF HInv, BudgetInv, Nodes
  <2> QED
    BY <2>1, <2>2, <2>3 DEF HInv, BudgetInv, CountInv, ReasonInv, LimitReasons, LimitsAreHeadroom
<1> QED
  BY <1>1, InitHInv, NextHInv, PTL DEF Spec

(* A human is told why, and gets neither money nor damage rows with the    *)
(* claim (pev_nodes.py:139-161, 188-193).                                  *)
THEOREM HandOversExplained ==
    ASSUME Headroom
    PROVE  Spec => []HandOverIsExplained
<1>1. HInv => HandOverIsExplained
  BY DEF HInv, ReasonInv, HandOverIsExplained
<1> QED
  BY <1>1, InitHInv, NextHInv, PTL DEF Spec

-----------------------------------------------------------------------------
(* The agent and ClaimDecision.                                            *)

DecisionOf(node) ==
    CASE node = "adjudicated" -> "rules_engine"
      [] node = "handed_over" -> "human"
      [] node = "raised" -> "failed"
      [] node \notin Ended -> "open"

LEMMA DecisionValues ==
    /\ DecisionOf("adjudicated") = "rules_engine"
    /\ DecisionOf("handed_over") = "human"
    /\ DecisionOf("raised") = "failed"
    /\ \A node \in {"start"} \cup Nodes : DecisionOf(node) = "open"
  BY DEF DecisionOf, Ended, Nodes

(* One more executor run is one more piece of work, and takes nothing back.*)
LEMMA ExecuteIsWork == ASSUME Headroom, HInv, Execute PROVE Decision!Work
<1>1. pc = "executor" /\ pc' = "verifier"
  BY DEF Execute, Visit
<1>2. DecisionOf(pc) = "open" /\ DecisionOf(pc') = "open"
  BY <1>1, DecisionValues DEF Nodes
<1>3. toolCalls < MaxToolCalls /\ toolCalls' = toolCalls + 1
  <2>1. toolCalls \in Nat /\ toolCalls <= 7
    BY <1>1, CallsLeft DEF HInv, BudgetInv, IInv, InvestigatingInv
  <2> QED
    BY <2>1, PEVAssumption DEF Execute, Headroom
<1>4. Clean(evidence)' \in SUBSET Checks /\ Clean(evidence) \subseteq Clean(evidence)'
  BY ExecuteShape DEF HInv, Clean
<1> QED
  BY <1>2, <1>3, <1>4 DEF Decision!Work, DecisionOf

LEMMA NextIsDecision == Headroom /\ HInv /\ [Next]_vars => [Decision!Next]_Decision!vars
<1> SUFFICES ASSUME Headroom, HInv, [Next]_vars PROVE [Decision!Next]_Decision!vars
  OBVIOUS
<1>1. CASE Execute
  BY <1>1, ExecuteIsWork DEF Decision!Next
<1>2. CASE Begin \/ PlanNextCheck \/ PlanReplan \/ PlanSufficient \/ Verify
  <2>1. UNCHANGED loopVars
    BY <1>2 DEF Begin, PlanNextCheck, PlanReplan, PlanSufficient, Plan, Verify
  <2>2. pc \in {"start", "planner", "verifier"}
        /\ pc' \in {"planner", "executor", "adjudicate", "escalate"}
    BY <1>2, VerdictCases
       DEF Begin, PlanNextCheck, PlanReplan, PlanSufficient, Plan, Verify, Visit
  <2>3. DecisionOf(pc) = "open" /\ DecisionOf(pc') = "open"
    BY <2>2, DecisionValues DEF Nodes
  <2> QED
    BY <2>1, <2>3 DEF Decision!vars, loopVars, Clean, DecisionOf
<1>3. CASE RejectInput \/ EscalateTerminal
  <2>1. UNCHANGED loopVars /\ pc' = "handed_over" /\ pc \in {"start", "escalate"}
    BY <1>3 DEF RejectInput, EscalateTerminal, Visit
  <2>2. DecisionOf(pc) = "open" /\ DecisionOf(pc') = "human"
    BY <2>1, DecisionValues DEF Nodes
  <2>3. Clean(evidence) # Checks
    BY <2>1 DEF HInv, IInv, StartInv, ReasonInv, Clean, Flagged, Resolved, Checks
  <2> QED
    BY <2>1, <2>2, <2>3 DEF Decision!Next, Decision!HandOver, loopVars, Clean, DecisionOf
<1>4. CASE Adjudicate
  <2>1. UNCHANGED loopVars /\ pc' = "adjudicated" /\ pc = "adjudicate"
    BY <1>4 DEF Adjudicate, Visit
  <2>2. DecisionOf(pc) = "open" /\ DecisionOf(pc') = "rules_engine"
    BY <2>1, DecisionValues DEF Nodes
  <2>3. Clean(evidence) = Checks
    BY <2>1, AllClean DEF Headroom, HInv
  <2> QED
    BY <2>1, <2>2, <2>3 DEF Decision!Next, Decision!Settle, loopVars, Clean, DecisionOf
<1>5. CASE AdjudicateRaises \/ RecursionError
  <2>1. UNCHANGED loopVars /\ pc' = "raised" /\ pc \in Nodes
    BY <1>5 DEF AdjudicateRaises, RecursionError, Visit, Nodes
  <2>2. DecisionOf(pc) = "open" /\ DecisionOf(pc') = "failed"
    BY <2>1, DecisionValues
  <2> QED
    BY <2>1, <2>2 DEF Decision!Next, Decision!Fail, loopVars, Clean, DecisionOf
<1>6. CASE UNCHANGED vars
  BY <1>6 DEF vars, Decision!vars, Clean
<1> QED
  BY <1>1, <1>2, <1>3, <1>4, <1>5, <1>6 DEF Next

(* The agent keeps the safety part of what ClaimDecision promises: every   *)
(* step is bounded work, a decision on clear facts, a hand-over on unclear *)
(* ones, a failure, or invisible (agent.py:13-30).                         *)
THEOREM AgentImplementsDecision ==
    ASSUME Headroom
    PROVE  Spec => Decision!Spec
<1>1. Init => Decision!Init
  <2> SUFFICES ASSUME Init PROVE Decision!Init
    OBVIOUS
  <2>1. Clean(evidence) = {}
    BY DEF Init, Clean, Absent
  <2>2. DecisionOf(pc) = "open"
    BY DecisionValues DEF Init
  <2> QED
    BY <2>1, <2>2 DEF Init, Decision!Init, DecisionOf
<1> QED
  BY <1>1, InitHInv, NextHInv, NextIsDecision, PTL DEF Spec, Decision!Spec

=============================================================================
