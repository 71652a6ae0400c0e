------------------------------- MODULE PEVLoop -------------------------------
(***************************************************************************)
(* arch3_agent: one claim run through the Planner-Executor-Verifier graph  *)
(* of agent.py, from the claim packet to a route.                          *)
(*                                                                         *)
(* The planner's model picks the next check freely among the candidates,   *)
(* a check returns whatever its model or its policy read can return, and   *)
(* may raise; everything else is the deterministic code of pev_nodes.py.   *)
(* An action is one visit of a graph node.                                 *)
(***************************************************************************)
EXTENDS RulesEngine

CONSTANTS
    MaxToolCalls,     \* pev_state.MAX_TOOL_CALLS
    MaxReplans,       \* pev_state.MAX_REPLANS
    RecursionLimit,   \* agent.RECURSION_LIMIT, in node visits
    Policies,         \* the policy rows a claim can join to
    NoPolicy,         \* None: the claim joins to no policy
    RowCosts,         \* what the damage rows of an evaluation claim total
    DamageCosts,      \* what the instances a vision call perceives cost
    Confidences,      \* what a vision call can report
    NoCheck           \* plan_next before the first plan, or None

ASSUME PEVAssumption ==
    /\ MaxToolCalls \in Nat
    /\ MaxReplans \in Nat
    /\ RecursionLimit \in Nat
    /\ Policies \subseteq PolicyRow
    /\ NoPolicy \notin PolicyRow
    /\ RowCosts \subseteq PoolCosts
    /\ DamageCosts \subseteq Nat \ {0}
    /\ Confidences \subseteq Nat

-----------------------------------------------------------------------------
(* The allowlist of checks and what each must wait for.                    *)

Checks == {"image_quality", "damage_type", "story_consistency",
           "claimed_peril", "policy_coverage", "policy_dates"}

ASSUME NoCheckAssumption == NoCheck \notin Checks

Prereqs ==
    [c \in Checks |->
        CASE c = "damage_type" -> {"image_quality"}
          [] c = "story_consistency" -> {"damage_type"}
          [] c = "policy_coverage" -> {"claimed_peril"}
          [] c \in {"image_quality", "claimed_peril", "policy_dates"} -> {}]

(* EvidenceItem: data.get's defaults stand in the fields a check leaves    *)
(* out.  cost is that of the perceived instances, or for the story check   *)
(* of the instances it was shown; reason is data's error or reason_code.   *)
Perils == Pools \cup {"unknown"}

ItemReasons == {"none", "error", "possible_prompt_injection", "story_damage_inconsistent"}

Items ==
    [status : {"absent", "ok", "flagged"}, reason : ItemReasons,
     peril : Perils, cost : Nat, confidence : Nat]

OkItem(peril, cost, confidence) ==
    [status |-> "ok", reason |-> "none", peril |-> peril, cost |-> cost, confidence |-> confidence]

FlagItem(reason, peril, cost, confidence) ==
    [status |-> "flagged", reason |-> reason, peril |-> peril, cost |-> cost,
     confidence |-> confidence]

Absent ==
    [status |-> "absent", reason |-> "none", peril |-> "unknown", cost |-> 0, confidence |-> 0]

ErrorItem == FlagItem("error", "unknown", 0, 0)

Stories == {"none", "injection", "told"}

VARIABLES
    claim,         \* the packet: usable, live, story, and the joined policy
    pc,            \* the graph node to visit next, or how the run ended
    evidence,      \* EvidencePackage.items, total over Checks
    workspace,     \* the damage shown to the story check, the peril read
    planNext,      \* plan_next
    toolCalls,     \* tool_calls
    replans,       \* replans
    unproductive,  \* the last executor run was a rerun that changed no status
    executed,      \* the executor's trajectory entries, counted per check
    visits,        \* node visits, what LangGraph holds against its limit
    reasons,       \* the accumulated reasons
    outcome,       \* route, payout, deductible_applied, confidence
    rows           \* the claim's rows of claim_damage_instances, costed

vars == <<claim, pc, evidence, workspace, planNext, toolCalls, replans, unproductive,
          executed, visits, reasons, outcome, rows>>

loopVars == <<evidence, workspace, toolCalls, replans, unproductive, executed>>

Nodes == {"planner", "executor", "verifier", "adjudicate", "escalate"}

Ended == {"adjudicated", "handed_over", "raised"}

FlagCodes ==
    {"tool_failure", "possible_prompt_injection", "story_damage_inconsistent",
     "image_unusable", "no_damage_detected", "peril_unknown", "coverage_unknown", "flagged"}

RunReasons ==
    PayoutReasons \cup FlagCodes \cup
    {"missing_evidence", "unproductive_repeat", "replan_limit", "tool_call_limit",
     "invalid_claim_input"}

Undecided == [route |-> "none", payout |-> NoAmount, deductible |-> NoAmount, confidence |-> 0]

Outcomes ==
    [route : Routes \cup {"none"}, payout : Nat \cup {NoAmount},
     deductible : Nat \cup {NoAmount}, confidence : Nat]

TypeOK ==
    /\ claim \in [usable : BOOLEAN, live : BOOLEAN, story : Stories,
                  policy : PolicyRow \cup {NoPolicy}]
    /\ pc \in {"start"} \cup Nodes \cup Ended
    /\ evidence \in [Checks -> Items]
    /\ workspace \in [damage : Nat, peril : Perils]
    /\ planNext \in Checks \cup {NoCheck}
    /\ toolCalls \in Nat
    /\ replans \in Nat
    /\ unproductive \in BOOLEAN
    /\ executed \in [Checks -> Nat]
    /\ visits \in Nat
    /\ reasons \subseteq RunReasons
    /\ outcome \in Outcomes
    /\ rows \in PoolCosts

NoRows == [p \in Pools |-> 0]

(* An upload is a usable claim of a known customer whose row has no damage *)
(* yet (intake.py, create_live_claim, main._require_customer); an          *)
(* evaluation claim brings its rows, and its id may join to nothing.       *)
Init ==
    /\ claim \in [usable : BOOLEAN, live : BOOLEAN, story : Stories,
                  policy : Policies \cup {NoPolicy}]
    /\ claim.live => claim.usable /\ claim.policy # NoPolicy
    /\ rows \in IF claim.live THEN {NoRows} ELSE RowCosts
    /\ pc = "start"
    /\ evidence = [c \in Checks |-> Absent]
    /\ workspace = [damage |-> 0, peril |-> "unknown"]
    /\ planNext = NoCheck
    /\ toolCalls = 0
    /\ replans = 0
    /\ unproductive = FALSE
    /\ executed = [c \in Checks |-> 0]
    /\ visits = 0
    /\ reasons = {}
    /\ outcome = Undecided

-----------------------------------------------------------------------------
(* checks.py: what each check can return on this claim, given the          *)
(* workspace.  With no story on file, or an injection found in it, the two *)
(* story checks answer without calling a model; a model that is called may *)
(* give "possible_prompt_injection" as the reason it wrote itself.         *)

ImageItems ==
    {OkItem("unknown", 0, v) : v \in Confidences}
    \cup {FlagItem("none", "unknown", 0, v) : v \in Confidences}

DamageItems ==
    {OkItem("unknown", d, v) : d \in DamageCosts, v \in Confidences}
    \cup {FlagItem("none", "unknown", 0, 0)}

StoryItems ==
    LET consistent   == OkItem("unknown", workspace.damage, 0)
        flag(reason) == FlagItem(reason, "unknown", workspace.damage, 0)
    IN CASE claim.story = "none" -> {consistent}
         [] claim.story = "injection" -> {flag("possible_prompt_injection")}
         [] claim.story = "told" ->
              {consistent, flag("story_damage_inconsistent"), flag("possible_prompt_injection")}

PerilItems ==
    LET vague(reason) == FlagItem(reason, "unknown", 0, 0)
    IN CASE claim.story = "none" -> {vague("none")}
         [] claim.story = "injection" -> {vague("possible_prompt_injection")}
         [] claim.story = "told" ->
              {OkItem(p, 0, 0) : p \in Pools}
              \cup {vague("none"), vague("possible_prompt_injection")}

(* A missing policy raises; an unknown peril is the only flag.             *)
CoverageItems ==
    {item \in {IF workspace.peril = "unknown" THEN FlagItem("none", "unknown", 0, 0)
                                              ELSE OkItem(workspace.peril, 0, 0)} :
        claim.policy # NoPolicy}

DatesItems == {item \in {OkItem("unknown", 0, 0)} : claim.policy # NoPolicy}

(* Model calls give up after their retries and a policy read can fail; a   *)
(* story check that calls no model cannot raise.                           *)
MayRaise(check) == check \in {"story_consistency", "claimed_peril"} => claim.story = "told"

CheckItems(check) ==
    CASE check = "image_quality" -> ImageItems
      [] check = "damage_type" -> DamageItems
      [] check = "story_consistency" -> StoryItems
      [] check = "claimed_peril" -> PerilItems
      [] check = "policy_coverage" -> CoverageItems
      [] check = "policy_dates" -> DatesItems

(* Mutant: the except clause gives the check the benefit of the doubt.     *)
SwallowFailure(check) == CheckItems(check) \cup {item \in {OkItem("unknown", 0, 0)} : MayRaise(check)}

(* CHECK_REGISTRY[check](ctx), with the executor's except clause.          *)
Investigate(check) == CheckItems(check) \cup {item \in {ErrorItem} : MayRaise(check)}

(* ctx.workspace after the check: one that raised wrote nothing to it.     *)
Remember(check, item) ==
    CASE item.reason # "error" /\ check = "damage_type" -> [workspace EXCEPT !.damage = item.cost]
      [] item.reason # "error" /\ check = "claimed_peril" -> [workspace EXCEPT !.peril = item.peril]
      [] item.reason = "error" \/ check \notin {"damage_type", "claimed_peril"} -> workspace

-----------------------------------------------------------------------------
(* pev_nodes.py's predicates on the evidence.                              *)

Resolved(ev) == {c \in Checks : ev[c].status # "absent"}

Flagged(ev) == {c \in Checks : ev[c].status = "flagged"}

(* classify_flag: is the flag hard, and its reason code.                   *)
IsHard(check, item) ==
    \/ item.reason = "error"
    \/ check \notin {"claimed_peril", "policy_coverage"}
    \/ check = "claimed_peril" /\ item.reason = "possible_prompt_injection"

(* Mutant: the reason in the check's data is passed on as it is.           *)
RawFlagCode(check, item) == IF item.reason = "error" THEN "tool_failure" ELSE item.reason

FlagCode(check, item) ==
    IF item.reason = "error" THEN "tool_failure"
    ELSE CASE check = "story_consistency" -> item.reason
           [] check = "image_quality" -> "image_unusable"
           [] check = "damage_type" -> "no_damage_detected"
           [] check = "claimed_peril" ->
                IF item.reason = "possible_prompt_injection" THEN item.reason ELSE "peril_unknown"
           [] check = "policy_coverage" -> "coverage_unknown"
           [] check = "policy_dates" -> "flagged"

(* Mutant: every check has run, whatever it found.                         *)
AllRequiredRan(ev) == Resolved(ev) = Checks

AllRequiredOk(ev) == Resolved(ev) = Checks /\ Flagged(ev) = {}

(* Mutant: the prerequisite graph is not consulted.                        *)
AnyUnresolved(ev) == Checks \ Resolved(ev)

Available(ev) == {c \in Checks \ Resolved(ev) : Prereqs[c] \subseteq Resolved(ev)}

(* Mutant: the retry candidates are drawn from all items, not the flagged. *)
RetryAnySoft(ev) == {c \in Resolved(ev) : ~IsHard(c, ev[c])}

Retryable(ev) == {c \in Flagged(ev) : ~IsHard(c, ev[c])}

PerceptionConfidence(ev) ==
    IF ev["damage_type"].cost > 0 THEN ev["damage_type"].confidence
                                  ELSE ev["image_quality"].confidence

-----------------------------------------------------------------------------
(* The run: entering, the five nodes, and LangGraph's step limit.          *)

(* A node is visited while the step limit allows.                          *)
Visit(node) ==
    /\ pc = node
    /\ visits < RecursionLimit
    /\ visits' = visits + 1
    /\ UNCHANGED claim

Begin ==
    /\ pc = "start"
    /\ claim.usable
    /\ pc' = "planner"
    /\ UNCHANGED <<loopVars, claim, planNext, visits, reasons, outcome, rows>>

RejectInput ==
    /\ pc = "start"
    /\ ~claim.usable
    /\ pc' = "handed_over"
    /\ reasons' = {"invalid_claim_input"}
    /\ outcome' = [Undecided EXCEPT !.route = "escalate"]
    /\ UNCHANGED <<loopVars, claim, planNext, visits, rows>>

Plan(check) ==
    /\ planNext' = check
    /\ pc' = "executor"
    /\ UNCHANGED <<loopVars, reasons, outcome, rows>>

(* Mutant: an answer that names no candidate is planned again.             *)
PlanUntilCandidate ==
    /\ Visit("planner")
    /\ \E check \in Available(evidence) :
          Plan(check) \/ (pc' = "planner" /\ UNCHANGED <<loopVars, planNext, reasons, outcome, rows>>)

PlanNextCheck ==
    /\ Visit("planner")
    /\ \E check \in Available(evidence) : Plan(check)

(* All checks have run; a soft flag may be investigated again.             *)
PlanReplan ==
    /\ Visit("planner")
    /\ Available(evidence) = {}
    /\ replans < MaxReplans
    /\ \E check \in Retryable(evidence) : Plan(check)

(* Nothing left to run and nothing to retry: straight to the money.        *)
PlanSufficient ==
    /\ Visit("planner")
    /\ Available(evidence) = {}
    /\ Retryable(evidence) = {} \/ replans >= MaxReplans
    /\ planNext' = NoCheck
    /\ pc' = "adjudicate"
    /\ UNCHANGED <<loopVars, reasons, outcome, rows>>

Execute ==
    /\ Visit("executor")
    /\ \E item \in Investigate(planNext) :
          LET rerun == planNext \in Resolved(evidence)
          IN  /\ evidence' = [evidence EXCEPT ![planNext] = item]
              /\ workspace' = Remember(planNext, item)
              /\ replans' = IF rerun THEN replans + 1 ELSE replans
              /\ unproductive' = (rerun /\ evidence[planNext].status = item.status)
    /\ toolCalls' = toolCalls + 1
    /\ executed' = [executed EXCEPT ![planNext] = @ + 1]
    /\ pc' = "verifier"
    /\ UNCHANGED <<planNext, reasons, outcome, rows>>

(* Mutant: the call ceiling is looked at before the evidence.              *)
CeilingFirstVerdict(item) ==
    LET escalate(codes) == [next |-> "escalate", reasons |-> codes]
    IN IF item.status = "flagged" /\ IsHard(planNext, item)
         THEN escalate({FlagCode(planNext, item)})
       ELSE IF toolCalls >= MaxToolCalls THEN escalate({"tool_call_limit"})
       ELSE IF unproductive THEN escalate({"unproductive_repeat"})
       ELSE [next |-> IF AllRequiredOk(evidence) THEN "adjudicate" ELSE "planner", reasons |-> {}]

(* verifier_node's decision on the item just gathered, in the order of its *)
(* early returns; the reasons are those of an escalation.                  *)
Verdict(item) ==
    LET escalate(codes) == [next |-> "escalate", reasons |-> codes]
        code            == FlagCode(planNext, item)
    IN IF item.status = "flagged" /\ IsHard(planNext, item) THEN escalate({code})
       ELSE IF item.status = "flagged" /\ replans >= MaxReplans
         THEN escalate({"missing_evidence", code})
       ELSE IF unproductive THEN escalate({"unproductive_repeat"})
       ELSE IF replans > MaxReplans THEN escalate({"replan_limit"})
       ELSE IF AllRequiredOk(evidence) THEN [next |-> "adjudicate", reasons |-> {}]
       ELSE IF toolCalls >= MaxToolCalls THEN escalate({"tool_call_limit"})
       ELSE [next |-> "planner", reasons |-> {}]

Verify ==
    /\ Visit("verifier")
    /\ LET verdict == Verdict(evidence[planNext])
       IN  /\ pc' = verdict.next
           /\ reasons' = reasons \cup verdict.reasons
    /\ UNCHANGED <<loopVars, planNext, outcome, rows>>

(* Mutant: Arch 2's fixed placeholder instead of the peril.                *)
AlwaysCollision(ev) == "collision"

(* persist_live_damage: the perceived instances replace the claim's rows,  *)
(* all in the pool of the peril read from the story.                       *)
BilledPool(ev) ==
    IF ev["claimed_peril"].peril \in Pools THEN ev["claimed_peril"].peril ELSE "collision"

PersistedRows(ev) ==
    IF ev["damage_type"].cost = 0 THEN rows
    ELSE [p \in Pools |-> IF p = BilledPool(ev) THEN ev["damage_type"].cost ELSE 0]

RowsToPrice == IF claim.live THEN PersistedRows(evidence) ELSE rows

Adjudicate ==
    /\ Visit("adjudicate")
    /\ claim.policy # NoPolicy
    /\ rows' = RowsToPrice
    /\ LET confidence == PerceptionConfidence(evidence)
           result     == ComputePayout(claim.policy, rows', confidence)
       IN  /\ outcome' = [route |-> result.route, payout |-> result.payout,
                          deductible |-> result.deductible, confidence |-> confidence]
           /\ reasons' = reasons \cup result.reasons
    /\ pc' = "adjudicated"
    /\ UNCHANGED <<loopVars, planNext>>

(* The node has no except clause: a locked database, or a claim that joins *)
(* to no policy, ends the run with an exception.  What persist_live_damage *)
(* committed stays.                                                        *)
AdjudicateRaises ==
    /\ Visit("adjudicate")
    /\ rows' \in {rows, RowsToPrice}
    /\ pc' = "raised"
    /\ UNCHANGED <<loopVars, planNext, reasons, outcome>>

(* Mutant: the perceived damage is written before the hand-over too.       *)
EscalateAndPersist ==
    /\ Visit("escalate")
    /\ outcome' = [Undecided EXCEPT !.route = "escalate",
                                    !.confidence = PerceptionConfidence(evidence)]
    /\ pc' = "handed_over"
    /\ rows' = RowsToPrice
    /\ UNCHANGED <<loopVars, planNext, reasons>>

EscalateTerminal ==
    /\ Visit("escalate")
    /\ outcome' = [Undecided EXCEPT !.route = "escalate",
                                    !.confidence = PerceptionConfidence(evidence)]
    /\ pc' = "handed_over"
    /\ UNCHANGED <<loopVars, planNext, reasons, rows>>

(* GraphRecursionError: the limit is used up and a node is still due.      *)
RecursionError ==
    /\ pc \in Nodes
    /\ visits >= RecursionLimit
    /\ pc' = "raised"
    /\ UNCHANGED <<loopVars, claim, planNext, visits, reasons, outcome, rows>>

Next ==
    \/ Begin
    \/ RejectInput
    \/ PlanNextCheck
    \/ PlanReplan
    \/ PlanSufficient
    \/ Execute
    \/ Verify
    \/ Adjudicate
    \/ AdjudicateRaises
    \/ EscalateTerminal
    \/ RecursionError

Spec == Init /\ [][Next]_vars

(* A run is one synchronous graph.invoke: nothing else has to happen for   *)
(* the next node to be visited, and a model call returns or gives up.      *)
FairSpec == Spec /\ WF_vars(Next)

-----------------------------------------------------------------------------
(* Correctness.                                                            *)

Clean(ev) == {c \in Checks : ev[c].status = "ok"}

(* The adjudicate node "runs only on a clean, sufficient evidence package" *)
(* (pev_nodes.py:171-172), though neither the node nor the planner's       *)
(* sufficient branch (pev_nodes.py:102) looks at the flags: the verifier   *)
(* must have stopped every other claim.                                    *)
MoneyOnlyOnCleanEvidence ==
    pc \in {"adjudicate", "adjudicated"} => Clean(evidence) = Checks

(* The checks talk through the workspace, so what was vetted could differ  *)
(* from what is priced: when a claim is adjudicated the story was judged   *)
(* against the damage that is billed, coverage was read for the peril that *)
(* picks the pool, the pool is the one the story names and never the       *)
(* fallback (checks.py:59, 91; live_claim.py:13, 51).                      *)
PricedFactsAreVettedFacts ==
    pc = "adjudicated" =>
        /\ evidence["story_consistency"].cost = evidence["damage_type"].cost
        /\ evidence["policy_coverage"].peril = evidence["claimed_peril"].peril
        /\ evidence["claimed_peril"].peril \in Pools
        /\ claim.live =>
             rows = [p \in Pools |-> IF p = evidence["claimed_peril"].peril
                                       THEN evidence["damage_type"].cost ELSE 0]

(* adjudicate_node never looks whether the claim has a policy, and         *)
(* compute_payout raises when it has none: the two policy checks must keep *)
(* such a claim away from it (checks.py:93-94, rules_engine.py:42-43).     *)
AdjudicateHasPolicy == pc = "adjudicate" => claim.policy # NoPolicy

(* "The two limits are deliberately consistent" (pev_state.py:7-9) and the *)
(* graph's step limit is "headroom" (agent.py:10-11): every investigation  *)
(* the planner can lead ends on its evidence, none is cut short by the     *)
(* call ceiling, the replan budget or the step limit, and the counts are   *)
(* those of the calls really made.                                         *)
LimitsAreHeadroom ==
    /\ reasons \cap {"tool_call_limit", "replan_limit", "missing_evidence"} = {}
    /\ toolCalls <= MaxToolCalls
    /\ replans <= MaxReplans
    /\ toolCalls = Cardinality(Resolved(evidence)) + replans
    /\ pc \in Nodes => visits < RecursionLimit

(* A human never gets a claim without a reason, nor money with it: the     *)
(* hand-over names why, carries no payout and no new damage rows, and      *)
(* unless the packet was rejected some check is not clean (pev_nodes.py:   *)
(* 139-161, 188-193).                                                      *)
HandOverIsExplained ==
    pc = "handed_over" =>
        /\ reasons # {}
        /\ reasons \cap PayoutReasons = {}
        /\ outcome.route = "escalate" /\ outcome.payout = NoAmount
        /\ claim.live => rows = NoRows
        /\ \/ reasons = {"invalid_claim_input"}
           \/ \E c \in Flagged(evidence) :
                FlagCode(c, evidence[c]) \in reasons \/ executed[c] > 1

(* A fact once gathered clean is never gathered again, and a hard flag is  *)
(* never investigated away: an item is only replaced after a soft flag,    *)
(* and by a single retry (pev_nodes.py:19-20, 88-98).                      *)
OnlySoftFlagsAreReinvestigated ==
    [][\A c \in Checks :
          executed'[c] > 1 /\ executed'[c] # executed[c] =>
              /\ evidence[c].status = "flagged" /\ ~IsHard(c, evidence[c])
              /\ executed[c] = 1]_vars

(* The budgets are constants to tune (pev_state.py:8-12, agent.py:10-12).  *)
(* However they are set, a tighter one buys no money: a claim reaches the  *)
(* engine with every check gathered and every fact of the bill clean, the  *)
(* damage of a usable photo, a story that was judged against that damage,  *)
(* the peril that picks the pool and the policy.  With a single replan the *)
(* planner's sufficient branch passes on a soft flag (pev_nodes.py:93-104),*)
(* but never another one than the coverage of a peril read too late, of    *)
(* which the engine reads the policy itself (rules_engine.py:41, 56-57).   *)
BilledFactsAreClean ==
    pc \in {"adjudicate", "adjudicated"} =>
        /\ Resolved(evidence) = Checks
        /\ Flagged(evidence) \subseteq {"policy_coverage"}
        /\ \A c \in Flagged(evidence) : ~IsHard(c, evidence[c])
        /\ evidence["story_consistency"].cost = evidence["damage_type"].cost
        /\ evidence["claimed_peril"].peril \in Pools
        /\ claim.policy # NoPolicy
        /\ pc = "adjudicated" /\ claim.live =>
             rows = [p \in Pools |-> IF p = evidence["claimed_peril"].peril
                                       THEN evidence["damage_type"].cost ELSE 0]

(* The agent implements ClaimDecision: cleared facts are the clean checks, *)
(* effort the tool calls.                                                  *)
Decision ==
    INSTANCE ClaimDecision WITH
        Facts <- Checks,
        Budget <- MaxToolCalls,
        cleared <- Clean(evidence),
        effort <- toolCalls,
        decision <- CASE pc = "adjudicated" -> "rules_engine"
                      [] pc = "handed_over" -> "human"
                      [] pc = "raised" -> "failed"
                      [] pc \notin Ended -> "open"

DecisionFairSpec == Decision!FairSpec

=============================================================================
