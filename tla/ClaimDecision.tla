---------------------------- MODULE ClaimDecision ----------------------------
(***************************************************************************)
(* What the PEV agent promises whoever hands it a claim: facts are cleared *)
(* one bounded piece of work at a time and stay cleared; the rules engine  *)
(* decides only when every fact is clear, a human gets the claim only when *)
(* some fact is not, and one of the two happens unless the run fails.      *)
(***************************************************************************)
EXTENDS Naturals

CONSTANTS
    Facts,    \* what must be clear before money is computed
    Budget    \* how many pieces of work a claim may cost, a natural number

VARIABLES
    cleared,   \* the facts found clean
    effort,    \* pieces of work done
    decision   \* who decided, or that the run failed

vars == <<cleared, effort, decision>>

Init ==
    /\ cleared = {}
    /\ effort = 0
    /\ decision = "open"

(* Work clears any number of facts, and none is ever taken back.           *)
Work ==
    /\ decision = "open"
    /\ effort < Budget
    /\ effort' = effort + 1
    /\ cleared' \in SUBSET Facts
    /\ cleared \subseteq cleared'
    /\ UNCHANGED decision

Settle ==
    /\ decision = "open"
    /\ cleared = Facts
    /\ decision' = "rules_engine"
    /\ UNCHANGED <<cleared, effort>>

HandOver ==
    /\ decision = "open"
    /\ cleared # Facts
    /\ decision' = "human"
    /\ UNCHANGED <<cleared, effort>>

Fail ==
    /\ decision = "open"
    /\ decision' = "failed"
    /\ UNCHANGED <<cleared, effort>>

Next == Work \/ Settle \/ HandOver \/ Fail

Spec == Init /\ [][Next]_vars

FairSpec == Spec /\ WF_vars(Next)

=============================================================================
