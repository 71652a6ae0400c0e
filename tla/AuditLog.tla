------------------------------- MODULE AuditLog -------------------------------
(***************************************************************************)
(* What app/store.py promises of the adjudications it keeps: a verdict is  *)
(* entered once and stands as it was entered, a verdict that went to a     *)
(* human gets one decision at most, and no other verdict ever gets one.    *)
(***************************************************************************)
EXTENDS Naturals, Sequences

CONSTANTS
    Verdicts,       \* what can be entered
    Escalated(_),   \* whether a verdict waits for a human
    Decisions,      \* what a human can decide
    NoDecision      \* no human has decided

VARIABLES
    verdicts,    \* the verdicts, in the order they were entered
    decisions    \* the human decision on each

vars == <<verdicts, decisions>>

Init ==
    /\ verdicts = <<>>
    /\ decisions = <<>>

Enter ==
    /\ verdicts' \in Seq(Verdicts)
    /\ Len(verdicts') = Len(verdicts) + 1
    /\ \A i \in DOMAIN verdicts : verdicts'[i] = verdicts[i]
    /\ decisions' = Append(decisions, NoDecision)

Decide ==
    \E i \in DOMAIN verdicts, decision \in Decisions :
        /\ Escalated(verdicts[i])
        /\ decisions[i] = NoDecision
        /\ decisions' = [decisions EXCEPT ![i] = decision]
        /\ UNCHANGED verdicts

Next == Enter \/ Decide

Spec == Init /\ [][Next]_vars

=============================================================================
