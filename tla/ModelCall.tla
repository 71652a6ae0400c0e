------------------------------- MODULE ModelCall -------------------------------
(***************************************************************************)
(* What the callers of a model client rely on: a call asks the provider a  *)
(* bounded number of times and then answers or fails, and it always ends.  *)
(***************************************************************************)
EXTENDS Naturals

CONSTANTS
    Clients,  \* those who call
    Budget    \* how often a call of each may ask, at least once

VARIABLES
    outcome,  \* of each client's last call
    asked     \* how often it has asked

callVars == <<outcome, asked>>

Init ==
    /\ outcome = [c \in Clients |-> "none"]
    /\ asked = [c \in Clients |-> 0]

Begin(c) ==
    /\ outcome[c] # "pending"
    /\ outcome' = [outcome EXCEPT ![c] = "pending"]
    /\ asked' = [asked EXCEPT ![c] = 0]

(* A request that ends the call, or leaves it with requests to spare.      *)
Request(c) ==
    /\ outcome[c] = "pending"
    /\ asked[c] < Budget[c]
    /\ asked' = [asked EXCEPT ![c] = @ + 1]
    /\ \/ \E end \in {"answered", "failed"} : outcome' = [outcome EXCEPT ![c] = end]
       \/ UNCHANGED outcome

(* Nothing is left to try.                                                 *)
Exhaust(c) ==
    /\ outcome[c] = "pending"
    /\ asked[c] = Budget[c]
    /\ outcome' = [outcome EXCEPT ![c] = "failed"]
    /\ UNCHANGED asked

Next == \E c \in Clients : Begin(c) \/ Request(c) \/ Exhaust(c)

Spec == Init /\ [][Next]_callVars

FairSpec == Spec /\ \A c \in Clients : WF_callVars(Request(c) \/ Exhaust(c))

=============================================================================
