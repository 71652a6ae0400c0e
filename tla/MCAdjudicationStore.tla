------------------------- MODULE MCAdjudicationStore -------------------------
(* Instances of AdjudicationStore for TLC.                                 *)
EXTENDS AdjudicationStore

(* A claim of each route, an escalated one twice over, and a result that   *)
(* never became a claim.                                                   *)
MCVerdicts ==
    {[claim |-> 1, route |-> "escalate"],
     [claim |-> 2, route |-> "auto_approve"],
     [claim |-> NoClaim, route |-> "escalate"]}

=============================================================================
