-------------------------- MODULE AdjudicationStore --------------------------
(***************************************************************************)
(* app/store.py: the adjudications table, an audit log whose escalated     *)
(* rows are the human review queue.  Reviewers read the queue, take their  *)
(* time, and resolve what they saw; several may hold the same row, and one *)
(* may resolve it again.                                                   *)
(***************************************************************************)
EXTENDS Integers, Sequences, FiniteSets

CONSTANTS
    Verdicts,     \* the results of a run, each with a claim and a route
    NoClaim,      \* the empty claim_id
    Reviewers,    \* who reads the queue and resolves
    Decisions,    \* the review_decision values the table accepts
    NoDecision,   \* NULL in review_decision
    QueueLimit,   \* the limit argument of queue
    MaxRows       \* bound: rows of the table in an instance

ASSUME StoreAssumption ==
    /\ \A verdict \in Verdicts : {"claim", "route"} \subseteq DOMAIN verdict
    /\ NoDecision \notin Decisions
    /\ QueueLimit \in Nat

VARIABLES
    log,      \* the adjudications table in the order of its ids
    views,    \* the ids each reviewer has on the screen
    acked     \* the resolutions resolve answered True to

storeVars == <<log, views, acked>>

ReviewStatus == {"pending", "resolved", "not_required"}

Rows == [verdict : Verdicts, status : ReviewStatus, decision : Decisions \cup {NoDecision}]

Resolutions == [reviewer : Reviewers, id : Nat, decision : Decisions]

TypeOK ==
    /\ log \in Seq(Rows)
    /\ views \in [Reviewers -> SUBSET DOMAIN log]
    /\ acked \subseteq Resolutions

Init ==
    /\ log = <<>>
    /\ views = [reviewer \in Reviewers |-> {}]
    /\ acked = {}

Escalated(verdict) == verdict.route = "escalate"

(* Mutant: the route ends up in the review_status column.                  *)
RowByRoute(verdict) ==
    [verdict |-> verdict, status |-> verdict.route, decision |-> NoDecision]

Row(verdict) ==
    [verdict |-> verdict,
     status |-> IF Escalated(verdict) THEN "pending" ELSE "not_required",
     decision |-> NoDecision]

(* Mutant: INSERT OR REPLACE, one row per claim.                           *)
RecordLatest(verdict) ==
    LET same == {id \in DOMAIN log : log[id].verdict.claim = verdict.claim}
    IN  /\ log' = IF verdict.claim = NoClaim THEN log
                  ELSE IF same = {} THEN Append(log, Row(verdict))
                  ELSE [id \in DOMAIN log |-> IF id \in same THEN Row(verdict) ELSE log[id]]
        /\ UNCHANGED <<views, acked>>

(* record: a result without a claim is not logged.                         *)
Record(verdict) ==
    /\ log' = IF verdict.claim = NoClaim THEN log ELSE Append(log, Row(verdict))
    /\ UNCHANGED <<views, acked>>

Pending == {id \in DOMAIN log : log[id].status = "pending"}

(* The newest rows of a status, as many as the limit lets through.         *)
Shown == {id \in Pending : Cardinality({later \in Pending : later > id}) < QueueLimit}

OpenQueue(reviewer) ==
    /\ views' = [views EXCEPT ![reviewer] = Shown]
    /\ UNCHANGED <<log, acked>>

(* Mutant: the update is not conditional on review_status = 'pending'.     *)
ResolveAnyway(reviewer, id, decision) ==
    /\ id \in views[reviewer]
    /\ log' = [log EXCEPT ![id].status = "resolved", ![id].decision = decision]
    /\ acked' = acked \cup {[reviewer |-> reviewer, id |-> id, decision |-> decision]}
    /\ UNCHANGED views

(* resolve: one conditional UPDATE, and whether it changed a row.          *)
Resolve(reviewer, id, decision) ==
    /\ id \in views[reviewer]
    /\ \/ /\ log[id].status = "pending"
          /\ log' = [log EXCEPT ![id].status = "resolved", ![id].decision = decision]
          /\ acked' = acked \cup {[reviewer |-> reviewer, id |-> id, decision |-> decision]}
       \/ /\ log[id].status # "pending"
          /\ UNCHANGED <<log, acked>>
    /\ UNCHANGED views

Review ==
    \E reviewer \in Reviewers :
        \/ OpenQueue(reviewer)
        \/ \E id \in DOMAIN log, decision \in Decisions : Resolve(reviewer, id, decision)

Next ==
    \/ Len(log) < MaxRows /\ \E verdict \in Verdicts : Record(verdict)
    \/ Review

Spec == Init /\ [][Next]_storeVars

-----------------------------------------------------------------------------
(* Two reviewers may act on what they read before the other acted.  The    *)
(* one resolve answered True to made the decision on record, and nobody    *)
(* else was told so (store.py:112-118).                                    *)
DecisionsStand ==
    /\ \A ack \in acked : log[ack.id].decision = ack.decision
    /\ \A id \in DOMAIN log :
          log[id].decision # NoDecision <=> \E ack \in acked : ack.id = id
    /\ \A a, b \in acked : a.id = b.id => a = b

(* The machine's verdicts "are written once and never updated", and a      *)
(* human decides only on an escalated one, once (store.py:6-9, 109-111).   *)
Audit ==
    INSTANCE AuditLog WITH
        verdicts <- [id \in DOMAIN log |-> log[id].verdict],
        decisions <- [id \in DOMAIN log |-> log[id].decision]

AuditSpec == Audit!Spec

=============================================================================
