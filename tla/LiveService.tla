----------------------------- MODULE LiveService -----------------------------
(***************************************************************************)
(* app/main.py with the three upload entry points behind it: photos come   *)
(* in as claims, are adjudicated, answered and logged, while the process   *)
(* may die and a streaming customer may hang up.                           *)
(*                                                                         *)
(* The handler of an upload holds the event loop from its first line to    *)
(* its return, so uploads never overlap.  A stream runs in a thread, from  *)
(* one yield to the next: the event loop must be free to start the thread  *)
(* again, but a thread once started goes on while an upload holds it.      *)
(*                                                                         *)
(* An action is what a run does up to its next commit, its next yield or   *)
(* its end.  PEVLoop says what happens inside an investigation.            *)
(***************************************************************************)
EXTENDS RulesEngine, Sequences

CONSTANTS
    Requests,      \* the requests; the claim a request opens has its name
    NoRequest,     \* the event loop serves nobody
    NoClaim,       \* the empty claim_id
    Policies,      \* the policy rows of the customers
    NoPolicy,      \* the policy of an unknown customer
    DamageCosts,   \* what the perceived instances can cost
    Confidences,   \* what a vision call can report
    MaxCrashes,    \* bound: how often the process dies
    Reviewers, Decisions, NoDecision, QueueLimit   \* see AdjudicationStore

ASSUME ServiceAssumption ==
    /\ NoRequest \notin Requests
    /\ NoClaim \notin Requests
    /\ Policies \subseteq PolicyRow
    /\ NoPolicy \notin PolicyRow
    /\ DamageCosts \subseteq Nat \ {0}
    /\ Confidences \subseteq Nat
    /\ MaxCrashes \in Nat
    /\ NoDecision \notin Decisions
    /\ QueueLimit \in Nat

VARIABLES
    request,    \* per request: its endpoint and architecture, the policy
    stage,      \* how far each request has come
    serving,    \* the upload that holds the event loop
    running,    \* the streams whose thread is between two yields
    claims,     \* the requests with a committed row in claims
    rows,       \* the committed damage rows of each claim, costed per pool
    verdict,    \* what each run decided
    crashes,    \* how often the process has died
    log, views, acked   \* see AdjudicationStore

dbVars == <<claims, rows>>

logVars == <<log, views, acked>>

vars == <<request, stage, serving, running, claims, rows, verdict, crashes, logVars>>

(* "stream" is Arch 3 behind /api/upload/stream.                           *)
Endpoints == {"1", "2", "3", "stream"}

AgentEndpoints == {"3", "stream"}

Underway == {"started", "opened", "persisted", "decided", "recorded"}

Ended == {"answered", "error", "rejected", "disconnected", "lost"}

(* Before a run has decided its verdict holds at most the confidence.      *)
Verdicts ==
    [claim : Requests \cup {NoClaim}, route : Routes \cup {"retake", "none"},
     payout : Nat \cup {NoAmount}, confidence : Nat]

Undecided == [claim |-> NoClaim, route |-> "none", payout |-> NoAmount, confidence |-> 0]

Store == INSTANCE AdjudicationStore WITH MaxRows <- Cardinality(Requests)

TypeOK ==
    /\ request \in [Requests -> [endpoint : Endpoints, policy : PolicyRow \cup {NoPolicy}]]
    /\ stage \in [Requests -> {"arrived"} \cup Underway \cup Ended]
    /\ serving \in Requests \cup {NoRequest}
    /\ running \subseteq Requests
    /\ claims \subseteq Requests
    /\ rows \in [Requests -> PoolCosts]
    /\ verdict \in [Requests -> Verdicts]
    /\ crashes \in Nat
    /\ Store!TypeOK

NoRows == [p \in Pools |-> 0]

Init ==
    /\ request \in [Requests -> [endpoint : Endpoints, policy : Policies \cup {NoPolicy}]]
    /\ stage = [r \in Requests |-> "arrived"]
    /\ serving = NoRequest
    /\ running = {}
    /\ claims = {}
    /\ rows = [r \in Requests |-> NoRows]
    /\ verdict = [r \in Requests |-> Undecided]
    /\ crashes = 0
    /\ Store!Init

-----------------------------------------------------------------------------
(* The event loop and the stream threads.                                  *)

Streaming(r) == request[r].endpoint = "stream"

(* r's code is the code that runs, in the loop or in its thread.           *)
Works(r) == serving = r \/ r \in running

(* A known customer with an image gets through to the pipeline.            *)
Accept(r) ==
    /\ stage[r] = "arrived"
    /\ serving = NoRequest
    /\ request[r].policy # NoPolicy
    /\ stage' = [stage EXCEPT ![r] = "started"]
    /\ serving' = IF Streaming(r) THEN NoRequest ELSE r
    /\ UNCHANGED <<request, running, dbVars, verdict, crashes, logVars>>

(* 404 for an unknown customer_id, 400 for a file that is no image.        *)
Reject(r) ==
    /\ stage[r] = "arrived"
    /\ serving = NoRequest
    /\ stage' = [stage EXCEPT ![r] = "rejected"]
    /\ UNCHANGED <<request, serving, running, dbVars, verdict, crashes, logVars>>

(* The loop sends what was yielded and asks the generator for more.        *)
NextChunk(r) ==
    /\ Streaming(r)
    /\ stage[r] \in Underway
    /\ r \notin running
    /\ serving = NoRequest
    /\ running' = running \cup {r}
    /\ UNCHANGED <<request, stage, serving, dbVars, verdict, crashes, logVars>>

(* r's code goes on to stage s, and stops at a yield if it is a stream.    *)
GoOn(r, s) ==
    /\ stage' = [stage EXCEPT ![r] = s]
    /\ UNCHANGED <<request, serving, running, crashes, logVars>>

Yield(r, s) ==
    /\ stage' = [stage EXCEPT ![r] = s]
    /\ running' = running \ {r}
    /\ UNCHANGED <<request, serving, crashes, logVars>>

(* r's run is over: the loop is free, the generator is closed.             *)
Leave(r, s) ==
    /\ stage' = [stage EXCEPT ![r] = s]
    /\ running' = running \ {r}
    /\ serving' = IF serving = r THEN NoRequest ELSE serving
    /\ UNCHANGED <<request, dbVars, verdict, crashes>>

Decide(r, claim, route, payout, confidence) ==
    verdict' = [verdict EXCEPT ![r] =
        [claim |-> claim, route |-> route, payout |-> payout, confidence |-> confidence]]

Perceive(r, confidence) == verdict' = [verdict EXCEPT ![r].confidence = confidence]

-----------------------------------------------------------------------------
(* Arch 1, vlm_call.decide_upload: one call decides, nothing is written.   *)
(* Its result names a claim that no table holds.                           *)
DecideUpload(r) ==
    /\ Works(r) /\ stage[r] = "started" /\ request[r].endpoint = "1"
    /\ \E covered \in BOOLEAN, payout \in DamageCosts \cup {NoAmount} :
          Decide(r, r, IF covered THEN "auto_approve" ELSE "auto_deny", payout, 0)
    /\ Yield(r, "decided")
    /\ UNCHANGED dbVars

(* Arch 2, pipeline.run_upload: the gatekeeper turns the photo away, or    *)
(* the assessor sees no damage.                                            *)
SeeNothing(r) ==
    /\ Works(r) /\ stage[r] = "started" /\ request[r].endpoint = "2"
    /\ \E route \in {"retake", "escalate"}, confidence \in Confidences :
          Decide(r, NoClaim, route, NoAmount, confidence)
    /\ Yield(r, "decided")
    /\ UNCHANGED dbVars

(* _write_live_claim: the claim and its rows in one commit, every row in   *)
(* the placeholder pool.                                                   *)
WriteLiveClaim(r) ==
    /\ Works(r) /\ stage[r] = "started" /\ request[r].endpoint = "2"
    /\ claims' = claims \cup {r}
    /\ \E cost \in DamageCosts, confidence \in Confidences :
          /\ rows' = [rows EXCEPT ![r]["collision"] = cost]
          /\ Perceive(r, confidence)
    /\ GoOn(r, "persisted")

(* Arch 3, create_live_claim: the claim before the investigation.          *)
CreateLiveClaim(r) ==
    /\ Works(r) /\ stage[r] = "started" /\ request[r].endpoint \in AgentEndpoints
    /\ claims' = claims \cup {r}
    /\ Yield(r, "opened")
    /\ UNCHANGED <<rows, verdict>>

(* The agent hands the claim to a human.                                   *)
HandOver(r) ==
    /\ Works(r) /\ stage[r] = "opened"
    /\ \E confidence \in Confidences \cup {0} : Decide(r, r, "escalate", NoAmount, confidence)
    /\ Yield(r, "decided")
    /\ UNCHANGED dbVars

(* persist_live_damage, on clean evidence.                                 *)
PersistLiveDamage(r) ==
    /\ Works(r) /\ stage[r] = "opened"
    /\ \E p \in Pools, cost \in DamageCosts, confidence \in Confidences :
          /\ rows' = [rows EXCEPT ![r] = [NoRows EXCEPT ![p] = cost]]
          /\ Perceive(r, confidence)
    /\ GoOn(r, "persisted")
    /\ UNCHANGED claims

(* Mutant: the single-pool branch for every live upload.                   *)
LivePayoutOfRows(r, confidence) ==
    ComputePayoutLive(request[r].policy, rows[r], confidence)

(* What the rules engine makes of the rows as they are stored.             *)
PayoutOfRows(r, confidence) ==
    IF request[r].endpoint = "2"
      THEN ComputePayoutLive(request[r].policy, rows[r], confidence)
      ELSE ComputePayout(request[r].policy, rows[r], confidence)

Price(r) ==
    /\ Works(r) /\ stage[r] = "persisted"
    /\ LET confidence == verdict[r].confidence
           result     == PayoutOfRows(r, confidence)
       IN  Decide(r, r, result.route, result.payout, confidence)
    /\ Yield(r, "decided")
    /\ UNCHANGED dbVars

-----------------------------------------------------------------------------
(* Mutant: only what a human has to see is logged.                         *)
RecordEscalations(r) ==
    /\ Works(r) /\ stage[r] = "decided" /\ ~Streaming(r)
    /\ IF request[r].endpoint # "1" /\ verdict[r].route = "escalate"
         THEN Store!Record(verdict[r]) ELSE UNCHANGED logVars
    /\ stage' = [stage EXCEPT ![r] = "recorded"]
    /\ UNCHANGED <<request, serving, running, dbVars, verdict, crashes>>

(* The end of upload: store.record unless Arch 1 ran, then the answer.     *)
RecordResult(r) ==
    /\ Works(r) /\ stage[r] = "decided" /\ ~Streaming(r)
    /\ IF request[r].endpoint # "1" THEN Store!Record(verdict[r]) ELSE UNCHANGED logVars
    /\ stage' = [stage EXCEPT ![r] = "recorded"]
    /\ UNCHANGED <<request, serving, running, dbVars, verdict, crashes>>

Answer(r) ==
    /\ Works(r) /\ stage[r] = "recorded"
    /\ Leave(r, "answered")
    /\ UNCHANGED logVars

(* The end of the generator of upload_stream: the result is sent.          *)
SendResult(r) ==
    /\ Works(r) /\ stage[r] = "decided" /\ Streaming(r)
    /\ Leave(r, "answered")
    /\ UNCHANGED logVars

(* Where something can still go wrong: recording, but not sending.         *)
CanFail(r) ==
    \/ stage[r] \in {"started", "opened", "persisted"}
    \/ stage[r] = "decided" /\ request[r].endpoint \in {"2", "3"}

(* Mutant: the stream's except clause goes on to the next step.            *)
KeepTrying(r) ==
    /\ Works(r) /\ CanFail(r)
    /\ Leave(r, IF Streaming(r) THEN stage[r] ELSE "error")
    /\ UNCHANGED logVars

(* A model call gives up, the database is locked: 502 from the pipeline,   *)
(* 500 from store.record, an error event from the stream.  What was        *)
(* committed stays.                                                        *)
Fail(r) ==
    /\ Works(r) /\ CanFail(r)
    /\ Leave(r, "error")
    /\ UNCHANGED logVars

(* The customer of a stream hangs up; the loop notices between two chunks. *)
Disconnect(r) ==
    /\ Streaming(r)
    /\ stage[r] \in Underway
    /\ r \notin running
    /\ serving = NoRequest
    /\ Leave(r, "disconnected")
    /\ UNCHANGED logVars

(* Mutant: the schema of the log is created anew at startup.               *)
CrashAndDropLog ==
    /\ crashes < MaxCrashes
    /\ crashes' = crashes + 1
    /\ stage' = [r \in Requests |-> IF stage[r] \in Ended THEN stage[r] ELSE "lost"]
    /\ serving' = NoRequest
    /\ running' = {}
    /\ log' = <<>>
    /\ UNCHANGED <<request, dbVars, verdict, views, acked>>

(* The process dies and is started again; the database file stays, and     *)
(* ensure_schema finds its table there.                                    *)
Crash ==
    /\ crashes < MaxCrashes
    /\ crashes' = crashes + 1
    /\ stage' = [r \in Requests |-> IF stage[r] \in Ended THEN stage[r] ELSE "lost"]
    /\ serving' = NoRequest
    /\ running' = {}
    /\ UNCHANGED <<request, dbVars, verdict, logVars>>

Review ==
    /\ Store!Review
    /\ UNCHANGED <<request, stage, serving, running, dbVars, verdict, crashes>>

Step(r) ==
    \/ Accept(r) \/ Reject(r) \/ NextChunk(r)
    \/ DecideUpload(r)
    \/ SeeNothing(r) \/ WriteLiveClaim(r)
    \/ CreateLiveClaim(r) \/ HandOver(r) \/ PersistLiveDamage(r)
    \/ Price(r)
    \/ RecordResult(r) \/ Answer(r) \/ SendResult(r)
    \/ Fail(r)

Next == (\E r \in Requests : Step(r) \/ Disconnect(r)) \/ Crash \/ Review

Spec == Init /\ [][Next]_vars

(* Calls return or give up, and the loop comes round to every task.        *)
FairSpec == Spec /\ \A r \in Requests : WF_vars(Step(r))

-----------------------------------------------------------------------------
Logged(r) == {id \in DOMAIN log : log[id].verdict.claim = r}

(* The audit trail can be checked against the claim: for every logged      *)
(* verdict the claim and its damage rows are in the database, the rules    *)
(* engine run on them again gives that route and that payout, and a claim  *)
(* handed over before it was priced has no rows to price (main.py:121-138, *)
(* live_claim.py:53-60, pipeline.py:104-118).                              *)
LogCanBeRecomputed ==
    \A id \in DOMAIN log :
        LET entry == log[id].verdict
            r     == entry.claim
            again == IF request[r].endpoint = "2"
                       THEN ComputePayoutLive(request[r].policy, rows[r], entry.confidence)
                       ELSE ComputePayout(request[r].policy, rows[r], entry.confidence)
        IN  /\ r \in claims
            /\ IF rows[r] = NoRows
                 THEN entry.route = "escalate" /\ entry.payout = NoAmount
                 ELSE entry.route = again.route /\ entry.payout = again.payout

(* What the customer was told and what is on record agree, whatever fails  *)
(* between the commits of a request: an uploaded claim that was answered   *)
(* is logged once with the verdict of the answer, one that got an error is *)
(* not logged, and a logged one was answered unless the process died       *)
(* before the answer left (main.py:120-139, store.py:43-64).               *)
AnswersMatchTheLog ==
    \A r \in Requests :
        /\ \A i, j \in Logged(r) : i = j
        /\ \A id \in Logged(r) : log[id].verdict = verdict[r]
        /\ Logged(r) # {} => stage[r] \in {"recorded", "answered", "lost"}
        /\ (stage[r] = "answered" /\ r \in claims /\ ~Streaming(r)) => Logged(r) # {}

(* The log the service writes keeps the promises of AuditLog, across       *)
(* crashes and whatever the other requests do.                             *)
AuditSpec == Store!AuditSpec

(* Every request ends: no order of uploads, streams and crashes leaves one *)
(* waiting for an event loop or a thread (main.py:103-178).                *)
RequestsEnd == \A r \in Requests : <>(stage[r] \in Ended)

-----------------------------------------------------------------------------
(* What the repository says of the log and of the queue.                   *)

(* store.py:6 and README.md:36: every live adjudication is recorded.       *)
EveryLiveAdjudicationIsLogged ==
    \A r \in Requests :
        (stage[r] = "answered" /\ r \in claims) => Logged(r) # {}

(* README.md:36: escalations form the human review queue.                  *)
EscalationsFormTheQueue ==
    \A r \in Requests :
        (/\ stage[r] = "answered"
         /\ request[r].endpoint \in {"2", "3"}
         /\ verdict[r].route = "escalate") =>
            \E id \in Logged(r) : log[id].status \in {"pending", "resolved"}

=============================================================================
