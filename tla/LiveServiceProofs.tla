--------------------------- MODULE LiveServiceProofs ---------------------------
(***************************************************************************)
(* For any number of requests, crashes and reviewers, any policies, costs  *)
(* and confidences: the log of LiveService can be recomputed, agrees with  *)
(* the answers and is an audit log.                                        *)
(***************************************************************************)
EXTENDS LiveService, RulesEngineProofs

(* What is proved of the store as such.                                    *)
StoreProofs == INSTANCE AdjudicationStoreProofs WITH MaxRows <- Cardinality(Requests)

(* The verdict of r follows from what the database holds of its claim.     *)
Sound(r) ==
    /\ verdict[r].claim = r
    /\ r \in claims
    /\ IF rows[r] = NoRows
         THEN verdict[r].route = "escalate" /\ verdict[r].payout = NoAmount
         ELSE LET result == PayoutOfRows(r, verdict[r].confidence)
              IN  verdict[r].route = result.route /\ verdict[r].payout = result.payout

(* What each commit of r has left behind, by how far r has come.  The      *)
(* monolith opens no claim, and a stream never reaches store.record.       *)
Commits(r) ==
    /\ stage[r] \in Underway => request[r].policy \in PolicyRow
    /\ stage[r] \in {"arrived", "started"} => r \notin claims /\ rows[r] = NoRows
    /\ stage[r] = "opened" => r \in claims /\ rows[r] = NoRows
    /\ stage[r] = "persisted" => r \in claims /\ rows[r] # NoRows
    /\ stage[r] \in {"decided", "recorded", "answered"} =>
          \/ request[r].endpoint = "1"
          \/ verdict[r].claim = NoClaim /\ r \notin claims
          \/ Sound(r)
    /\ stage[r] = "recorded" => ~Streaming(r)
    /\ request[r].endpoint = "1" => r \notin claims

(* A row of the log is the sound verdict of a request that had come as far *)
(* as store.record, there is one per claim, and none is missing.           *)
LogInv ==
    /\ \A id \in DOMAIN log : \E r \in Requests :
          /\ log[id].verdict = verdict[r]
          /\ Sound(r)
          /\ ~Streaming(r)
          /\ stage[r] \in {"recorded", "answered", "lost"}
    /\ \A i, j \in DOMAIN log : log[i].verdict.claim = log[j].verdict.claim => i = j
    /\ \A r \in Requests :
          (stage[r] \in {"recorded", "answered"} /\ r \in claims /\ ~Streaming(r)) =>
              \E id \in DOMAIN log : log[id].verdict.claim = r

IInv ==
    /\ TypeOK
    /\ StoreProofs!IInv
    /\ \A r \in Requests : Commits(r)
    /\ LogInv

-----------------------------------------------------------------------------
(* The store.                                                              *)

LEMMA StoreAssumed == StoreProofs!StoreAssumption
  BY ServiceAssumption DEF StoreProofs!StoreAssumption, Verdicts

LEMMA StoreTyped ==
  /\ StoreProofs!IInv => Store!TypeOK
  /\ StoreProofs!IInv' => Store!TypeOK'
  BY DEF StoreProofs!IInv, StoreProofs!TypeOK, Store!TypeOK, StoreProofs!Rows, Store!Rows,
         StoreProofs!Resolutions, Store!Resolutions,
         StoreProofs!ReviewStatus, Store!ReviewStatus

LEMMA StoreUnchanged ==
  ASSUME StoreProofs!IInv, UNCHANGED logVars
  PROVE  StoreProofs!IInv'
  BY StoreAssumed, StoreProofs!UnchangedKeepsInv DEF logVars, StoreProofs!storeVars

LEMMA StoreRecords ==
  ASSUME NEW r \in Requests, Store!Record(verdict[r])
  PROVE  StoreProofs!Record(verdict[r])
  BY DEF Store!Record, StoreProofs!Record, Store!Row, StoreProofs!Row,
         Store!Escalated, StoreProofs!Escalated

LEMMA StoreReviews ==
  ASSUME Store!Review
  PROVE  StoreProofs!Review
  <1>1. Store!Shown = StoreProofs!Shown
    <2>1. Store!Pending = StoreProofs!Pending
      BY DEF Store!Pending, StoreProofs!Pending
    <2> QED BY <2>1, Zenon DEF Store!Shown, StoreProofs!Shown,
                               Store!Cardinality, StoreProofs!Cardinality
  <1>2. \A reviewer : Store!OpenQueue(reviewer) => StoreProofs!OpenQueue(reviewer)
    BY <1>1 DEF Store!OpenQueue, StoreProofs!OpenQueue
  <1>3. \A reviewer, id, decision :
            Store!Resolve(reviewer, id, decision) => StoreProofs!Resolve(reviewer, id, decision)
    BY Zenon DEF Store!Resolve, StoreProofs!Resolve
  <1> QED BY <1>2, <1>3 DEF Store!Review, StoreProofs!Review

-----------------------------------------------------------------------------
(* What a step may leave alone.                                            *)

Same(d) ==
    /\ stage'[d] = stage[d]
    /\ rows'[d] = rows[d]
    /\ verdict'[d] = verdict[d]
    /\ d \in claims' <=> d \in claims

LEMMA SameIsSound ==
  ASSUME NEW d \in Requests, UNCHANGED request, Sound(d),
         rows'[d] = rows[d], verdict'[d] = verdict[d], d \in claims'
  PROVE  Sound(d)'
  BY DEF Sound, PayoutOfRows, NoRows

LEMMA SameCommits ==
  ASSUME NEW d \in Requests, UNCHANGED request, Commits(d), Same(d)
  PROVE  Commits(d)'
  <1>1. Sound(d) => Sound(d)'
    BY SameIsSound DEF Same, Sound
  <1> QED BY <1>1 DEF Commits, Same, Streaming, NoRows

(* A step of r that records nothing: r was not in the log, or it goes from *)
(* recorded to answered.                                                   *)
LEMMA OwnStep ==
  ASSUME IInv, NEW r \in Requests, UNCHANGED <<request, logVars>>,
         \A d \in Requests \ {r} : Same(d),
         TypeOK', Commits(r)',
         \/ /\ stage[r] \notin {"recorded", "answered", "lost"}
            /\ stage'[r] \in {"recorded", "answered"} => Streaming(r) \/ r \notin claims'
         \/ /\ stage[r] = "recorded" /\ stage'[r] = "answered"
            /\ UNCHANGED <<rows, verdict, claims>>
  PROVE  IInv'
  <1>1. log' = log /\ request' = request
    BY DEF logVars
  <1>2. StoreProofs!IInv'
    BY StoreUnchanged DEF IInv
  <1>3. \A d \in Requests : Commits(d)'
    BY SameCommits DEF IInv
  <1>4. \A d \in Requests : \/ Same(d)
                            \/ stage[d] \notin {"recorded", "answered", "lost"}
                            \/ /\ stage[d] = "recorded" /\ stage'[d] = "answered"
                               /\ UNCHANGED <<rows, verdict, claims>>
    OBVIOUS
  <1>5. ASSUME NEW id \in DOMAIN log
        PROVE  \E d \in Requests :
                   /\ log[id].verdict = verdict'[d]
                   /\ Sound(d)'
                   /\ ~Streaming(d)'
                   /\ stage'[d] \in {"recorded", "answered", "lost"}
    <2>1. PICK d \in Requests :
              /\ log[id].verdict = verdict[d] /\ Sound(d)
              /\ ~Streaming(d) /\ stage[d] \in {"recorded", "answered", "lost"}
      BY DEF IInv, LogInv
    <2>2. /\ rows'[d] = rows[d] /\ verdict'[d] = verdict[d] /\ d \in claims'
          /\ stage'[d] \in {"recorded", "answered", "lost"}
      BY <1>4, <2>1 DEF Same, Sound
    <2>3. Sound(d)'
      BY <1>1, <2>1, <2>2, SameIsSound
    <2> QED BY <1>1, <2>1, <2>2, <2>3 DEF Streaming
  <1>6. ASSUME NEW d \in Requests, stage'[d] \in {"recorded", "answered"}, d \in claims',
               ~Streaming(d)
        PROVE  \E id \in DOMAIN log : log[id].verdict.claim = d
    <2>1. stage[d] \in {"recorded", "answered"} /\ d \in claims
      BY <1>6 DEF Same
    <2> QED BY <1>6, <2>1 DEF IInv, LogInv
  <1>7. LogInv'
    BY <1>1, <1>5, <1>6 DEF IInv, LogInv, Streaming
  <1> QED BY <1>2, <1>3, <1>7 DEF IInv

-----------------------------------------------------------------------------
(* Steps that commit nothing and decide nothing.                           *)

LEMMA QuietStep ==
  ASSUME IInv, NEW r \in Requests, NEW s,
         stage' = [stage EXCEPT ![r] = s],
         UNCHANGED <<request, dbVars, verdict, crashes, logVars>>,
         serving' \in Requests \cup {NoRequest}, running' \subseteq Requests,
         \/ stage[r] = s /\ s \in {"started", "opened", "persisted", "decided"}
         \/ stage[r] = "arrived" /\ s = "started" /\ request[r].policy # NoPolicy
         \/ /\ stage[r] \notin {"recorded", "answered", "lost"}
            /\ s \in {"rejected", "error", "disconnected"}
         \/ stage[r] = "recorded" /\ s = "answered"
         \/ stage[r] = "decided" /\ Streaming(r) /\ s = "answered"
  PROVE  IInv'
  <1>1. /\ stage \in [Requests -> {"arrived"} \cup Underway \cup Ended]
        /\ request[r].policy \in PolicyRow \cup {NoPolicy}
        /\ Commits(r)
    BY DEF IInv, TypeOK
  <1>2. /\ stage'[r] = s /\ request' = request /\ claims' = claims /\ rows' = rows
        /\ verdict' = verdict
        /\ \A d \in Requests \ {r} : Same(d)
    BY <1>1 DEF Same, dbVars
  <1>3. TypeOK'
    <2>1. Store!TypeOK'
      BY StoreTyped, StoreUnchanged DEF IInv
    <2>2. s \in {"arrived"} \cup Underway \cup Ended
      BY <1>1 DEF Underway, Ended
    <2> QED BY <1>1, <1>2, <2>1, <2>2 DEF IInv, TypeOK
  <1>4. Sound(r) => Sound(r)'
    BY <1>2, SameIsSound DEF Sound
  <1>5. Commits(r)'
    BY <1>1, <1>2, <1>4 DEF Commits, Underway, Streaming, NoRows
  <1> QED BY <1>1, <1>2, <1>3, <1>5, OwnStep DEF Streaming

LEMMA QuietStepsKeepInv ==
  ASSUME IInv, NEW r \in Requests,
         Accept(r) \/ Reject(r) \/ NextChunk(r) \/ Answer(r) \/ SendResult(r)
           \/ Fail(r) \/ Disconnect(r)
  PROVE  IInv'
  <1>1. /\ stage \in [Requests -> {"arrived"} \cup Underway \cup Ended]
        /\ serving \in Requests \cup {NoRequest} /\ running \subseteq Requests
        /\ stage[r] = "recorded" => ~Streaming(r)
    BY DEF IInv, TypeOK, Commits
  <1>2. ASSUME Accept(r) PROVE IInv'
    BY <1>1, <1>2, QuietStep DEF Accept
  <1>3. ASSUME Reject(r) PROVE IInv'
    BY <1>1, <1>3, QuietStep DEF Reject
  <1>4. ASSUME NextChunk(r) PROVE IInv'
    <2>1. stage[r] \in {"started", "opened", "persisted", "decided"}
      BY <1>1, <1>4 DEF NextChunk, Underway
    <2>2. stage' = [stage EXCEPT ![r] = stage[r]]
      BY <1>1, <1>4 DEF NextChunk
    <2> QED BY <1>1, <1>4, <2>1, <2>2, QuietStep DEF NextChunk
  <1>5. ASSUME Answer(r) PROVE IInv'
    BY <1>1, <1>5, QuietStep DEF Answer, Leave
  <1>6. ASSUME SendResult(r) PROVE IInv'
    BY <1>1, <1>6, QuietStep DEF SendResult, Leave
  <1>7. ASSUME Fail(r) PROVE IInv'
    BY <1>1, <1>7, QuietStep DEF Fail, CanFail, Leave
  <1>8. ASSUME Disconnect(r) PROVE IInv'
    <2>1. stage[r] \notin {"recorded", "answered", "lost"}
      BY <1>1, <1>8 DEF Disconnect, Underway
    <2> QED BY <1>1, <1>8, <2>1, QuietStep DEF Disconnect, Leave
  <1> QED BY <1>2, <1>3, <1>4, <1>5, <1>6, <1>7, <1>8

-----------------------------------------------------------------------------
(* Steps that decide or commit.  Such a step sets one entry of verdict, of *)
(* rows or of both, and r is not in the log before it.                     *)

LEMMA CommitStep ==
  ASSUME IInv, NEW r \in Requests, NEW s \in {"opened", "persisted", "decided"},
         NEW v \in Verdicts, NEW damage \in PoolCosts,
         stage[r] \in {"started", "opened", "persisted"},
         stage' = [stage EXCEPT ![r] = s],
         verdict' = [verdict EXCEPT ![r] = v],
         rows' = [rows EXCEPT ![r] = damage],
         claims' = claims \/ claims' = claims \cup {r},
         UNCHANGED <<request, serving, crashes, logVars>>,
         running' \subseteq running,
         Commits(r)'
  PROVE  IInv'
  <1>1. /\ stage \in [Requests -> {"arrived"} \cup Underway \cup Ended]
        /\ verdict \in [Requests -> Verdicts] /\ rows \in [Requests -> PoolCosts]
    BY DEF IInv, TypeOK
  <1>2. /\ stage'[r] = s
        /\ \A d \in Requests \ {r} : Same(d)
    BY <1>1 DEF Same
  <1>3. TypeOK'
    <2>1. Store!TypeOK'
      BY StoreTyped, StoreUnchanged DEF IInv
    <2>2. stage' \in [Requests -> {"arrived"} \cup Underway \cup Ended]
      BY <1>1 DEF Underway
    <2>3. verdict' \in [Requests -> Verdicts] /\ rows' \in [Requests -> PoolCosts]
      BY <1>1
    <2> QED BY <2>1, <2>2, <2>3 DEF IInv, TypeOK
  <1> QED BY <1>2, <1>3, OwnStep

(* The verdicts the handlers build are typed.                              *)
LEMMA VerdictTyped ==
  ASSUME NEW claim \in Requests \cup {NoClaim}, NEW route \in Routes \cup {"retake"},
         NEW payout \in Nat \cup {NoAmount}, NEW confidence \in Nat
  PROVE  [claim |-> claim, route |-> route, payout |-> payout, confidence |-> confidence]
            \in Verdicts
  BY DEF Verdicts

LEMMA RequestFacts ==
  ASSUME IInv, NEW r \in Requests
  PROVE  /\ Commits(r) /\ rows[r] \in PoolCosts /\ verdict[r] \in Verdicts
         /\ verdict[r].confidence \in Nat
         /\ rows = [rows EXCEPT ![r] = rows[r]]
         /\ stage \in [Requests -> {"arrived"} \cup Underway \cup Ended]
         /\ verdict \in [Requests -> Verdicts] /\ rows \in [Requests -> PoolCosts]
         /\ request[r].endpoint \in Endpoints
  BY DEF IInv, TypeOK, Verdicts

(* The monolith's verdict, which stands for no claim.                      *)
LEMMA DecideUploadKeepsInv ==
  ASSUME IInv, NEW r \in Requests, DecideUpload(r)
  PROVE  IInv'
  <1>1. PICK covered \in BOOLEAN, payout \in DamageCosts \cup {NoAmount} :
            Decide(r, r, IF covered THEN "auto_approve" ELSE "auto_deny", payout, 0)
    BY DEF DecideUpload
  <1> DEFINE v == [claim |-> r, route |-> IF covered THEN "auto_approve" ELSE "auto_deny",
                   payout |-> payout, confidence |-> 0]
  <1>2. v \in Verdicts
    BY ServiceAssumption, VerdictTyped DEF Routes
  <1>3. verdict' = [verdict EXCEPT ![r] = v]
    BY <1>1 DEF Decide
  <1> HIDE DEF v
  <1>4. /\ stage[r] = "started" /\ request[r].endpoint = "1"
        /\ stage' = [stage EXCEPT ![r] = "decided"]
        /\ claims' = claims /\ rows' = [rows EXCEPT ![r] = rows[r]]
        /\ UNCHANGED <<request, serving, crashes, logVars>> /\ running' \subseteq running
    BY RequestFacts DEF DecideUpload, Yield, dbVars
  <1>5. Commits(r)'
    BY <1>4, RequestFacts DEF Commits, Underway, Streaming
  <1> QED BY <1>2, <1>3, <1>4, <1>5, RequestFacts, CommitStep

(* The verdict on a photo that shows nothing, of no claim.                 *)
LEMMA SeeNothingKeepsInv ==
  ASSUME IInv, NEW r \in Requests, SeeNothing(r)
  PROVE  IInv'
  <1>1. PICK route \in {"retake", "escalate"}, confidence \in Confidences :
            Decide(r, NoClaim, route, NoAmount, confidence)
    BY DEF SeeNothing
  <1> DEFINE v == [claim |-> NoClaim, route |-> route,
                   payout |-> NoAmount, confidence |-> confidence]
  <1>2. v \in Verdicts /\ v.claim = NoClaim
    BY ServiceAssumption, VerdictTyped DEF Routes
  <1>3. verdict' = [verdict EXCEPT ![r] = v]
    BY <1>1 DEF Decide
  <1> HIDE DEF v
  <1>4. /\ stage[r] = "started" /\ request[r].endpoint = "2"
        /\ stage' = [stage EXCEPT ![r] = "decided"]
        /\ claims' = claims /\ rows' = [rows EXCEPT ![r] = rows[r]]
        /\ UNCHANGED <<request, serving, crashes, logVars>> /\ running' \subseteq running
    BY RequestFacts DEF SeeNothing, Yield, dbVars
  <1>5. verdict'[r] = v
    BY <1>3, RequestFacts
  <1>6. Commits(r)'
    BY <1>2, <1>4, <1>5, RequestFacts DEF Commits, Underway, Streaming
  <1> QED BY <1>2, <1>3, <1>4, <1>6, RequestFacts, CommitStep

(* The agent's verdict without rows.                                       *)
LEMMA HandOverKeepsInv ==
  ASSUME IInv, NEW r \in Requests, HandOver(r)
  PROVE  IInv'
  <1>1. PICK confidence \in Confidences \cup {0} : Decide(r, r, "escalate", NoAmount, confidence)
    BY DEF HandOver
  <1> DEFINE v == [claim |-> r, route |-> "escalate", payout |-> NoAmount,
                   confidence |-> confidence]
  <1>2. v \in Verdicts /\ v.claim = r /\ v.route = "escalate" /\ v.payout = NoAmount
    BY ServiceAssumption, VerdictTyped DEF Routes
  <1>3. verdict' = [verdict EXCEPT ![r] = v]
    BY <1>1 DEF Decide
  <1> HIDE DEF v
  <1>4. /\ stage[r] = "opened"
        /\ stage' = [stage EXCEPT ![r] = "decided"]
        /\ claims' = claims /\ rows' = [rows EXCEPT ![r] = rows[r]] /\ rows' = rows
        /\ UNCHANGED <<request, serving, crashes, logVars>> /\ running' \subseteq running
    BY RequestFacts DEF HandOver, Yield, dbVars
  <1>5. verdict'[r] = v
    BY <1>3, RequestFacts
  <1>6. Sound(r)'
    BY <1>2, <1>4, <1>5, RequestFacts DEF Sound, Commits, NoRows
  <1>7. Commits(r)'
    BY <1>4, <1>6, RequestFacts DEF Commits, Underway, Streaming
  <1> QED BY <1>2, <1>3, <1>4, <1>7, RequestFacts, CommitStep

(* The rules engine's verdict on the rows as they are stored.              *)
LEMMA PriceKeepsInv ==
  ASSUME IInv, NEW r \in Requests, Price(r)
  PROVE  IInv'
  <1> DEFINE confidence == verdict[r].confidence
             result == PayoutOfRows(r, confidence)
             v == [claim |-> r, route |-> result.route, payout |-> result.payout,
                   confidence |-> confidence]
  <1>1. stage[r] = "persisted" /\ request[r].policy \in PolicyRow
    BY RequestFacts DEF Price, Commits, Underway
  <1>2. result \in PayoutResult
    BY <1>1, RequestFacts, PayoutType, LivePayoutType DEF PayoutOfRows
  <1>3. result.route \in Routes /\ result.payout \in Nat \cup {NoAmount}
    <2> HIDE DEF result
    <2> QED BY <1>2 DEF PayoutResult
  <1>4. v \in Verdicts
    <2> HIDE DEF result
    <2> QED BY <1>3, RequestFacts, VerdictTyped
  <1>5. verdict' = [verdict EXCEPT ![r] = v]
    BY DEF Price, Decide
  <1>6. /\ stage' = [stage EXCEPT ![r] = "decided"]
        /\ claims' = claims /\ rows' = [rows EXCEPT ![r] = rows[r]] /\ rows' = rows
        /\ UNCHANGED <<request, serving, crashes, logVars>> /\ running' \subseteq running
    BY RequestFacts DEF Price, Yield, dbVars
  <1>7. /\ verdict'[r].claim = r /\ verdict'[r].confidence = confidence
        /\ verdict'[r].route = result.route /\ verdict'[r].payout = result.payout
    <2> HIDE DEF result
    <2> QED BY <1>5, RequestFacts
  <1>8. PayoutOfRows(r, verdict[r].confidence)' = result
    BY <1>6, <1>7 DEF PayoutOfRows
  <1> HIDE DEF result, v
  <1>9. Sound(r)'
    BY <1>1, <1>6, <1>7, <1>8, RequestFacts DEF Sound, Commits, NoRows
  <1>10. Commits(r)'
    BY <1>1, <1>6, <1>9, RequestFacts DEF Commits, Underway, Streaming
  <1> QED BY <1>1, <1>4, <1>5, <1>6, <1>10, RequestFacts, CommitStep

(* The claim before the investigation.                                     *)
LEMMA CreateLiveClaimKeepsInv ==
  ASSUME IInv, NEW r \in Requests, CreateLiveClaim(r)
  PROVE  IInv'
  <1>1. /\ stage[r] = "started" /\ request[r].endpoint \in AgentEndpoints
        /\ stage' = [stage EXCEPT ![r] = "opened"]
        /\ claims' = claims \cup {r} /\ rows' = [rows EXCEPT ![r] = rows[r]] /\ rows' = rows
        /\ verdict' = [verdict EXCEPT ![r] = verdict[r]]
        /\ UNCHANGED <<request, serving, crashes, logVars>> /\ running' \subseteq running
    BY RequestFacts DEF CreateLiveClaim, Yield
  <1>2. Commits(r)'
    BY <1>1, RequestFacts DEF Commits, Underway, Streaming, AgentEndpoints, NoRows
  <1> QED BY <1>1, <1>2, RequestFacts, CommitStep

(* Rows are not NoRows: what is seen costs something.                      *)
LEMMA DamageIsSomething ==
  ASSUME NEW p \in Pools, NEW cost \in DamageCosts
  PROVE  /\ [NoRows EXCEPT ![p] = cost] \in PoolCosts
         /\ [NoRows EXCEPT ![p] = cost] # NoRows
  BY ServiceAssumption DEF NoRows, PoolCosts

LEMMA PerceivedTyped ==
  ASSUME IInv, NEW r \in Requests, NEW confidence \in Nat, Perceive(r, confidence)
  PROVE  /\ [verdict[r] EXCEPT !.confidence = confidence] \in Verdicts
         /\ verdict' = [verdict EXCEPT ![r] = [verdict[r] EXCEPT !.confidence = confidence]]
  BY RequestFacts DEF Perceive, Verdicts

(* The claim and its rows in one commit.                                   *)
LEMMA WriteLiveClaimKeepsInv ==
  ASSUME IInv, NEW r \in Requests, WriteLiveClaim(r)
  PROVE  IInv'
  <1>1. PICK cost \in DamageCosts, confidence \in Confidences :
            /\ rows' = [rows EXCEPT ![r]["collision"] = cost]
            /\ Perceive(r, confidence)
    BY DEF WriteLiveClaim
  <1> DEFINE v == [verdict[r] EXCEPT !.confidence = confidence]
             damage == [NoRows EXCEPT !["collision"] = cost]
  <1>2. v \in Verdicts /\ verdict' = [verdict EXCEPT ![r] = v]
    BY <1>1, ServiceAssumption, PerceivedTyped
  <1>3. damage \in PoolCosts /\ damage # NoRows
    BY DamageIsSomething DEF Pools
  <1>4. /\ stage[r] = "started" /\ request[r].endpoint = "2" /\ rows[r] = NoRows
        /\ stage' = [stage EXCEPT ![r] = "persisted"]
        /\ claims' = claims \cup {r}
        /\ UNCHANGED <<request, serving, crashes, logVars>> /\ running' = running
    BY RequestFacts DEF WriteLiveClaim, GoOn, Commits
  <1>5. rows' = [rows EXCEPT ![r] = damage]
    BY <1>1, <1>4, RequestFacts
  <1> HIDE DEF v, damage
  <1>6. stage'[r] = "persisted" /\ rows'[r] = damage /\ NoRows' = NoRows
    BY <1>4, <1>5, RequestFacts DEF NoRows
  <1>7. Commits(r)'
    BY <1>3, <1>4, <1>6, RequestFacts DEF Commits, Underway, Streaming
  <1> QED BY <1>2, <1>3, <1>4, <1>5, <1>7, CommitStep

(* The rows of the agent, of one pool, for a claim already open.           *)
LEMMA PersistLiveDamageKeepsInv ==
  ASSUME IInv, NEW r \in Requests, PersistLiveDamage(r)
  PROVE  IInv'
  <1>1. PICK p \in Pools, cost \in DamageCosts, confidence \in Confidences :
            /\ rows' = [rows EXCEPT ![r] = [NoRows EXCEPT ![p] = cost]]
            /\ Perceive(r, confidence)
    BY DEF PersistLiveDamage
  <1> DEFINE v == [verdict[r] EXCEPT !.confidence = confidence]
             damage == [NoRows EXCEPT ![p] = cost]
  <1>2. v \in Verdicts /\ verdict' = [verdict EXCEPT ![r] = v]
    BY <1>1, ServiceAssumption, PerceivedTyped
  <1>3. damage \in PoolCosts /\ damage # NoRows
    BY DamageIsSomething
  <1>4. rows' = [rows EXCEPT ![r] = damage]
    BY <1>1
  <1>5. /\ stage[r] = "opened"
        /\ stage' = [stage EXCEPT ![r] = "persisted"]
        /\ claims' = claims
        /\ UNCHANGED <<request, serving, crashes, logVars>> /\ running' = running
    BY DEF PersistLiveDamage, GoOn
  <1> HIDE DEF v, damage
  <1>6. stage'[r] = "persisted" /\ rows'[r] = damage /\ NoRows' = NoRows
    BY <1>4, <1>5, RequestFacts DEF NoRows
  <1>7. Commits(r)'
    BY <1>3, <1>5, <1>6, RequestFacts DEF Commits, Underway, Streaming
  <1> QED BY <1>2, <1>3, <1>4, <1>5, <1>7, CommitStep

-----------------------------------------------------------------------------
(* store.record at the end of an upload: what is entered is sound, and the *)
(* first of its claim.                                                     *)
LEMMA RecordResultKeepsInv ==
  ASSUME IInv, NEW r \in Requests, RecordResult(r)
  PROVE  IInv'
  <1>1. /\ stage[r] = "decided" /\ ~Streaming(r)
        /\ stage' = [stage EXCEPT ![r] = "recorded"]
        /\ UNCHANGED <<request, serving, running, claims, rows, verdict, crashes>>
    BY DEF RecordResult, dbVars
  <1>2. /\ stage'[r] = "recorded"
        /\ \A d \in Requests \ {r} : Same(d)
    BY <1>1, RequestFacts DEF Same
  <1>3. Sound(r) => Sound(r)'
    BY <1>1, SameIsSound DEF Sound
  <1>4. Commits(r)'
    BY <1>1, <1>2, <1>3, RequestFacts DEF Commits, Underway, Streaming
  <1>5. ASSUME Store!TypeOK' PROVE TypeOK'
    BY <1>1, <1>5 DEF IInv, TypeOK, Underway
  <1>6. CASE request[r].endpoint = "1" \/ verdict[r].claim = NoClaim
    <2>1. UNCHANGED logVars
      BY <1>6 DEF RecordResult, Store!Record, logVars
    <2>2. r \notin claims
      BY <1>1, <1>6, RequestFacts, ServiceAssumption DEF Commits, Sound
    <2>3. TypeOK'
      BY <1>5, <2>1, StoreTyped, StoreUnchanged DEF IInv
    <2> QED BY <1>1, <1>2, <1>4, <2>1, <2>2, <2>3, OwnStep
  <1>7. CASE request[r].endpoint # "1" /\ verdict[r].claim # NoClaim
    <2>1. /\ StoreProofs!Record(verdict[r]) /\ verdict[r] \in Verdicts
          /\ StoreProofs!IInv
      BY <1>7, StoreRecords, RequestFacts DEF RecordResult, IInv
    <2>2. StoreProofs!IInv'
      BY <2>1, StoreAssumed, StoreProofs!RecordKeepsInv
    <2>3. /\ DOMAIN log' = DOMAIN log \cup {Len(log) + 1}
          /\ Len(log) + 1 \notin DOMAIN log
          /\ log'[Len(log) + 1].verdict = verdict[r]
          /\ \A i \in DOMAIN log : log'[i] = log[i]
      BY <1>7, <2>1, StoreAssumed, StoreProofs!RecordAppends
    <2>4. Sound(r)
      BY <1>1, <1>7, RequestFacts DEF Commits
    <2>5. TypeOK'
      BY <1>5, <2>2, StoreTyped
    <2>6. \A d \in Requests : Commits(d)'
      BY <1>1, <1>2, <1>4, SameCommits DEF IInv
    <2>7. \A id \in DOMAIN log : log[id].verdict.claim # r
      BY <1>1 DEF IInv, LogInv, Sound
    <2>8. ASSUME NEW id \in DOMAIN log'
          PROVE  \E d \in Requests :
                     /\ log'[id].verdict = verdict'[d]
                     /\ Sound(d)'
                     /\ ~Streaming(d)'
                     /\ stage'[d] \in {"recorded", "answered", "lost"}
      <3>1. CASE id \in DOMAIN log
        <4>1. PICK d \in Requests :
                  /\ log[id].verdict = verdict[d] /\ Sound(d)
                  /\ ~Streaming(d) /\ stage[d] \in {"recorded", "answered", "lost"}
          BY <3>1 DEF IInv, LogInv
        <4>2. d # r
          BY <1>1, <4>1
        <4>3. Sound(d)'
          BY <1>1, <4>1, SameIsSound DEF Sound
        <4> QED BY <1>1, <1>2, <2>3, <3>1, <4>1, <4>2, <4>3 DEF Same, Streaming
      <3>2. CASE id = Len(log) + 1
        BY <1>1, <1>2, <1>3, <2>3, <2>4, <3>2 DEF Streaming
      <3> QED BY <2>3, <3>1, <3>2
    <2>9. \A i, j \in DOMAIN log' :
              log'[i].verdict.claim = log'[j].verdict.claim => i = j
      BY <2>3, <2>4, <2>7 DEF IInv, LogInv, Sound
    <2>10. ASSUME NEW d \in Requests, stage'[d] \in {"recorded", "answered"}, d \in claims',
                  ~Streaming(d)'
           PROVE  \E id \in DOMAIN log' : log'[id].verdict.claim = d
      <3>1. CASE d = r
        BY <2>3, <2>4, <3>1 DEF Sound
      <3>2. CASE d # r
        <4>1. \E id \in DOMAIN log : log[id].verdict.claim = d
          BY <1>1, <1>2, <2>10, <3>2 DEF Same, Streaming, IInv, LogInv
        <4> QED BY <2>3, <4>1
      <3> QED BY <3>1, <3>2
    <2>11. LogInv'
      BY <2>8, <2>9, <2>10 DEF LogInv
    <2> QED BY <2>2, <2>5, <2>6, <2>11 DEF IInv
  <1> QED BY <1>6, <1>7

-----------------------------------------------------------------------------
(* A crash leaves the database alone and loses the requests under way.     *)
LEMMA CrashKeepsInv ==
  ASSUME IInv, Crash
  PROVE  IInv'
  <1>1. /\ UNCHANGED <<request, claims, rows, verdict, log, logVars>>
        /\ crashes' = crashes + 1 /\ serving' = NoRequest /\ running' = {}
        /\ stage' = [r \in Requests |-> IF stage[r] \in Ended THEN stage[r] ELSE "lost"]
    BY DEF Crash, dbVars, logVars
  <1>2. ASSUME NEW r \in Requests
        PROVE  /\ stage[r] \in Ended => stage'[r] = stage[r]
               /\ stage[r] \notin Ended => stage'[r] = "lost"
               /\ stage'[r] \in Ended
    BY <1>1 DEF Ended
  <1>3. StoreProofs!IInv'
    BY <1>1, StoreUnchanged DEF IInv
  <1>4. TypeOK'
    <2>1. stage' \in [Requests -> {"arrived"} \cup Underway \cup Ended]
      BY <1>1, <1>2
    <2> QED BY <1>1, <1>3, <2>1, StoreTyped DEF IInv, TypeOK
  <1>5. \A r \in Requests : Sound(r) => Sound(r)'
    BY <1>1, SameIsSound DEF Sound
  <1>6. \A r \in Requests : Commits(r)'
    BY <1>1, <1>2, <1>5 DEF IInv, Commits, Underway, Ended, Streaming
  <1>7. LogInv'
    <2>1. \A r \in Requests : stage[r] \in {"recorded", "answered", "lost"} =>
                                stage'[r] \in {"recorded", "answered", "lost"}
      BY <1>2
    <2>2. \A r \in Requests : stage'[r] \in {"recorded", "answered"} => stage'[r] = stage[r]
      BY <1>2
    <2> QED BY <1>1, <1>5, <2>1, <2>2 DEF IInv, LogInv, Streaming
  <1> QED BY <1>3, <1>4, <1>6, <1>7 DEF IInv

(* A reviewer changes no verdict.                                          *)
LEMMA ReviewKeepsInv ==
  ASSUME IInv, Review
  PROVE  IInv'
  <1>1. /\ UNCHANGED <<request, stage, serving, running, claims, rows, verdict, crashes>>
        /\ StoreProofs!Review /\ StoreProofs!IInv
    BY StoreReviews DEF Review, dbVars, IInv
  <1>2. StoreProofs!IInv'
    BY <1>1, StoreAssumed, StoreProofs!ReviewKeepsInv
  <1>3. /\ DOMAIN log' = DOMAIN log
        /\ \A i \in DOMAIN log : log'[i].verdict = log[i].verdict
    BY <1>1, StoreAssumed, StoreProofs!ReviewKeepsVerdicts
  <1>4. TypeOK'
    BY <1>1, <1>2, StoreTyped DEF IInv, TypeOK
  <1>5. \A r \in Requests : Sound(r) => Sound(r)'
    BY <1>1, SameIsSound DEF Sound
  <1>6. \A r \in Requests : Commits(r)'
    BY <1>1, SameCommits DEF IInv, Same
  <1>7. LogInv'
    BY <1>1, <1>3, <1>5 DEF IInv, LogInv, Streaming
  <1> QED BY <1>2, <1>4, <1>6, <1>7 DEF IInv

LEMMA InitInv == Init => IInv
  <1> SUFFICES ASSUME Init PROVE IInv
    OBVIOUS
  <1>1. StoreProofs!IInv
    <2>1. StoreProofs!Init
      BY DEF Init, Store!Init, StoreProofs!Init
    <2> QED BY <2>1, StoreAssumed, StoreProofs!InitInv
  <1>2. Undecided \in Verdicts
    BY DEF Undecided, Verdicts
  <1>3. NoRows \in PoolCosts
    BY DEF NoRows, PoolCosts
  <1>4. TypeOK
    BY <1>1, <1>2, <1>3, StoreTyped, ServiceAssumption DEF Init, TypeOK
  <1>5. \A r \in Requests : Commits(r)
    BY DEF Init, Commits, Underway
  <1>6. log = <<>> /\ \A r \in Requests : stage[r] = "arrived"
    BY DEF Init, Store!Init
  <1>7. LogInv
    BY <1>6 DEF LogInv
  <1> QED BY <1>1, <1>4, <1>5, <1>7 DEF IInv

LEMMA NextInv == IInv /\ [Next]_vars => IInv'
  <1> SUFFICES ASSUME IInv, [Next]_vars PROVE IInv'
    OBVIOUS
  <1>1. ASSUME NEW r \in Requests, Step(r) \/ Disconnect(r) PROVE IInv'
    <2>1. CASE Accept(r) \/ Reject(r) \/ NextChunk(r) \/ Answer(r) \/ SendResult(r)
                 \/ Fail(r) \/ Disconnect(r)
      BY <2>1, QuietStepsKeepInv
    <2>2. CASE DecideUpload(r) \/ SeeNothing(r) \/ HandOver(r) \/ Price(r)
      BY <2>2, DecideUploadKeepsInv, SeeNothingKeepsInv, HandOverKeepsInv, PriceKeepsInv
    <2>3. CASE WriteLiveClaim(r) \/ CreateLiveClaim(r) \/ PersistLiveDamage(r)
      BY <2>3, WriteLiveClaimKeepsInv, CreateLiveClaimKeepsInv, PersistLiveDamageKeepsInv
    <2>4. CASE RecordResult(r)
      BY <2>4, RecordResultKeepsInv
    <2> QED BY <1>1, <2>1, <2>2, <2>3, <2>4 DEF Step
  <1>2. CASE UNCHANGED vars
    <2>1. UNCHANGED <<request, stage, serving, running, claims, rows, verdict, crashes, logVars>>
          /\ log' = log
      BY <1>2 DEF vars, dbVars, logVars
    <2>2. StoreProofs!IInv'
      BY <2>1, StoreUnchanged DEF IInv
    <2>3. TypeOK'
      BY <2>1, <2>2, StoreTyped DEF IInv, TypeOK
    <2>4. \A r \in Requests : Sound(r) => Sound(r)'
      BY <2>1, SameIsSound DEF Sound
    <2>5. \A r \in Requests : Commits(r)'
      BY <2>1, SameCommits DEF IInv, Same
    <2>6. LogInv'
      BY <2>1, <2>4 DEF IInv, LogInv, Streaming
    <2> QED BY <2>2, <2>3, <2>5, <2>6 DEF IInv
  <1> QED BY <1>1, <1>2, CrashKeepsInv, ReviewKeepsInv DEF Next

(* The invariant, of every behaviour.                                      *)
THEOREM ServiceInvariant == Spec => []IInv
  <1> QED BY InitInv, NextInv, PTL DEF Spec

(* The state of the service is typed.                                      *)
THEOREM TypeCorrect == Spec => []TypeOK
  <1>1. IInv => TypeOK
    BY DEF IInv
  <1> QED BY <1>1, ServiceInvariant, PTL

(* The audit trail can be checked against the claims, whichever requests   *)
(* overlap, fail or die (main.py:121-138, live_claim.py:53-60,             *)
(* pipeline.py:104-118).                                                   *)
THEOREM AuditTrailIsSound == Spec => []LogCanBeRecomputed
  <1>1. IInv => LogCanBeRecomputed
    <2> SUFFICES ASSUME IInv, NEW id \in DOMAIN log
                 PROVE  LET entry == log[id].verdict
                            r     == entry.claim
                            again == PayoutOfRows(r, entry.confidence)
                        IN  /\ r \in claims
                            /\ IF rows[r] = NoRows
                                 THEN entry.route = "escalate" /\ entry.payout = NoAmount
                                 ELSE entry.route = again.route /\ entry.payout = again.payout
      BY DEF LogCanBeRecomputed, PayoutOfRows
    <2>1. PICK r \in Requests : log[id].verdict = verdict[r] /\ Sound(r)
      BY DEF IInv, LogInv
    <2> QED BY <2>1 DEF Sound
  <1> QED BY <1>1, ServiceInvariant, PTL

(* What an uploading customer was told is what is on record, once, and an  *)
(* error is not on record (main.py:120-139, store.py:43-64).               *)
THEOREM AnswersAgreeWithLog == Spec => []AnswersMatchTheLog
  <1>1. IInv => AnswersMatchTheLog
    <2> SUFFICES ASSUME IInv, NEW r \in Requests
                 PROVE  /\ \A i, j \in Logged(r) : i = j
                        /\ \A id \in Logged(r) : log[id].verdict = verdict[r]
                        /\ Logged(r) # {} => stage[r] \in {"recorded", "answered", "lost"}
                        /\ (stage[r] = "answered" /\ r \in claims /\ ~Streaming(r)) =>
                               Logged(r) # {}
      BY DEF AnswersMatchTheLog
    <2>1. \A id \in Logged(r) : /\ log[id].verdict = verdict[r]
                                /\ stage[r] \in {"recorded", "answered", "lost"}
      BY DEF IInv, LogInv, Logged, Sound
    <2>2. \A i, j \in Logged(r) : i = j
      BY DEF IInv, LogInv, Logged
    <2>3. (stage[r] = "answered" /\ r \in claims /\ ~Streaming(r)) => Logged(r) # {}
      BY DEF IInv, LogInv, Logged
    <2> QED BY <2>1, <2>2, <2>3
  <1> QED BY <1>1, ServiceInvariant, PTL

-----------------------------------------------------------------------------
(* A step of the service writes to the log as to an audit log.             *)
LEMMA NextIsAudit ==
  IInv /\ [Next]_vars => [Store!Audit!Next]_(Store!Audit!vars)
  <1> SUFFICES ASSUME IInv, [Next]_vars PROVE [Store!Audit!Next]_(Store!Audit!vars)
    OBVIOUS
  <1>1. ASSUME [StoreProofs!Audit!Next]_(StoreProofs!Audit!vars)
        PROVE  [Store!Audit!Next]_(Store!Audit!vars)
    BY <1>1 DEF StoreProofs!Audit!Next, Store!Audit!Next, StoreProofs!Audit!vars,
                Store!Audit!vars, StoreProofs!Audit!Enter, Store!Audit!Enter,
                StoreProofs!Audit!Decide, Store!Audit!Decide,
                StoreProofs!Escalated, Store!Escalated
  <1>2. CASE UNCHANGED logVars
    BY <1>2 DEF logVars, Store!Audit!vars
  <1>3. CASE Review
    BY <1>1, <1>3, StoreReviews, StoreAssumed, StoreProofs!ReviewIsDecide DEF Review, IInv
  <1>4. ASSUME NEW r \in Requests, Store!Record(verdict[r])
        PROVE  [Store!Audit!Next]_(Store!Audit!vars)
    <2>1. verdict[r] \in Verdicts /\ StoreProofs!IInv
      BY RequestFacts DEF IInv
    <2> QED BY <1>1, <1>4, <2>1, StoreRecords, StoreAssumed, StoreProofs!RecordIsEnter
  <1>5. UNCHANGED logVars \/ Review \/ \E r \in Requests : Store!Record(verdict[r])
    BY DEF Next, vars, Step, Accept, Reject, NextChunk, DecideUpload, SeeNothing,
           WriteLiveClaim, CreateLiveClaim, HandOver, PersistLiveDamage, Price, GoOn, Yield,
           RecordResult, Answer, SendResult, Fail, Disconnect, Crash
  <1> QED BY <1>2, <1>3, <1>4, <1>5

(* The log of the service keeps the promises of AuditLog across crashes    *)
(* and whatever the requests do (store.py:6-9, 109-111).                   *)
THEOREM ServiceKeepsAuditLog == Spec => AuditSpec
  <1>1. Init => Store!Audit!Init
    BY DEF Init, Store!Init, Store!Audit!Init
  <1> QED BY <1>1, ServiceInvariant, NextIsAudit, PTL DEF Spec, AuditSpec,
             Store!AuditSpec, Store!Audit!Spec

=============================================================================
