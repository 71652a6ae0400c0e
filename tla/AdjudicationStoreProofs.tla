----------------------- MODULE AdjudicationStoreProofs -----------------------
(***************************************************************************)
(* The review queue and the audit log of AdjudicationStore, for any number *)
(* of reviewers, rows and decisions and any queue limit.                   *)
(***************************************************************************)
EXTENDS AdjudicationStore, SequenceTheorems, TLAPS

(* A row has a decision exactly when it is resolved, only an escalated     *)
(* verdict is pending or resolved, and an acknowledged resolution is of a  *)
(* resolved row.                                                           *)
StatusInv ==
    \A id \in DOMAIN log :
        /\ log[id].decision # NoDecision <=> log[id].status = "resolved"
        /\ log[id].status # "not_required" => Escalated(log[id].verdict)

AckInv == \A ack \in acked : ack.id \in DOMAIN log /\ ack.decision # NoDecision

IInv == TypeOK /\ StatusInv /\ AckInv /\ DecisionsStand

-----------------------------------------------------------------------------
(* The row record writes for a new verdict.                                *)
LEMMA RowFacts ==
    ASSUME NEW verdict \in Verdicts
    PROVE  /\ Row(verdict) \in Rows
           /\ Row(verdict).verdict = verdict
           /\ Row(verdict).decision = NoDecision
           /\ Row(verdict).status # "resolved"
           /\ Row(verdict).status # "not_required" => Escalated(verdict)
  BY DEF Row, Rows, ReviewStatus

(* What a resolve that goes through changes: the one row, which was        *)
(* pending, and the resolutions acknowledged.                              *)
LEMMA ResolveFacts ==
    ASSUME IInv, NEW reviewer \in Reviewers, NEW id \in DOMAIN log, NEW decision \in Decisions,
           log[id].status = "pending",
           log' = [log EXCEPT ![id].status = "resolved", ![id].decision = decision]
    PROVE  /\ log' \in Seq(Rows)
           /\ DOMAIN log' = DOMAIN log
           /\ log'[id].status = "resolved" /\ log'[id].decision = decision
           /\ \A i \in DOMAIN log :
                /\ log'[i].verdict = log[i].verdict
                /\ i # id => log'[i] = log[i]
<1>1. log \in Seq(Rows) /\ log[id] \in Rows
  BY DEF IInv, TypeOK
<1>2. \A i \in DOMAIN log : log[i] \in Rows
  BY <1>1
<1> DEFINE row == [log[id] EXCEPT !.status = "resolved", !.decision = decision]
<1>3. row \in Rows
  BY <1>1 DEF Rows, ReviewStatus
<1>4. log' \in Seq(Rows)
  <2>1. log' = [log EXCEPT ![id] = row]
    BY <1>1
  <2>2. id \in 1..Len(log)
    BY <1>1
  <2> HIDE DEF row
  <2>3. [log EXCEPT ![id] = row] \in Seq(Rows)
    BY <1>1, <1>3, <2>2, ExceptSeq
  <2> QED
    BY <2>1, <2>3
<1>5. DOMAIN log' = DOMAIN log
  OBVIOUS
<1>6. \A i \in DOMAIN log : i # id => log'[i] = log[i]
  BY <1>1
<1>7. log'[id] = [log[id] EXCEPT !.status = "resolved", !.decision = decision]
  BY <1>1
<1>8. log'[id].status = "resolved" /\ log'[id].decision = decision
      /\ log'[id].verdict = log[id].verdict
  BY <1>1, <1>7 DEF Rows
<1> QED
  BY <1>4, <1>5, <1>6, <1>8

(* Whatever leaves the table, the screens and the answers alone.           *)
LEMMA UnchangedKeepsInv ==
    ASSUME IInv, UNCHANGED storeVars
    PROVE  IInv'
  BY DEF IInv, TypeOK, StatusInv, AckInv, DecisionsStand, storeVars, Resolutions, Rows

(* A new row is of no reviewer's business yet.                             *)
LEMMA RecordKeepsInv ==
    ASSUME IInv, NEW verdict \in Verdicts, Record(verdict)
    PROVE  IInv'
<1>1. CASE verdict.claim = NoClaim
  BY <1>1 DEF Record, IInv, TypeOK, StatusInv, AckInv, DecisionsStand
<1>2. CASE verdict.claim # NoClaim
  <2>1. log' = Append(log, Row(verdict)) /\ views' = views /\ acked' = acked
    BY <1>2 DEF Record
  <2>2. log \in Seq(Rows) /\ Row(verdict) \in Rows
    BY RowFacts DEF IInv, TypeOK
  <2>3. /\ log' \in Seq(Rows)
        /\ DOMAIN log' = DOMAIN log \cup {Len(log) + 1}
        /\ Len(log) + 1 \notin DOMAIN log
        /\ log'[Len(log) + 1] = Row(verdict)
        /\ \A i \in DOMAIN log : log'[i] = log[i]
    BY <2>1, <2>2
  <2>4. TypeOK'
    BY <2>1, <2>3 DEF IInv, TypeOK
  <2>5. StatusInv'
    BY <2>3, RowFacts DEF IInv, StatusInv
  <2>6. AckInv'
    BY <2>1, <2>3 DEF IInv, AckInv
  <2>7. DecisionsStand'
    BY <2>1, <2>3, RowFacts DEF IInv, DecisionsStand, AckInv
  <2> QED
    BY <2>4, <2>5, <2>6, <2>7 DEF IInv
<1> QED
  BY <1>1, <1>2

(* Of two reviewers with a row on the screen one decides.                  *)
LEMMA ReviewKeepsInv ==
    ASSUME IInv, Review
    PROVE  IInv'
<1>1. ASSUME NEW reviewer \in Reviewers, OpenQueue(reviewer)
      PROVE  IInv'
  <2>1. Shown \subseteq DOMAIN log
    BY DEF Shown, Pending
  <2>2. TypeOK'
    BY <1>1, <2>1 DEF OpenQueue, IInv, TypeOK
  <2> QED
    BY <1>1, <2>2 DEF OpenQueue, IInv, StatusInv, AckInv, DecisionsStand
<1>2. ASSUME NEW reviewer \in Reviewers, NEW id \in DOMAIN log, NEW decision \in Decisions,
             Resolve(reviewer, id, decision)
      PROVE  IInv'
  <2>1. CASE log[id].status # "pending"
    BY <1>2, <2>1, UnchangedKeepsInv DEF Resolve, storeVars
  <2>2. CASE log[id].status = "pending"
    <3> DEFINE ack == [reviewer |-> reviewer, id |-> id, decision |-> decision]
    <3>1. /\ log' = [log EXCEPT ![id].status = "resolved", ![id].decision = decision]
          /\ acked' = acked \cup {ack}
          /\ views' = views
      BY <1>2, <2>2 DEF Resolve
    <3>2. /\ log' \in Seq(Rows)
          /\ DOMAIN log' = DOMAIN log
          /\ log'[id].status = "resolved" /\ log'[id].decision = decision
          /\ \A i \in DOMAIN log :
               /\ log'[i].verdict = log[i].verdict
               /\ i # id => log'[i] = log[i]
      BY <2>2, <3>1, ResolveFacts
    <3>3. decision # NoDecision /\ log[id].decision = NoDecision /\ id \in Nat
      BY <2>2, StoreAssumption DEF IInv, TypeOK, StatusInv
    <3>4. \A a \in acked : a.id # id
      BY <3>3 DEF IInv, DecisionsStand
    <3>5. TypeOK'
      BY <3>1, <3>2, <3>3 DEF IInv, TypeOK, Resolutions
    <3>6. StatusInv'
      BY <2>2, <3>2, <3>3 DEF IInv, StatusInv, Escalated
    <3>7. AckInv'
      BY <3>1, <3>2, <3>3 DEF IInv, AckInv
    <3>8. DecisionsStand'
      <4>1. ack.id = id /\ ack.decision = decision
        OBVIOUS
      <4>2. \A a \in acked' : log'[a.id].decision = a.decision
        BY <3>1, <3>2, <3>4, <4>1 DEF IInv, DecisionsStand, AckInv
      <4>3. \A i \in DOMAIN log' : log'[i].decision # NoDecision <=> \E a \in acked' : a.id = i
        <5> TAKE i \in DOMAIN log'
        <5>1. CASE i = id
          BY <5>1, <3>1, <3>2, <3>3, <4>1
        <5>2. CASE i # id
          BY <5>2, <3>1, <3>2, <4>1 DEF IInv, DecisionsStand
        <5> QED
          BY <5>1, <5>2
      <4>4. \A a, b \in acked' : a.id = b.id => a = b
        BY <3>1, <3>4, <4>1 DEF IInv, DecisionsStand
      <4> QED
        BY <4>2, <4>3, <4>4 DEF DecisionsStand
    <3> QED
      BY <3>5, <3>6, <3>7, <3>8 DEF IInv
  <2> QED
    BY <2>1, <2>2
<1> QED
  BY <1>1, <1>2 DEF Review

(* What the service relies on: recording adds a verdict behind the others, *)
(* a review leaves all verdicts as they are.                               *)
LEMMA RecordAppends ==
    ASSUME IInv, NEW verdict \in Verdicts, Record(verdict), verdict.claim # NoClaim
    PROVE  /\ DOMAIN log' = DOMAIN log \cup {Len(log) + 1}
           /\ Len(log) + 1 \notin DOMAIN log
           /\ log'[Len(log) + 1].verdict = verdict
           /\ \A i \in DOMAIN log : log'[i] = log[i]
<1>1. log' = Append(log, Row(verdict))
  BY DEF Record
<1>2. log \in Seq(Rows) /\ Row(verdict) \in Rows
  BY RowFacts DEF IInv, TypeOK
<1> QED
  BY <1>1, <1>2, RowFacts

LEMMA ReviewKeepsVerdicts ==
    ASSUME IInv, Review
    PROVE  /\ DOMAIN log' = DOMAIN log
           /\ \A i \in DOMAIN log : log'[i].verdict = log[i].verdict
<1>1. ASSUME NEW reviewer \in Reviewers, NEW id \in DOMAIN log, NEW decision \in Decisions,
             Resolve(reviewer, id, decision), log[id].status = "pending"
      PROVE  /\ DOMAIN log' = DOMAIN log
             /\ \A i \in DOMAIN log : log'[i].verdict = log[i].verdict
  <2>1. log' = [log EXCEPT ![id].status = "resolved", ![id].decision = decision]
    BY <1>1 DEF Resolve
  <2> QED
    BY <1>1, <2>1, ResolveFacts
<1>2. UNCHANGED log \/ \E reviewer \in Reviewers, id \in DOMAIN log, decision \in Decisions :
                          Resolve(reviewer, id, decision) /\ log[id].status = "pending"
  BY DEF Review, OpenQueue, Resolve
<1> QED
  BY <1>1, <1>2

(* Nothing a step of the system does breaks the invariant.                 *)
LEMMA StepKeepsInv ==
    ASSUME IInv, [Next]_storeVars
    PROVE  IInv'
  BY UnchangedKeepsInv, RecordKeepsInv, ReviewKeepsInv DEF Next

LEMMA InitInv == Init => IInv
  BY DEF Init, IInv, TypeOK, StatusInv, AckInv, DecisionsStand

(* The invariant the theorems below rest on.                               *)
THEOREM StoreInvariant == Spec => []IInv
<1>1. Init => IInv
  BY InitInv
<1>2. IInv /\ [Next]_storeVars => IInv'
  BY StepKeepsInv
<1> QED
  BY <1>1, <1>2, PTL DEF Spec

(* The types of the table, the screens and the acknowledgements.           *)
THEOREM TypeCorrect == Spec => []TypeOK
<1>1. IInv => TypeOK
  BY DEF IInv
<1> QED
  BY <1>1, StoreInvariant, PTL

(* Whoever was told that a resolution went through made the decision on    *)
(* record (store.py:108-118).                                              *)
THEOREM DecisionsStandForEveryone == Spec => []DecisionsStand
<1>1. IInv => DecisionsStand
  BY DEF IInv
<1> QED
  BY <1>1, StoreInvariant, PTL

-----------------------------------------------------------------------------
(* The table starts as an empty audit log.                                 *)
LEMMA InitIsAuditInit == Init => Audit!Init
  BY DEF Init, Audit!Init

(* Recording enters a verdict, or nothing if it names no claim.            *)
LEMMA RecordIsEnter ==
    ASSUME IInv, NEW verdict \in Verdicts, Record(verdict)
    PROVE  [Audit!Next]_(Audit!vars)
<1>1. CASE verdict.claim = NoClaim
  BY <1>1 DEF Record, Audit!vars
<1>2. CASE verdict.claim # NoClaim
  <2> DEFINE old == [id \in DOMAIN log |-> log[id].verdict]
             new == [id \in DOMAIN log' |-> log'[id].verdict]
             oldD == [id \in DOMAIN log |-> log[id].decision]
             newD == [id \in DOMAIN log' |-> log'[id].decision]
  <2>1. log' = Append(log, Row(verdict))
    BY <1>2 DEF Record
  <2>2. log \in Seq(Rows) /\ \A i \in DOMAIN log : log[i] \in Rows
    BY DEF IInv, TypeOK
  <2>3. /\ DOMAIN log = 1..Len(log) /\ Len(log) \in Nat
        /\ Len(log') = Len(log) + 1
        /\ DOMAIN log' = 1..(Len(log) + 1)
        /\ log'[Len(log) + 1] = Row(verdict)
        /\ \A i \in DOMAIN log : log'[i] = log[i]
    BY <2>1, <2>2, RowFacts
  <2>4. /\ \A i \in DOMAIN log' : log'[i].verdict \in Verdicts
        /\ \A i \in DOMAIN log : log[i].decision \in Decisions \cup {NoDecision}
    BY <2>2, <2>3, RowFacts DEF Rows
  <2>5. /\ new \in Seq(Verdicts) /\ Len(new) = Len(log) + 1
        /\ old \in Seq(Verdicts) /\ Len(old) = Len(log)
        /\ DOMAIN old = DOMAIN log
    BY <2>2, <2>3, <2>4
  <2>6. \A i \in DOMAIN old : new[i] = old[i]
    BY <2>3
  <2>7. newD = Append(oldD, NoDecision)
    <3>1. oldD \in Seq(Decisions \cup {NoDecision}) /\ Len(oldD) = Len(log)
      BY <2>3, <2>4
    <3>2. newD[Len(log) + 1] = NoDecision
      BY <2>3, RowFacts
    <3>3. \A i \in 1..Len(log) : newD[i] = oldD[i]
      BY <2>3
    <3> QED
      BY <3>1, <3>2, <3>3, <2>3
  <2>8. Audit!Enter
    BY <2>5, <2>6, <2>7 DEF Audit!Enter
  <2> QED
    BY <2>8 DEF Audit!Next
<1> QED
  BY <1>1, <1>2

(* A reviewer decides on a verdict that waits, or does nothing to the log. *)
LEMMA ReviewIsDecide ==
    ASSUME IInv, Review
    PROVE  [Audit!Next]_(Audit!vars)
<1>1. ASSUME NEW reviewer \in Reviewers, OpenQueue(reviewer)
      PROVE  [Audit!Next]_(Audit!vars)
  BY <1>1 DEF OpenQueue, Audit!vars
<1>2. ASSUME NEW reviewer \in Reviewers, NEW id \in DOMAIN log, NEW decision \in Decisions,
             Resolve(reviewer, id, decision)
      PROVE  [Audit!Next]_(Audit!vars)
  <2>1. CASE log[id].status # "pending"
    BY <1>2, <2>1 DEF Resolve, Audit!vars
  <2>2. CASE log[id].status = "pending"
    <3> DEFINE old == [i \in DOMAIN log |-> log[i].verdict]
               new == [i \in DOMAIN log' |-> log'[i].verdict]
               oldD == [i \in DOMAIN log |-> log[i].decision]
               newD == [i \in DOMAIN log' |-> log'[i].decision]
    <3>1. log' = [log EXCEPT ![id].status = "resolved", ![id].decision = decision]
      BY <1>2, <2>2 DEF Resolve
    <3>2. /\ DOMAIN log' = DOMAIN log
          /\ log'[id].decision = decision
          /\ \A i \in DOMAIN log :
               /\ log'[i].verdict = log[i].verdict
               /\ i # id => log'[i] = log[i]
      BY <2>2, <3>1, ResolveFacts
    <3>3. new = old
      BY <3>2
    <3>4. newD = [oldD EXCEPT ![id] = decision]
      BY <3>2
    <3>5. Escalated(log[id].verdict) /\ log[id].decision = NoDecision
      BY <2>2 DEF IInv, StatusInv
    <3>6. id \in DOMAIN old /\ Escalated(old[id]) /\ oldD[id] = NoDecision
      BY <3>5 DEF Escalated
    <3>7. Audit!Decide
      BY <3>3, <3>4, <3>6 DEF Audit!Decide
    <3> QED
      BY <3>7 DEF Audit!Next
  <2> QED
    BY <2>1, <2>2
<1> QED
  BY <1>1, <1>2 DEF Review

LEMMA StepIsAuditStep ==
    ASSUME IInv, [Next]_storeVars
    PROVE  [Audit!Next]_(Audit!vars)
<1>1. CASE UNCHANGED storeVars
  BY <1>1 DEF storeVars, Audit!vars
<1> QED
  BY <1>1, RecordIsEnter, ReviewIsDecide DEF Next

(* The table is an audit log: verdicts are entered and never rewritten,    *)
(* and an escalated one is decided once (store.py:6-9, 109-111).           *)
THEOREM StoreIsAuditLog == Spec => AuditSpec
<1>1. Init => Audit!Init
  BY InitIsAuditInit
<1>2. IInv /\ [Next]_storeVars => [Audit!Next]_(Audit!vars)
  BY StepIsAuditStep
<1> QED
  BY <1>1, <1>2, StoreInvariant, PTL DEF Spec, AuditSpec, Audit!Spec

=============================================================================
