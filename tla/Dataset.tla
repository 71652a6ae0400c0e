-------------------------------- MODULE Dataset --------------------------------
(***************************************************************************)
(* The scripts of db/ and the database they share with the live service:   *)
(* seed_policies.py, seed_claims.py, seed_mismatch_claims.py,              *)
(* compute_golden_truth.py and export_golden_set.py.                       *)
(*                                                                         *)
(* A script writes in a transaction of its own (draft): nobody sees it     *)
(* before the commit, and nobody else writes meanwhile (SQLite has one     *)
(* writer; one that waits too long gives up).  A script that reads is not  *)
(* in a transaction: each of its SELECTs sees what is committed by then.   *)
(* A file is saved by write_text, which may leave half a file behind.      *)
(* Claim ids are numbers in the order of the real ids: CLM-00001 and on,   *)
(* then CLM-90001 and on, then live-...                                    *)
(***************************************************************************)
EXTENDS RulesEngine, Sequences, Functions

CONSTANTS
    PolicyOf,      \* the policy seed_policies makes for each customer
    ClaimTables,   \* the claim lists seed_claims draws, one per seed
    MismatchClaims,\* the claim list of seed_mismatch_claims
    MismatchIds,   \* and its ids
    LiveIds,       \* ids of uploads
    LastId,        \* no id comes after it
    LiveClaims,    \* what an upload can be
    SampleSizes,   \* the values of --n
    MaxTruths,     \* how often compute_golden_truth is started: a bound
    Confidences,   \* what a model can report when the set is evaluated
    None,          \* no draft, no file, no script at work
    Torn           \* a file cut off in the middle

Customers == DOMAIN PolicyOf

(* A claim is one incident with one peril: all its damage is in one pool.  *)
Claims == [customer : Customers, pool : Pools, cost : Nat]

SeededIds == UNION {DOMAIN table : table \in ClaimTables}

Ids == SeededIds \cup Range(MismatchIds) \cup LiveIds

Databases ==
    [claims : UNION {[some -> Customers] : some \in SUBSET Ids},
     rows : [Ids -> PoolCosts],
     audited : SUBSET Ids]

ASSUME DatasetAssumption ==
    /\ PolicyOf \in [Customers -> PolicyRow]
    /\ \A table \in ClaimTables \cup {MismatchClaims} : table # <<>> /\ table \in Seq(Claims)
    /\ LiveClaims \subseteq Claims
    /\ SampleSizes \subseteq Nat \ {0}
    /\ MaxTruths \in Nat
    /\ Confidences \subseteq Nat
    /\ MismatchIds \in [DOMAIN MismatchClaims -> Nat] /\ IsInjective(MismatchIds)
    /\ \A table \in ClaimTables, id \in Range(MismatchIds) : id > Len(table)
    /\ \A live \in LiveIds, id \in Range(MismatchIds) : live \in Nat /\ live > id
    /\ LastId \in Nat /\ Ids \subseteq 1..LastId
    /\ None \notin Databases \cup {"filling", "seeded", "labelling"} /\ None \notin Nat

VARIABLES
    policies,  \* the customers in the table policies
    db,        \* claims, their damage rows and the adjudicated ones, committed
    draft,     \* the same with a script's uncommitted changes
    writer,    \* how far that script is
    labelled,  \* so many claims seed_mismatch_claims has priced since its commit
    selecting, \* select_diverse of compute_golden_truth at work, and its variables
    computing, \* compute at work
    truths,    \* how often that script was started
    upload,    \* how far each upload has come, and what it is
    sample, mismatch, golden  \* the three files of records

truthVars == <<selecting, computing, truths>>

scriptVars == <<draft, writer, labelled, truthVars>>

files == <<sample, mismatch, golden>>

vars == <<policies, db, scriptVars, upload, files>>

NoRows == [p \in Pools |-> 0]

RowsOf(claim) == [p \in Pools |-> IF p = claim.pool THEN claim.cost ELSE 0]

(* A record of a file.  torn is not in the file: the claim changed between *)
(* the reads that the record was put together from.                        *)
Records ==
    [id : Ids, customer : Customers, rows : PoolCosts, labelled : BOOLEAN,
     route : Routes, payout : Nat \cup {NoAmount}, torn : BOOLEAN]

Kinds ==
    Routes \X BOOLEAN \X (PayoutReasons \cup {""}) \X (Pools \cup {"none"})

(* select_diverse: the claims listed with their coverage types, those      *)
(* priced so far with their kinds, and the customer whose policy has been  *)
(* read for the next one.                                                  *)
IsSelection(s) ==
    /\ s \in [n : Nat \ {0}, listed : [DOMAIN s.listed -> Pools \cup {"none"}],
              seen : [DOMAIN s.seen -> Kinds], picked : Seq(Ids), overflow : Seq(Ids),
              customer : Customers \cup {None}]
    /\ DOMAIN s.seen \subseteq DOMAIN s.listed /\ DOMAIN s.listed \subseteq Ids

(* compute: the records so far, and what has been read for the next one:   *)
(* the customer of its policy, its costs and its own customer.  audited    *)
(* notes whether the claim was adjudicated when its reading began.         *)
Computations ==
    [picked : Seq(Ids), records : Seq(Records), customer : Customers \cup {None},
     costs : PoolCosts \cup {None}, owner : Customers \cup {None}, audited : BOOLEAN]

TypeOK ==
    /\ policies \subseteq Customers
    /\ \A base \in {db} \cup ({draft} \ {None}) :
          /\ DOMAIN base.claims \subseteq Ids
          /\ Range(base.claims) \subseteq Customers
          /\ base.rows \in [Ids -> PoolCosts]
          /\ base.audited \subseteq Ids
    /\ writer \in {None, "filling", "seeded", "labelling"}
    /\ draft = None <=> writer = None
    /\ labelled = None \/ labelled \in 0..Len(MismatchClaims)
    /\ selecting = None \/ IsSelection(selecting)
    /\ computing = None \/ computing \in Computations
    /\ truths \in 0..MaxTruths
    /\ upload \in [LiveIds -> {"none", "opened", "written", "ended"}]
    /\ \A file \in {sample, mismatch, golden} : file \in {None, Torn} \/ file \in Seq(Records)

Init ==
    /\ policies = {}
    /\ db = [claims |-> <<>>, rows |-> [id \in Ids |-> NoRows], audited |-> {}]
    /\ draft = None
    /\ writer = None
    /\ labelled = None
    /\ selecting = None /\ computing = None /\ truths = 0
    /\ upload = [id \in LiveIds |-> "none"]
    /\ sample = None /\ mismatch = None /\ golden = None

-----------------------------------------------------------------------------
(* seed_policies.seed and seed_claims.seed.                                *)

(* Nobody holds the lock on the database file.                             *)
Free == draft = None

(* Upserts; the rows of a customer are the same every time.                *)
SeedPolicies ==
    /\ Free
    /\ \E some \in SUBSET Customers \ {{}} : policies' = policies \cup some
    /\ UNCHANGED <<db, scriptVars, upload, files>>

Emptied == [db EXCEPT !.claims = <<>>, !.rows = [id \in Ids |-> NoRows]]

(* Mutant: foreign keys stay off, as in the other scripts.                 *)
DeleteAnyway ==
    /\ Free
    /\ policies # {}
    /\ draft' = Emptied
    /\ writer' = "filling"
    /\ UNCHANGED <<policies, db, labelled, truthVars, upload, files>>

(* Mutant: the deletion is committed on its own.                           *)
DeleteAndCommit ==
    /\ Free
    /\ policies # {}
    /\ db.audited = {}
    /\ db' = Emptied
    /\ draft' = Emptied
    /\ writer' = "filling"
    /\ UNCHANGED <<policies, labelled, truthVars, upload, files>>

(* DELETE of all rows and claims; under foreign keys it fails, and the     *)
(* script with it, when an adjudication refers to a claim.                 *)
DeleteClaims ==
    /\ Free
    /\ policies # {}
    /\ db.audited = {}
    /\ draft' = Emptied
    /\ writer' = "filling"
    /\ UNCHANGED <<policies, db, labelled, truthVars, upload, files>>

WithClaims(base, ids, table) ==
    LET place(id) == CHOOSE i \in DOMAIN table : ids[i] = id
        listed    == {ids[i] : i \in DOMAIN table}
    IN  [base EXCEPT
            !.claims = [id \in DOMAIN base.claims \cup listed |->
                          IF id \in listed THEN table[place(id)].customer ELSE base.claims[id]],
            !.rows = [id \in Ids |->
                          IF id \in listed THEN RowsOf(table[place(id)]) ELSE base.rows[id]]]

InsertClaims ==
    /\ writer = "filling"
    /\ \E table \in ClaimTables :
          /\ \A i \in DOMAIN table : table[i].customer \in policies
          /\ draft' = WithClaims(draft, [i \in DOMAIN table |-> i], table)
    /\ writer' = "seeded"
    /\ UNCHANGED <<policies, db, labelled, truthVars, upload, files>>

(* Mutant: the connection is not closed and keeps its lock.                *)
CommitAndHold ==
    /\ writer \in {"seeded", "labelling"}
    /\ db' = draft
    /\ labelled' = IF writer = "labelling" THEN 0 ELSE labelled
    /\ writer' = None
    /\ UNCHANGED <<policies, draft, truthVars, upload, files>>

Commit ==
    /\ writer \in {"seeded", "labelling"}
    /\ db' = draft
    /\ draft' = None
    /\ labelled' = IF writer = "labelling" THEN 0 ELSE labelled
    /\ writer' = None
    /\ UNCHANGED <<policies, truthVars, upload, files>>

-----------------------------------------------------------------------------
(* seed_mismatch_claims.main: foreign keys are off, so a claim of a        *)
(* customer without a policy goes in all the same.                         *)

ReplaceMismatches ==
    /\ Free /\ labelled = None
    /\ draft' = WithClaims(db, MismatchIds, MismatchClaims)
    /\ writer' = "labelling"
    /\ UNCHANGED <<policies, db, labelled, truthVars, upload, files>>

HasPolicy(id) == id \in DOMAIN db.claims /\ db.claims[id] \in policies

(* Mutant: truth at a confidence the models could really have.             *)
WorstConfidence == 0

TruthConfidence == 100

Outcome(id, confidence) == ComputePayout(PolicyOf[db.claims[id]], db.rows[id], confidence)

Labelled(i) ==
    [id |-> MismatchIds[i], customer |-> MismatchClaims[i].customer,
     rows |-> RowsOf(MismatchClaims[i]), labelled |-> TRUE,
     route |-> "escalate", payout |-> NoAmount, torn |-> FALSE]

(* golden_records prices the claims one by one, after they were committed, *)
(* and raises for one that joins to no policy; then there is no new file.  *)
PriceMismatch ==
    /\ labelled # None /\ labelled < Len(MismatchClaims)
    /\ labelled' = IF HasPolicy(MismatchIds[labelled + 1]) THEN labelled + 1 ELSE None
    /\ UNCHANGED <<policies, db, draft, writer, truthVars, upload, files>>

WriteMismatches ==
    /\ labelled = Len(MismatchClaims)
    /\ mismatch' \in {[i \in DOMAIN MismatchIds |-> Labelled(i)], Torn}
    /\ labelled' = None
    /\ UNCHANGED <<policies, db, draft, writer, truthVars, upload, sample, golden>>

-----------------------------------------------------------------------------
(* compute_golden_truth.main and export_golden_set.export.                 *)

PrimaryReason(reasons) ==
    CASE reasons = {} -> ""
      [] "partial_coverage_some_instances_excluded" \in reasons ->
           "partial_coverage_some_instances_excluded"
      [] OTHER -> CHOOSE reason \in reasons : TRUE

CoverageType(id) ==
    IF db.rows[id] = NoRows THEN "none" ELSE CHOOSE p \in Pools : db.rows[id][p] > 0

Kind(result, coverage) ==
    <<result.route, result.payout = 0, PrimaryReason(result.reasons), coverage>>

(* The one statement that lists the claims, at the start of the script.    *)
ListClaims ==
    /\ selecting = None /\ computing = None
    /\ truths < MaxTruths
    /\ truths' = truths + 1
    /\ \E n \in SampleSizes :
          selecting' = [n |-> n, listed |-> [id \in DOMAIN db.claims |-> CoverageType(id)],
                        seen |-> <<>>, picked |-> <<>>, overflow |-> <<>>, customer |-> None]
    /\ UNCHANGED <<policies, db, draft, writer, labelled, computing, upload, files>>

Unpriced(s) == DOMAIN s.listed \ DOMAIN s.seen

(* The loop breaks with n picks, whatever the list still holds.            *)
ScanEnded(s) == Len(s.picked) >= s.n \/ Unpriced(s) = {}

(* ORDER BY claim_id.                                                      *)
NextListed(s) == CHOOSE id \in Unpriced(s) : \A other \in Unpriced(s) : id <= other

(* compute_payout's first read for a listed claim; a claim that is gone    *)
(* by now, or has no policy, ends the script.                              *)
ReadListedPolicy ==
    /\ selecting # None /\ selecting.customer = None /\ ~ScanEnded(selecting)
    /\ LET id == NextListed(selecting)
       IN  selecting' = IF HasPolicy(id) THEN [selecting EXCEPT !.customer = db.claims[id]] ELSE None
    /\ UNCHANGED <<policies, db, draft, writer, labelled, computing, truths, upload, files>>

Scan(s, id, kind) ==
    LET marked == [s EXCEPT !.seen = [c \in DOMAIN s.seen \cup {id} |->
                                        IF c = id THEN kind ELSE s.seen[c]],
                            !.customer = None]
    IN  IF kind \in Range(s.seen) THEN [marked EXCEPT !.overflow = Append(@, id)]
                                  ELSE [marked EXCEPT !.picked = Append(@, id)]

(* Its second read, of the damage rows, and what the loop makes of them.   *)
PriceListed ==
    /\ selecting # None /\ selecting.customer # None
    /\ LET id     == NextListed(selecting)
           result == ComputePayout(PolicyOf[selecting.customer], db.rows[id], TruthConfidence)
       IN  selecting' = Scan(selecting, id, Kind(result, selecting.listed[id]))
    /\ UNCHANGED <<policies, db, draft, writer, labelled, computing, truths, upload, files>>

(* Mutant: the sample is not topped up.                                    *)
SelectDistinct(s) == s.picked

(* The first claim of every kind, topped up with the others.               *)
SelectDiverse(s) ==
    LET all == s.picked \o s.overflow
    IN  SubSeq(all, 1, AtMost(s.n, Len(all)))

Select ==
    /\ selecting # None /\ selecting.customer = None /\ ScanEnded(selecting)
    /\ computing' = [picked |-> SelectDiverse(selecting), records |-> <<>>, customer |-> None,
                     costs |-> None, owner |-> None, audited |-> FALSE]
    /\ selecting' = None
    /\ UNCHANGED <<policies, db, draft, writer, labelled, truths, upload, files>>

(* compute reads the database again, claim by claim: first the policy,     *)
(* which may have gone with its claim,                                     *)
Pick == computing.picked[Len(computing.records) + 1]

Computing ==
    /\ computing # None /\ Len(computing.records) < Len(computing.picked)
    /\ UNCHANGED <<policies, db, draft, writer, labelled, selecting, truths, upload, files>>

ReadPolicy ==
    /\ Computing /\ computing.customer = None
    /\ computing' = IF HasPolicy(Pick)
                      THEN [computing EXCEPT !.customer = db.claims[Pick],
                                             !.audited = Pick \in db.audited]
                      ELSE None

(* then the damage rows that are priced (under a lapsed policy they are    *)
(* not read, nor do they count),                                           *)
ReadCosts ==
    /\ Computing /\ computing.customer # None /\ computing.costs = None
    /\ computing' = [computing EXCEPT !.costs = db.rows[Pick]]

(* then the claim's own row, gone if a reseed came in between,             *)
ReadClaim ==
    /\ Computing /\ computing.costs # None /\ computing.owner = None
    /\ computing' = IF Pick \in DOMAIN db.claims
                      THEN [computing EXCEPT !.owner = db.claims[Pick]] ELSE None

(* and at last the damage rows for the record.                             *)
TruthRecord(id) ==
    LET policy == PolicyOf[computing.customer]
        result == ComputePayout(policy, computing.costs, TruthConfidence)
    IN  [id |-> id, customer |-> computing.owner, rows |-> db.rows[id], labelled |-> FALSE,
         route |-> result.route, payout |-> result.payout,
         torn |-> \/ computing.owner # computing.customer
                  \/ policy.status # "lapsed" /\ computing.costs # db.rows[id]]

ReadDamage ==
    /\ Computing /\ computing.owner # None
    /\ computing' = [computing EXCEPT !.records = Append(@, TruthRecord(Pick)),
                          !.customer = None, !.costs = None, !.owner = None, !.audited = FALSE]

WriteSample ==
    /\ computing # None /\ Len(computing.records) = Len(computing.picked)
    /\ sample' \in {computing.records, Torn}
    /\ computing' = None
    /\ UNCHANGED <<policies, db, draft, writer, labelled, selecting, truths, upload,
                   mismatch, golden>>

(* A torn file does not parse.                                             *)
Export ==
    /\ sample \notin {None, Torn} /\ mismatch # Torn
    /\ golden' \in {IF mismatch = None THEN sample ELSE sample \o mismatch, Torn}
    /\ UNCHANGED <<policies, db, scriptVars, upload, sample, mismatch>>

-----------------------------------------------------------------------------
(* The live service, with foreign keys on.                                 *)

Opened(id, customer) ==
    [c \in DOMAIN db.claims \cup {id} |-> IF c = id THEN customer ELSE db.claims[c]]

(* Arch 2 writes claim and rows in one commit.                             *)
WriteLiveClaim(id) ==
    /\ upload[id] = "none" /\ Free
    /\ \E claim \in LiveClaims :
          /\ claim.customer \in policies
          /\ db' = [db EXCEPT !.claims = Opened(id, claim.customer), !.rows[id] = RowsOf(claim)]
    /\ upload' = [upload EXCEPT ![id] = "written"]
    /\ UNCHANGED <<policies, scriptVars, files>>

(* Arch 3 opens the claim and writes rows only on clean evidence.          *)
CreateLiveClaim(id) ==
    /\ upload[id] = "none" /\ Free
    /\ \E customer \in policies : db' = [db EXCEPT !.claims = Opened(id, customer)]
    /\ upload' = [upload EXCEPT ![id] = "opened"]
    /\ UNCHANGED <<policies, scriptVars, files>>

PersistLiveDamage(id) ==
    /\ upload[id] = "opened" /\ Free
    /\ IF id \in DOMAIN db.claims
         THEN /\ \E claim \in LiveClaims :
                    /\ claim.customer = db.claims[id]
                    /\ db' = [db EXCEPT !.rows[id] = RowsOf(claim)]
              /\ upload' = [upload EXCEPT ![id] = "written"]
         ELSE upload' = [upload EXCEPT ![id] = "ended"] /\ UNCHANGED db
    /\ UNCHANGED <<policies, scriptVars, files>>

(* Mutant: the connection of the service leaves foreign keys off.          *)
RecordUnchecked(id) ==
    /\ upload[id] \in {"opened", "written"} /\ Free
    /\ db' = [db EXCEPT !.audited = @ \cup {id}]
    /\ upload' = [upload EXCEPT ![id] = "ended"]
    /\ UNCHANGED <<policies, scriptVars, files>>

(* store.record, or an error when the claim was deleted meanwhile; of a    *)
(* streamed claim nothing is recorded.                                     *)
Record(id) ==
    /\ upload[id] \in {"opened", "written"} /\ Free
    /\ \/ db' = IF id \in DOMAIN db.claims THEN [db EXCEPT !.audited = @ \cup {id}] ELSE db
       \/ UNCHANGED db
    /\ upload' = [upload EXCEPT ![id] = "ended"]
    /\ UNCHANGED <<policies, scriptVars, files>>

(* A script is killed, or dies of a locked database: its transaction is    *)
(* rolled back, what it had in memory is gone.                             *)
KillWriter ==
    /\ ~Free
    /\ draft' = None
    /\ writer' = None
    /\ UNCHANGED <<policies, db, labelled, truthVars, upload, files>>

KillReader ==
    /\ \/ labelled # None /\ labelled' = None /\ UNCHANGED <<selecting, computing>>
       \/ selecting # None /\ selecting' = None /\ UNCHANGED <<labelled, computing>>
       \/ computing # None /\ computing' = None /\ UNCHANGED <<labelled, selecting>>
    /\ UNCHANGED <<policies, db, draft, writer, truths, upload, files>>

Next ==
    \/ SeedPolicies \/ DeleteClaims \/ InsertClaims \/ Commit
    \/ ReplaceMismatches \/ PriceMismatch \/ WriteMismatches
    \/ ListClaims \/ ReadListedPolicy \/ PriceListed \/ Select
    \/ ReadPolicy \/ ReadCosts \/ ReadClaim \/ ReadDamage \/ WriteSample \/ Export
    \/ \E id \in LiveIds :
          WriteLiveClaim(id) \/ CreateLiveClaim(id) \/ PersistLiveDamage(id) \/ Record(id)
    \/ KillWriter \/ KillReader

Spec == Init /\ [][Next]_vars

-----------------------------------------------------------------------------
Whole(file) == file \notin {None, Torn}

(* Whatever the scripts and the service do to each other, every damage row *)
(* and every adjudication belongs to a claim, and every claim but the      *)
(* mismatch ones to a policy, although half of the connections leave       *)
(* foreign keys off.  Of those, committed before they are priced, none     *)
(* gets into a file without a policy (main.py:46, seed_claims.py:81,       *)
(* seed_mismatch_claims.py:79-87, 113, schema.sql:38-49).                  *)
ReferencesHold ==
    /\ \A id \in Ids : db.rows[id] # NoRows => id \in DOMAIN db.claims
    /\ db.audited \subseteq DOMAIN db.claims
    /\ \A id \in DOMAIN db.claims : id \in Range(MismatchIds) \/ HasPolicy(id)
    /\ \A file \in {sample, mismatch, golden} :
          Whole(file) => \A i \in DOMAIN file : file[i].customer \in policies

(* No script takes away or rewrites a claim that was adjudicated, nor its  *)
(* damage rows: the audit log stays checkable across a reseed              *)
(* (seed_claims.py:88-90, seed_mismatch_claims.py:68-78).                  *)
AuditedClaimsSurvive ==
    [][\A id \in db.audited :
          /\ id \in db'.audited
          /\ id \in DOMAIN db'.claims
          /\ db'.claims[id] = db.claims[id]
          /\ db'.rows[id] = db.rows[id]]_vars

(* "Idempotent replace" (seed_claims.py:88): a reader finds the whole of   *)
(* one seeding or the whole of the next, wherever the script is killed.    *)
SeededPart(base) ==
    [customers |-> [id \in SeededIds \cap DOMAIN base.claims |-> base.claims[id]],
     rows |-> [id \in SeededIds |-> base.rows[id]]]

ReseedingIsAtomic ==
    [][SeededPart(db') = SeededPart(db) \/
       \E table \in ClaimTables :
          SeededPart(db') = SeededPart(WithClaims(Emptied, [i \in DOMAIN table |-> i], table))]_vars

(* "so the 10 picked span distinct outcomes rather than 10 near-identical  *)
(* approvals", and the sample "still has n rows"                           *)
(* (compute_golden_truth.py:31-33, 63-64), whatever the database turns     *)
(* into between the list and each price: the first claim of every kind, as *)
(* they were priced, is picked or else every pick is the first of its      *)
(* kind; there are n picks if n claims were listed; and no claim is picked *)
(* or recorded twice.                                                      *)
SampleSpansOutcomes ==
    /\ (selecting # None /\ ScanEnded(selecting)) =>
          LET picks  == SelectDiverse(selecting)
              seen   == selecting.seen
              firsts == {id \in DOMAIN seen :
                           \A other \in DOMAIN seen : other < id => seen[other] # seen[id]}
          IN  /\ \/ firsts \subseteq Range(picks) /\ Unpriced(selecting) = {}
                 \/ Range(picks) \subseteq firsts
              /\ Len(picks) = AtMost(selecting.n, Cardinality(DOMAIN selecting.listed))
              /\ IsInjective(picks)
    /\ Whole(sample) =>
          \A i, j \in DOMAIN sample : sample[i].id = sample[j].id => i = j

(* "Truth = what should happen if perception were perfect"                 *)
(* (compute_golden_truth.py:14): as long as the database still holds a     *)
(* record's claim as it was, an architecture that prices its damage rows   *)
(* pays the true amount and never decides the opposite, however unsure it  *)
(* is; what it does not decide it leaves to a human.  A record is excepted *)
(* only when its claim changed between compute's reads (lines 76, 77, 85), *)
(* and a claim that was adjudicated when its reading began never does.     *)
TruthStands ==
    /\ Whole(golden) =>
          \A i \in DOMAIN golden :
              LET record == golden[i]
              IN  (/\ ~record.labelled /\ ~record.torn
                   /\ HasPolicy(record.id)
                   /\ db.claims[record.id] = record.customer
                   /\ db.rows[record.id] = record.rows) =>
                      \A confidence \in Confidences :
                          /\ Outcome(record.id, confidence).payout = record.payout
                          /\ Outcome(record.id, confidence).route \in {record.route, "escalate"}
    /\ (computing # None /\ computing.audited) =>
          /\ Pick \in DOMAIN db.claims
          /\ {computing.customer, computing.owner} \subseteq {db.claims[Pick], None}
          /\ computing.costs \in {db.rows[Pick], None}

=============================================================================
