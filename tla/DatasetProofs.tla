----------------------------- MODULE DatasetProofs -----------------------------
(***************************************************************************)
(* Dataset, for any customers, claim lists and uploads: references hold,   *)
(* an adjudicated claim stays, a reseeding is atomic, a sample spans the   *)
(* outcomes, and the truth in the golden set stands.                       *)
(***************************************************************************)
EXTENDS Dataset, RulesEngineProofs, FiniteSetTheorems

(* A database whose references hold, against the policies there are.       *)
Sound(base) ==
    /\ base \in Databases
    /\ base.audited \subseteq LiveIds \cap DOMAIN base.claims
    /\ \A id \in Ids : base.rows[id] # NoRows => id \in DOMAIN base.claims
    /\ \A id \in DOMAIN base.claims : id \in Range(MismatchIds) \/ base.claims[id] \in policies
    /\ \A i \in DOMAIN MismatchIds : MismatchIds[i] \in DOMAIN base.claims =>
          base.claims[MismatchIds[i]] = MismatchClaims[i].customer

(* Claims of customers who all have a policy.                              *)
Insured(table) == \A i \in DOMAIN table : table[i].customer \in policies

Reseeded(table) == WithClaims(Emptied, [i \in DOMAIN table |-> i], table)

(* Nobody else writes meanwhile, so a script's draft is the database it    *)
(* started from, changed by what the script has done.                      *)
DraftInv ==
    /\ writer = "filling" => db.audited = {} /\ draft = Emptied
    /\ writer = "seeded" =>
          /\ db.audited = {}
          /\ \E table \in ClaimTables : Insured(table) /\ draft = Reseeded(table)
    /\ writer = "labelling" => draft = WithClaims(db, MismatchIds, MismatchClaims)

(* An upload is adjudicated last.                                          *)
UploadInv == \A id \in db.audited : upload[id] = "ended"

(* A record of the truth that was read from one state of its claim is what *)
(* its rows and its policy come to.                                        *)
Faithful(record) ==
    \/ record.labelled \/ record.torn
    \/ LET truth == ComputePayout(PolicyOf[record.customer], record.rows, TruthConfidence)
       IN record.route = truth.route /\ record.payout = truth.payout

GoodRecord(record) == Faithful(record) /\ record.customer \in policies

GoodFile(file) ==
    \/ file \in {None, Torn}
    \/ file \in Seq(Records) /\ \A i \in DOMAIN file : GoodRecord(file[i])

DistinctIds(file) ==
    Whole(file) => \A i, j \in DOMAIN file : file[i].id = file[j].id => i = j

FileInv ==
    /\ \A file \in {sample, mismatch, golden} : GoodFile(file)
    /\ DistinctIds(sample)

(* The first claim of its kind, of those priced.                           *)
First(s, id) ==
    /\ id \in DOMAIN s.seen
    /\ \A other \in DOMAIN s.seen : other < id => s.seen[other] # s.seen[id]

(* How far select_diverse has come: the claims priced are the first of the *)
(* list, every kind among them has its first claim picked, and no other is.*)
Picking(s) ==
    /\ IsInjective(s.picked) /\ IsInjective(s.overflow)
    /\ Range(s.picked) \cap Range(s.overflow) = {}
    /\ Range(s.picked) \cup Range(s.overflow) = DOMAIN s.seen
    /\ \A id \in DOMAIN s.seen : \A other \in Unpriced(s) : id < other
    /\ \A id \in Range(s.picked) : First(s, id)
    /\ \A id \in DOMAIN s.seen : \E pick \in Range(s.picked) : s.seen[pick] = s.seen[id]
    /\ Len(s.picked) <= s.n
    /\ s.customer # None => ~ScanEnded(s)

SelectingInv == selecting = None \/ (IsSelection(selecting) /\ Picking(selecting))

(* The claim compute is at.                                                *)
Turn(c) == c.picked[Len(c.records) + 1]

MismatchInsured(id) ==
    \A i \in DOMAIN MismatchIds : id = MismatchIds[i] => MismatchClaims[i].customer \in policies

(* How far compute has come: a record per pick, in their order, and of the *)
(* next claim what is read in the order of the code.  Once a policy was    *)
(* found for it, whoever owns the claim later has one too.                 *)
Gathered(c) ==
    /\ IsInjective(c.picked)
    /\ Len(c.records) <= Len(c.picked)
    /\ \A i \in DOMAIN c.records : c.records[i].id = c.picked[i] /\ GoodRecord(c.records[i])
    /\ c.customer # None => Len(c.records) < Len(c.picked) /\ c.customer \in policies
    /\ c.customer # None => MismatchInsured(Turn(c))
    /\ c.costs # None => c.customer # None
    /\ c.owner # None => c.costs # None /\ c.owner \in policies

ComputingInv == computing = None \/ (computing \in Computations /\ Gathered(computing))

(* Each mismatch claim that was priced joined to a policy.                 *)
LabelledInv ==
    \/ labelled = None
    \/ /\ labelled \in 0..Len(MismatchClaims)
       /\ \A i \in 1..labelled : MismatchClaims[i].customer \in policies

IInv ==
    /\ TypeOK
    /\ Sound(db)
    /\ DraftInv
    /\ UploadInv
    /\ FileInv
    /\ LabelledInv
    /\ SelectingInv
    /\ ComputingInv

-----------------------------------------------------------------------------
(* The data.                                                               *)

(* The three kinds of ids are apart, and all of them numbers up to LastId. *)
LEMMA IdFacts ==
  /\ LastId \in Nat
  /\ Ids \subseteq 1..LastId
  /\ SeededIds \subseteq Ids /\ Range(MismatchIds) \subseteq Ids /\ LiveIds \subseteq Ids
  /\ SeededIds \cap Range(MismatchIds) = {}
  /\ SeededIds \cap LiveIds = {}
  /\ LiveIds \cap Range(MismatchIds) = {}
  /\ DOMAIN MismatchIds = DOMAIN MismatchClaims
  /\ \A table \in ClaimTables : DOMAIN table = 1..Len(table) /\ DOMAIN table \subseteq SeededIds
  <1>1. /\ LastId \in Nat /\ Ids \subseteq 1..LastId
        /\ DOMAIN MismatchIds = DOMAIN MismatchClaims
        /\ \A id \in Range(MismatchIds) : id \in Nat
    BY DatasetAssumption DEF Range
  <1>2. \A table \in ClaimTables : /\ DOMAIN table = 1..Len(table) /\ Len(table) \in Nat
                                   /\ DOMAIN table \subseteq SeededIds
    BY DatasetAssumption DEF SeededIds
  <1>3. \E id : id \in Range(MismatchIds)
    <2>1. MismatchClaims # <<>> /\ MismatchClaims \in Seq(Claims)
      BY DatasetAssumption
    <2>2. 1 \in DOMAIN MismatchClaims
      BY <2>1
    <2> QED BY <1>1, <2>2 DEF Range
  <1>4. ASSUME NEW id \in SeededIds, NEW other \in Range(MismatchIds) PROVE id < other
    <2>1. PICK table \in ClaimTables : id \in 1..Len(table) /\ Len(table) \in Nat
      BY <1>2 DEF SeededIds
    <2>2. other > Len(table) /\ other \in Nat
      BY <1>1, DatasetAssumption
    <2> QED BY <2>1, <2>2
  <1>5. \A live \in LiveIds, id \in Range(MismatchIds) : live \in Nat /\ live > id /\ id \in Nat
    BY <1>1, DatasetAssumption
  <1>6. \A id \in SeededIds : id \in Nat
    BY <1>2 DEF SeededIds
  <1> QED BY <1>1, <1>2, <1>3, <1>4, <1>5, <1>6 DEF Ids

LEMMA IdsAreNats == Ids \subseteq Nat
  <1>1. LastId \in Nat /\ Ids \subseteq 1..LastId
    BY IdFacts
  <1> QED BY <1>1

(* A claim list and its ids, as seed_claims or seed_mismatch_claims has it.*)
Listed(ids, table) ==
    /\ table \in Seq(Claims)
    /\ DOMAIN ids = DOMAIN table
    /\ \A i \in DOMAIN table : ids[i] \in Ids

LEMMA RowsOfType ==
  ASSUME NEW claim \in Claims
  PROVE  claim.customer \in Customers /\ RowsOf(claim) \in PoolCosts
  BY DEF Claims, RowsOf, PoolCosts

LEMMA ListedTables ==
  /\ Listed(MismatchIds, MismatchClaims)
  /\ \A table \in ClaimTables : Listed([i \in DOMAIN table |-> i], table)
  <1>1. Listed(MismatchIds, MismatchClaims)
    BY IdFacts, DatasetAssumption DEF Listed, Range
  <1>2. ASSUME NEW table \in ClaimTables PROVE Listed([i \in DOMAIN table |-> i], table)
    BY IdFacts, DatasetAssumption DEF Listed
  <1> QED BY <1>1, <1>2

(* What a claim list leaves in a database: one of its claims under each of *)
(* its ids, and all the others as they were.                               *)
LEMMA WithClaimsFacts ==
  ASSUME NEW base \in Databases, NEW ids, NEW table, Listed(ids, table)
  PROVE  LET after  == WithClaims(base, ids, table)
             listed == {ids[i] : i \in DOMAIN table}
         IN  /\ after \in Databases
             /\ after.audited = base.audited
             /\ DOMAIN after.claims = DOMAIN base.claims \cup listed
             /\ \A id \in listed : \E i \in DOMAIN table :
                   after.claims[id] = table[i].customer /\ after.rows[id] = RowsOf(table[i])
             /\ \A id \in DOMAIN base.claims \ listed : after.claims[id] = base.claims[id]
             /\ \A id \in Ids \ listed : after.rows[id] = base.rows[id]
  <1> DEFINE listed    == {ids[i] : i \in DOMAIN table}
             place(id) == CHOOSE i \in DOMAIN table : ids[i] = id
             claims    == [id \in DOMAIN base.claims \cup listed |->
                             IF id \in listed THEN table[place(id)].customer ELSE base.claims[id]]
             rows      == [id \in Ids |->
                             IF id \in listed THEN RowsOf(table[place(id)]) ELSE base.rows[id]]
             after     == WithClaims(base, ids, table)
  <1>1. after = [base EXCEPT !.claims = claims, !.rows = rows]
    BY DEF WithClaims
  <1>2. PICK some \in SUBSET Ids : base.claims \in [some -> Customers]
    BY DEF Databases
  <1>3. base.rows \in [Ids -> PoolCosts] /\ base.audited \in SUBSET Ids
    BY DEF Databases
  <1>4. \A id \in listed : place(id) \in DOMAIN table
    OBVIOUS
  <1>5. \A i \in DOMAIN table : table[i].customer \in Customers /\ RowsOf(table[i]) \in PoolCosts
    <2>1. \A i \in DOMAIN table : table[i] \in Claims
      BY DEF Listed
    <2> QED BY <2>1, RowsOfType
  <1>6. listed \subseteq Ids
    BY DEF Listed
  <1> HIDE DEF place, listed
  <1>7. claims \in [some \cup listed -> Customers] /\ some \cup listed \in SUBSET Ids
    BY <1>2, <1>4, <1>5, <1>6
  <1>8. rows \in [Ids -> PoolCosts]
    BY <1>3, <1>4, <1>5
  <1>9. DOMAIN claims = DOMAIN base.claims \cup listed
    OBVIOUS
  <1>10. \A id \in listed : /\ claims[id] = table[place(id)].customer
                            /\ rows[id] = RowsOf(table[place(id)])
    BY <1>6
  <1>11. /\ \A id \in DOMAIN base.claims \ listed : claims[id] = base.claims[id]
         /\ \A id \in Ids \ listed : rows[id] = base.rows[id]
    OBVIOUS
  <1> HIDE DEF claims, rows, after
  <1>12. /\ after.claims = claims /\ after.rows = rows /\ after.audited = base.audited
         /\ after \in [claims : {claims}, rows : {rows}, audited : {base.audited}]
    BY <1>1 DEF Databases
  <1>13. after \in Databases
    BY <1>3, <1>7, <1>8, <1>12 DEF Databases
  <1> USE DEF after, listed
  <1> QED BY <1>4, <1>9, <1>10, <1>11, <1>12, <1>13

(* After DELETE FROM: no claim and no row.                                 *)
LEMMA EmptiedFacts ==
  ASSUME Sound(db), db.audited = {}
  PROVE  /\ Sound(Emptied)
         /\ Emptied.claims = <<>> /\ Emptied.audited = {}
         /\ Emptied.rows = [id \in Ids |-> NoRows]
  <1>1. db \in Databases
    BY DEF Sound
  <1>2. /\ Emptied.claims = <<>> /\ Emptied.audited = {}
        /\ Emptied.rows = [id \in Ids |-> NoRows]
        /\ Emptied \in [claims : {<<>>}, rows : {[id \in Ids |-> NoRows]}, audited : {{}}]
    BY <1>1 DEF Emptied, Databases
  <1>3. <<>> \in [{} -> Customers] /\ {} \in SUBSET Ids
    OBVIOUS
  <1>4. [id \in Ids |-> NoRows] \in [Ids -> PoolCosts]
    BY DEF NoRows, PoolCosts
  <1>5. Emptied \in Databases
    BY <1>2, <1>3, <1>4 DEF Databases
  <1>6. \A id \in Ids : Emptied.rows[id] = NoRows
    BY <1>2
  <1> QED BY <1>2, <1>5, <1>6 DEF Sound

(* A claim list goes in where each claim has a policy, or an id of a       *)
(* mismatch.                                                               *)
LEMMA SoundWithClaims ==
  ASSUME NEW base, Sound(base), NEW ids, NEW table, Listed(ids, table),
         \A i \in DOMAIN table : ids[i] \in Range(MismatchIds) \/ table[i].customer \in policies,
         \A i \in DOMAIN table, k \in DOMAIN MismatchIds :
             ids[i] = MismatchIds[k] => table[i].customer = MismatchClaims[k].customer
  PROVE  Sound(WithClaims(base, ids, table))
  <1> DEFINE after  == WithClaims(base, ids, table)
             listed == {ids[i] : i \in DOMAIN table}
  <1>1. base \in Databases
    BY DEF Sound
  <1>2. /\ after \in Databases
        /\ after.audited = base.audited
        /\ DOMAIN after.claims = DOMAIN base.claims \cup listed
        /\ \A id \in DOMAIN base.claims \ listed : after.claims[id] = base.claims[id]
        /\ \A id \in Ids \ listed : after.rows[id] = base.rows[id]
    BY <1>1, WithClaimsFacts
  <1>3. \A id \in listed : \E i \in DOMAIN table :
            ids[i] = id /\ after.claims[id] = table[i].customer
    <2> SUFFICES ASSUME NEW id \in listed
                 PROVE  \E i \in DOMAIN table : ids[i] = id /\ after.claims[id] = table[i].customer
      OBVIOUS
    <2> DEFINE place == CHOOSE k \in DOMAIN table : ids[k] = id
    <2>1. place \in DOMAIN table /\ ids[place] = id
      OBVIOUS
    <2>2. after.claims[id] = table[place].customer
      BY <1>1 DEF WithClaims, Databases
    <2> HIDE DEF place, after
    <2> QED BY <2>1, <2>2
  <1> HIDE DEF after, listed
  <1>4. \A id \in DOMAIN after.claims : id \in Range(MismatchIds) \/ after.claims[id] \in policies
    BY <1>2, <1>3 DEF Sound
  <1>5. ASSUME NEW k \in DOMAIN MismatchIds, MismatchIds[k] \in DOMAIN after.claims
        PROVE  after.claims[MismatchIds[k]] = MismatchClaims[k].customer
    <2>1. CASE MismatchIds[k] \in listed
      BY <1>3, <2>1
    <2>2. CASE MismatchIds[k] \notin listed
      BY <1>2, <1>5, <2>2 DEF Sound
    <2> QED BY <2>1, <2>2
  <1>6. /\ after.audited \subseteq LiveIds \cap DOMAIN after.claims
        /\ \A id \in Ids : after.rows[id] # NoRows => id \in DOMAIN after.claims
    BY <1>2 DEF Sound
  <1> USE DEF after
  <1> QED BY <1>2, <1>4, <1>5, <1>6 DEF Sound

(* A script's whole seeding, and its two drafts.                           *)
LEMMA SoundDrafts ==
  ASSUME Sound(db)
  PROVE  /\ Sound(WithClaims(db, MismatchIds, MismatchClaims))
         /\ db.audited = {} => \A table \in ClaimTables :
               Insured(table) => Sound(Reseeded(table)) /\ Reseeded(table).audited = {}
  <1>1. Sound(WithClaims(db, MismatchIds, MismatchClaims))
    <2>1. \A i \in DOMAIN MismatchClaims : MismatchIds[i] \in Range(MismatchIds)
      BY IdFacts DEF Range
    <2>2. \A i, k \in DOMAIN MismatchIds : MismatchIds[i] = MismatchIds[k] => i = k
      BY DatasetAssumption DEF IsInjective
    <2> QED BY <2>1, <2>2, IdFacts, ListedTables, SoundWithClaims
  <1>2. ASSUME db.audited = {}, NEW table \in ClaimTables, Insured(table)
        PROVE  Sound(Reseeded(table)) /\ Reseeded(table).audited = {}
    <2>1. Sound(Emptied) /\ Emptied.audited = {}
      BY <1>2, EmptiedFacts
    <2>2. \A i \in DOMAIN table : table[i].customer \in policies
      BY <1>2 DEF Insured
    <2>3. Emptied \in Databases
      BY <2>1 DEF Sound
    <2>4. \A i \in DOMAIN table, k \in DOMAIN MismatchIds : i # MismatchIds[k]
      BY IdFacts DEF Range
    <2> QED BY <2>1, <2>2, <2>3, <2>4, ListedTables, SoundWithClaims, WithClaimsFacts DEF Reseeded
  <1> QED BY <1>1, <1>2

(* What an upload writes: its claim, with or without the rows.             *)
LEMMA OpenedFacts ==
  ASSUME db \in Databases, NEW id \in LiveIds, NEW customer \in Customers
  PROVE  /\ DOMAIN Opened(id, customer) = DOMAIN db.claims \cup {id}
         /\ Opened(id, customer)[id] = customer
         /\ \A c \in DOMAIN db.claims \ {id} : Opened(id, customer)[c] = db.claims[c]
         /\ \E some \in SUBSET Ids : Opened(id, customer) \in [some -> Customers]
  <1>1. PICK some \in SUBSET Ids : db.claims \in [some -> Customers]
    BY DEF Databases
  <1>2. some \cup {id} \in SUBSET Ids
    BY IdFacts
  <1>3. Opened(id, customer) \in [some \cup {id} -> Customers]
    BY <1>1 DEF Opened
  <1> QED BY <1>2, <1>3 DEF Opened

(* A step that gives live claim id its rows, or nothing but its owner.     *)
LEMMA SoundUpload ==
  ASSUME Sound(db), NEW id \in LiveIds,
         NEW claims, NEW some \in SUBSET Ids, claims \in [some -> Customers],
         some = DOMAIN db.claims \cup {id}, claims[id] \in policies,
         \A c \in DOMAIN db.claims \ {id} : claims[c] = db.claims[c],
         NEW rows \in [Ids -> PoolCosts], \A c \in Ids \ {id} : rows[c] = db.rows[c],
         NEW after \in [claims : {claims}, rows : {rows}, audited : {db.audited}]
  PROVE  Sound(after)
  <1>1. db.audited \in SUBSET Ids
    BY DEF Sound, Databases
  <1>2. after.claims = claims /\ after.rows = rows /\ after.audited = db.audited
    OBVIOUS
  <1>3. after \in Databases
    BY <1>1, <1>2 DEF Databases
  <1>4. \A i \in DOMAIN MismatchIds : MismatchIds[i] # id
    BY IdFacts DEF Range
  <1> QED BY <1>2, <1>3, <1>4 DEF Sound

-----------------------------------------------------------------------------
(* The sample.                                                             *)

LEMMA AppendFacts ==
  ASSUME NEW S, NEW s \in Seq(S), NEW e \in S
  PROVE  /\ Append(s, e) \in Seq(S)
         /\ Len(s) \in Nat /\ Len(Append(s, e)) = Len(s) + 1
         /\ Range(Append(s, e)) = Range(s) \cup {e}
         /\ \A i \in 1..Len(s) : Append(s, e)[i] = s[i]
         /\ Append(s, e)[Len(s) + 1] = e
  <1>1. /\ Append(s, e) \in Seq(S) /\ Len(s) \in Nat /\ Len(Append(s, e)) = Len(s) + 1
        /\ DOMAIN s = 1..Len(s) /\ DOMAIN Append(s, e) = 1..(Len(s) + 1)
        /\ \A i \in 1..Len(s) : Append(s, e)[i] = s[i]
        /\ Append(s, e)[Len(s) + 1] = e
    OBVIOUS
  <1> QED BY <1>1 DEF Range

LEMMA AppendDistinct ==
  ASSUME NEW S, NEW s \in Seq(S), NEW e \in S, IsInjective(s), e \notin Range(s)
  PROVE  IsInjective(Append(s, e))
  <1>1. ASSUME NEW i \in 1..(Len(s) + 1), NEW j \in 1..(Len(s) + 1),
               Append(s, e)[i] = Append(s, e)[j]
        PROVE  i = j
    <2>1. /\ Len(s) \in Nat /\ DOMAIN s = 1..Len(s)
          /\ \A k \in 1..Len(s) : Append(s, e)[k] = s[k] /\ s[k] \in Range(s)
          /\ Append(s, e)[Len(s) + 1] = e
      BY AppendFacts DEF Range
    <2> QED BY <1>1, <2>1 DEF IsInjective
  <1>2. DOMAIN Append(s, e) = 1..(Len(s) + 1)
    OBVIOUS
  <1> QED BY <1>1, <1>2 DEF IsInjective

(* A sequence without repetition is as long as its range is large.         *)
LEMMA DistinctCardinality ==
  ASSUME NEW S, NEW s \in Seq(S), IsInjective(s)
  PROVE  IsFiniteSet(Range(s)) /\ Cardinality(Range(s)) = Len(s)
  <1>1. Len(s) \in Nat /\ DOMAIN s = 1..Len(s)
    OBVIOUS
  <1>2. s \in [1..Len(s) -> Range(s)]
    BY <1>1 DEF Range
  <1>3. s \in Bijection(1..Len(s), Range(s))
    BY <1>1, <1>2 DEF Bijection, Injection, Surjection, IsInjective, Range
  <1>4. ExistsBijection(1..Len(s), Range(s))
    BY <1>3 DEF ExistsBijection
  <1> QED BY <1>1, <1>4, FS_CountingElements, FS_NatBijection

(* The next claim of the list.                                             *)
LEMMA NextListedFacts ==
  ASSUME NEW s, IsSelection(s), ~ScanEnded(s)
  PROVE  /\ NextListed(s) \in Unpriced(s) /\ NextListed(s) \in Ids
         /\ \A other \in Unpriced(s) : NextListed(s) <= other
  <1>1. Unpriced(s) # {} /\ Unpriced(s) \subseteq Ids
    BY DEF ScanEnded, Unpriced, IsSelection
  <1>2. Unpriced(s) \subseteq Nat
    BY <1>1, IdsAreNats
  <1>3. \E id \in Unpriced(s) : \A other \in Unpriced(s) : id <= other
    BY <1>1, <1>2, LeastOfNats
  <1> QED BY <1>1, <1>3 DEF NextListed

(* What a claim priced as of this kind leaves of the variables.            *)
LEMMA ScanFields ==
  ASSUME NEW s, IsSelection(s), NEW id \in Ids, id \in Unpriced(s), NEW kind \in Kinds
  PROVE  LET after == Scan(s, id, kind)
         IN  /\ after \in [n : {s.n}, listed : {s.listed}, seen : {after.seen},
                           picked : {after.picked}, overflow : {after.overflow},
                           customer : {None}]
             /\ DOMAIN after.seen = DOMAIN s.seen \cup {id}
             /\ after.seen \in [DOMAIN after.seen -> Kinds]
             /\ after.seen[id] = kind
             /\ \A c \in DOMAIN s.seen : after.seen[c] = s.seen[c]
             /\ kind \in Range(s.seen) =>
                   after.picked = s.picked /\ after.overflow = Append(s.overflow, id)
             /\ kind \notin Range(s.seen) =>
                   after.picked = Append(s.picked, id) /\ after.overflow = s.overflow
  <1> DEFINE seen == [c \in DOMAIN s.seen \cup {id} |-> IF c = id THEN kind ELSE s.seen[c]]
  <1>1. /\ s \in [n : {s.n}, listed : {s.listed}, seen : {s.seen}, picked : {s.picked},
                  overflow : {s.overflow}, customer : {s.customer}]
        /\ s.seen \in [DOMAIN s.seen -> Kinds] /\ id \notin DOMAIN s.seen
    BY DEF IsSelection, Unpriced
  <1>2. /\ DOMAIN seen = DOMAIN s.seen \cup {id} /\ seen \in [DOMAIN seen -> Kinds]
        /\ seen[id] = kind /\ \A c \in DOMAIN s.seen : seen[c] = s.seen[c]
    BY <1>1
  <1> HIDE DEF seen
  <1>3. CASE kind \in Range(s.seen)
    <2>1. Scan(s, id, kind) = [[s EXCEPT !.seen = seen, !.customer = None]
                                 EXCEPT !.overflow = Append(@, id)]
      BY <1>3 DEF Scan, seen
    <2>2. Scan(s, id, kind) = [n |-> s.n, listed |-> s.listed, seen |-> seen, picked |-> s.picked,
                               overflow |-> Append(s.overflow, id), customer |-> None]
      BY <1>1, <2>1
    <2> QED BY <1>2, <1>3, <2>2
  <1>4. CASE kind \notin Range(s.seen)
    <2>1. Scan(s, id, kind) = [[s EXCEPT !.seen = seen, !.customer = None]
                                 EXCEPT !.picked = Append(@, id)]
      BY <1>4 DEF Scan, seen
    <2>2. Scan(s, id, kind) = [n |-> s.n, listed |-> s.listed, seen |-> seen,
                               picked |-> Append(s.picked, id),
                               overflow |-> s.overflow, customer |-> None]
      BY <1>1, <2>1
    <2> QED BY <1>2, <1>4, <2>2
  <1> QED BY <1>3, <1>4

LEMMA ScanKeepsPicking ==
  ASSUME NEW s, IsSelection(s), Picking(s), ~ScanEnded(s), NEW kind \in Kinds
  PROVE  /\ IsSelection(Scan(s, NextListed(s), kind))
         /\ Picking(Scan(s, NextListed(s), kind))
  <1> DEFINE id    == NextListed(s)
             after == Scan(s, id, kind)
  <1>1. /\ id \in Unpriced(s) /\ id \in Ids /\ id \in Nat
        /\ \A other \in Unpriced(s) : id <= other
    <2>1. /\ id \in Unpriced(s) /\ id \in Ids
          /\ \A other \in Unpriced(s) : id <= other
      BY NextListedFacts
    <2> HIDE DEF id
    <2> QED BY <2>1, IdsAreNats
  <1>2. /\ s.picked \in Seq(Ids) /\ s.overflow \in Seq(Ids) /\ s.n \in Nat \ {0}
        /\ s.listed \in [DOMAIN s.listed -> Pools \cup {"none"}]
        /\ DOMAIN s.seen \subseteq DOMAIN s.listed /\ DOMAIN s.listed \subseteq Ids
        /\ DOMAIN s.listed \subseteq Nat
        /\ Len(s.picked) \in Nat /\ Len(s.picked) < s.n
    <2>1. Len(s.picked) \in Nat /\ s.n \in Nat
      BY DEF IsSelection
    <2> QED BY <2>1, IdsAreNats DEF IsSelection, ScanEnded
  <1>3. /\ id \notin Range(s.picked) /\ id \notin Range(s.overflow)
        /\ id \notin DOMAIN s.seen /\ id \in DOMAIN s.listed
    BY <1>1 DEF Picking, Unpriced
  <1>4. /\ after \in [n : {s.n}, listed : {s.listed}, seen : {after.seen},
                      picked : {after.picked}, overflow : {after.overflow}, customer : {None}]
        /\ DOMAIN after.seen = DOMAIN s.seen \cup {id}
        /\ after.seen \in [DOMAIN after.seen -> Kinds]
        /\ after.seen[id] = kind
        /\ \A c \in DOMAIN s.seen : after.seen[c] = s.seen[c]
        /\ kind \in Range(s.seen) =>
              after.picked = s.picked /\ after.overflow = Append(s.overflow, id)
        /\ kind \notin Range(s.seen) =>
              after.picked = Append(s.picked, id) /\ after.overflow = s.overflow
    BY <1>1, ScanFields
  <1> HIDE DEF id, after
  <1>5. /\ after.n = s.n /\ after.listed = s.listed /\ after.customer = None
        /\ Unpriced(after) = Unpriced(s) \ {id}
    BY <1>4 DEF Unpriced
  <1>6. \A c \in DOMAIN after.seen : \A other \in Unpriced(after) : c < other
    <2>1. \A other \in Unpriced(after) : other \in Nat /\ id < other
      BY <1>1, <1>2, <1>5 DEF Unpriced
    <2> QED BY <1>4, <1>5, <2>1 DEF Picking
  <1>7. \A c \in DOMAIN s.seen : c < id /\ c \in Nat /\ after.seen[c] = s.seen[c]
    BY <1>1, <1>2, <1>4 DEF Picking
  <1>8. \A c \in Range(s.picked) : First(after, c)
    BY <1>1, <1>4, <1>7 DEF First, Picking
  <1>9. /\ IsInjective(s.picked) /\ IsInjective(s.overflow)
        /\ Range(s.picked) \cap Range(s.overflow) = {}
        /\ Range(s.picked) \cup Range(s.overflow) = DOMAIN s.seen
        /\ \A c \in DOMAIN s.seen : \E pick \in Range(s.picked) : s.seen[pick] = s.seen[c]
    BY DEF Picking
  <1>10. CASE kind \in Range(s.seen)
    <2>1. /\ after.picked = s.picked /\ after.overflow \in Seq(Ids)
          /\ IsInjective(after.overflow)
          /\ Range(after.overflow) = Range(s.overflow) \cup {id}
      <3>1. after.picked = s.picked /\ after.overflow = Append(s.overflow, id)
        BY <1>4, <1>10
      <3>2. /\ Append(s.overflow, id) \in Seq(Ids)
            /\ Range(Append(s.overflow, id)) = Range(s.overflow) \cup {id}
        BY <1>1, <1>2, AppendFacts
      <3>3. IsInjective(Append(s.overflow, id))
        BY <1>1, <1>2, <1>3, <1>9, AppendDistinct
      <3> QED BY <3>1, <3>2, <3>3
    <2>2. PICK c \in DOMAIN s.seen : s.seen[c] = kind
      BY <1>10 DEF Range
    <2>3. \A d \in DOMAIN after.seen :
              \E pick \in Range(after.picked) : after.seen[pick] = after.seen[d]
      BY <1>4, <1>7, <1>9, <2>1, <2>2
    <2>4. Picking(after)
      <3>1. Len(after.picked) <= after.n
        BY <1>2, <1>5, <2>1
      <3>2. Range(after.picked) \cap Range(after.overflow) = {}
        BY <1>3, <1>9, <2>1
      <3>3. Range(after.picked) \cup Range(after.overflow) = DOMAIN after.seen
        BY <1>4, <1>9, <2>1
      <3> QED BY <1>5, <1>6, <1>8, <1>9, <2>1, <2>3, <3>1, <3>2, <3>3 DEF Picking
    <2>5. IsSelection(after)
      BY <1>2, <1>3, <1>4, <2>1 DEF IsSelection
    <2> QED BY <2>4, <2>5 DEF after, id
  <1>11. CASE kind \notin Range(s.seen)
    <2>1. /\ after.overflow = s.overflow /\ after.picked \in Seq(Ids)
          /\ IsInjective(after.picked)
          /\ Range(after.picked) = Range(s.picked) \cup {id}
          /\ Len(after.picked) = Len(s.picked) + 1
      <3>1. after.overflow = s.overflow /\ after.picked = Append(s.picked, id)
        BY <1>4, <1>11
      <3>2. /\ Append(s.picked, id) \in Seq(Ids)
            /\ Range(Append(s.picked, id)) = Range(s.picked) \cup {id}
            /\ Len(Append(s.picked, id)) = Len(s.picked) + 1
        BY <1>1, <1>2, AppendFacts
      <3>3. IsInjective(Append(s.picked, id))
        BY <1>1, <1>2, <1>3, <1>9, AppendDistinct
      <3> QED BY <3>1, <3>2, <3>3
    <2>2. \A c \in DOMAIN s.seen : s.seen[c] # kind
      BY <1>11 DEF Range
    <2>3. First(after, id)
      BY <1>1, <1>4, <1>7, <2>2 DEF First
    <2>4. \A d \in DOMAIN after.seen :
              \E pick \in Range(after.picked) : after.seen[pick] = after.seen[d]
      BY <1>4, <1>7, <1>9, <2>1
    <2>5. Len(after.picked) <= after.n
      BY <1>2, <1>5, <2>1
    <2>6. Picking(after)
      BY <1>3, <1>4, <1>5, <1>6, <1>8, <1>9, <2>1, <2>3, <2>4, <2>5 DEF Picking
    <2>7. IsSelection(after)
      BY <1>2, <1>3, <1>4, <2>1 DEF IsSelection
    <2> QED BY <2>6, <2>7 DEF after, id
  <1> QED BY <1>10, <1>11

(* What is picked in the end: picks of the scan, then what it passed over. *)
LEMMA ConcatFacts ==
  ASSUME NEW S, NEW s \in Seq(S), NEW t \in Seq(S)
  PROVE  /\ s \o t \in Seq(S)
         /\ Len(s) \in Nat /\ Len(t) \in Nat /\ Len(s \o t) = Len(s) + Len(t)
         /\ \A i \in 1..Len(s) : (s \o t)[i] = s[i]
         /\ \A i \in 1..Len(t) : (s \o t)[Len(s) + i] = t[i]
         /\ \A i \in (Len(s) + 1)..(Len(s) + Len(t)) :
               i - Len(s) \in 1..Len(t) /\ (s \o t)[i] = t[i - Len(s)]
  OBVIOUS

LEMMA ConcatInjective ==
  ASSUME NEW S, NEW s \in Seq(S), NEW t \in Seq(S), IsInjective(s), IsInjective(t),
         Range(s) \cap Range(t) = {}
  PROVE  IsInjective(s \o t) /\ Range(s \o t) = Range(s) \cup Range(t)
  <1>1. /\ DOMAIN s = 1..Len(s) /\ DOMAIN t = 1..Len(t)
        /\ DOMAIN (s \o t) = 1..(Len(s) + Len(t))
        /\ Len(s) \in Nat /\ Len(t) \in Nat
    BY ConcatFacts
  <1>2. ASSUME NEW i \in 1..(Len(s) + Len(t))
        PROVE  \/ i \in 1..Len(s) /\ (s \o t)[i] = s[i]
               \/ /\ i \in (Len(s) + 1)..(Len(s) + Len(t))
                  /\ i - Len(s) \in 1..Len(t) /\ (s \o t)[i] = t[i - Len(s)]
    BY <1>1, ConcatFacts
  <1>3. \A i \in 1..Len(s), j \in 1..Len(t) : s[i] # t[j]
    BY <1>1 DEF Range
  <1>4. ASSUME NEW i \in 1..(Len(s) + Len(t)), NEW j \in 1..(Len(s) + Len(t)),
               (s \o t)[i] = (s \o t)[j]
        PROVE  i = j
    <2>1. CASE i \in 1..Len(s)
      <3>1. j \in 1..Len(s)
        BY <1>2, <1>3, <1>4, <2>1
      <3>2. s[i] = s[j] /\ i \in DOMAIN s /\ j \in DOMAIN s
        BY <1>1, <1>4, <2>1, <3>1, ConcatFacts
      <3> QED BY <3>2 DEF IsInjective
    <2>2. CASE i \notin 1..Len(s)
      <3>1. i - Len(s) \in 1..Len(t) /\ (s \o t)[i] = t[i - Len(s)]
        BY <1>2, <2>2
      <3>2. j - Len(s) \in 1..Len(t) /\ (s \o t)[j] = t[j - Len(s)]
        BY <1>2, <1>3, <1>4, <3>1
      <3>3. i - Len(s) = j - Len(s)
        BY <1>1, <1>4, <3>1, <3>2 DEF IsInjective
      <3> QED BY <1>1, <3>3
    <2> QED BY <2>1, <2>2
  <1>5. IsInjective(s \o t)
    BY <1>1, <1>4 DEF IsInjective
  <1>6. Range(s \o t) \subseteq Range(s) \cup Range(t)
    BY <1>1, <1>2 DEF Range
  <1>7. Range(s) \subseteq Range(s \o t)
    BY <1>1, ConcatFacts DEF Range
  <1>8. ASSUME NEW j \in 1..Len(t) PROVE t[j] \in Range(s \o t)
    <2>1. Len(s) + j \in 1..(Len(s) + Len(t)) /\ (s \o t)[Len(s) + j] = t[j]
      BY <1>1, ConcatFacts
    <2> QED BY <1>1, <2>1 DEF Range
  <1> QED BY <1>1, <1>5, <1>6, <1>7, <1>8 DEF Range

LEMMA PrefixFacts ==
  ASSUME NEW S, NEW s \in Seq(S), NEW m \in Nat, m <= Len(s)
  PROVE  /\ SubSeq(s, 1, m) \in Seq(S) /\ Len(SubSeq(s, 1, m)) = m
         /\ DOMAIN SubSeq(s, 1, m) = 1..m
         /\ \A i \in 1..m : SubSeq(s, 1, m)[i] = s[i]
         /\ IsInjective(s) => IsInjective(SubSeq(s, 1, m))
  <1>1. /\ SubSeq(s, 1, m) \in Seq(S) /\ Len(SubSeq(s, 1, m)) = m
        /\ DOMAIN SubSeq(s, 1, m) = 1..m
        /\ \A i \in 1..m : SubSeq(s, 1, m)[i] = s[i]
    OBVIOUS
  <1>2. ASSUME IsInjective(s), NEW i \in 1..m, NEW j \in 1..m,
               SubSeq(s, 1, m)[i] = SubSeq(s, 1, m)[j]
        PROVE  i = j
    <2>1. s[i] = s[j] /\ i \in DOMAIN s /\ j \in DOMAIN s
      BY <1>1, <1>2
    <2> QED BY <1>2, <2>1 DEF IsInjective
  <1> QED BY <1>1, <1>2 DEF IsInjective

(* As many claims as asked for, or all that were listed, none of them      *)
(* twice, and the first claim of every kind before any other.              *)
LEMMA SelectFacts ==
  ASSUME NEW s, IsSelection(s), Picking(s), ScanEnded(s)
  PROVE  LET picks == SelectDiverse(s)
         IN  /\ picks \in Seq(Ids)
             /\ IsInjective(picks)
             /\ Len(picks) = AtMost(s.n, Cardinality(DOMAIN s.listed))
             /\ \/ (\A id : First(s, id) => id \in Range(picks)) /\ Unpriced(s) = {}
                \/ \A id \in Range(picks) : First(s, id)
  <1> DEFINE C    == DOMAIN s.listed
             n    == s.n
             p    == s.picked
             o    == s.overflow
             all  == p \o o
             m    == AtMost(n, Len(all))
             taken == SubSeq(all, 1, m)
  <1>1. /\ C \subseteq Ids /\ DOMAIN s.seen \subseteq C /\ LastId \in Nat /\ C \subseteq 1..LastId
        /\ n \in Nat
    BY IdFacts DEF IsSelection
  <1>2. /\ p \in Seq(Ids) /\ o \in Seq(Ids) /\ IsInjective(p) /\ IsInjective(o)
        /\ Range(p) \cap Range(o) = {} /\ Len(p) <= n
        /\ \A id \in Range(p) : First(s, id)
        /\ Range(p) \cup Range(o) = DOMAIN s.seen
    BY DEF Picking, IsSelection
  <1>3. /\ all \in Seq(Ids) /\ IsInjective(all) /\ Range(all) = DOMAIN s.seen
        /\ Len(p) \in Nat /\ Len(o) \in Nat /\ Len(all) = Len(p) + Len(o)
        /\ \A i \in 1..Len(p) : all[i] = p[i]
    <2> HIDE DEF p, o
    <2>1. /\ p \o o \in Seq(Ids)
          /\ Len(p) \in Nat /\ Len(o) \in Nat /\ Len(p \o o) = Len(p) + Len(o)
          /\ \A i \in 1..Len(p) : (p \o o)[i] = p[i]
      BY <1>2, ConcatFacts
    <2>2. IsInjective(p \o o) /\ Range(p \o o) = Range(p) \cup Range(o)
      BY <1>2, ConcatInjective
    <2> QED BY <1>2, <2>1, <2>2
  <1>4. m \in Nat /\ m <= Len(all) /\ m <= n /\ Len(p) <= m
    <2>1. \A a, b \in Nat : /\ AtMost(a, b) \in Nat /\ AtMost(a, b) <= a /\ AtMost(a, b) <= b
                           /\ \A c \in Nat : c <= a /\ c <= b => c <= AtMost(a, b)
      BY DEF AtMost
    <2> HIDE DEF p, o, all, n
    <2>2. Len(all) \in Nat /\ Len(p) <= Len(all)
      BY <1>3
    <2> QED BY <1>1, <1>2, <1>3, <2>1, <2>2
  <1>5. /\ SelectDiverse(s) = taken
        /\ taken \in Seq(Ids) /\ Len(taken) = m /\ DOMAIN taken = 1..m
        /\ IsInjective(taken) /\ \A i \in 1..m : taken[i] = all[i]
    <2>1. SelectDiverse(s) = taken
      BY DEF SelectDiverse
    <2> HIDE DEF all, m
    <2> QED BY <1>3, <1>4, <2>1, PrefixFacts
  <1>6. /\ IsFiniteSet(C) /\ Cardinality(C) \in Nat
        /\ Cardinality(DOMAIN s.seen) <= Cardinality(C)
    <2>1. IsFiniteSet(1..LastId)
      BY <1>1, FS_Interval
    <2> HIDE DEF C
    <2>2. IsFiniteSet(C)
      BY <1>1, <2>1, FS_Subset
    <2> QED BY <1>1, <2>2, FS_CardinalityType, FS_Subset
  <1>7. Cardinality(DOMAIN s.seen) = Len(all)
    <2> HIDE DEF all
    <2> QED BY <1>3, DistinctCardinality
  <1> HIDE DEF C, n, p, o, all, m, taken
  <1>8. CASE Len(p) = n
    <2>1. m = n
      BY <1>3, <1>8 DEF m, AtMost
    <2>2. n <= Cardinality(C)
      BY <1>1, <1>3, <1>6, <1>7, <1>8
    <2>3. \A id \in Range(taken) : First(s, id)
      <3>1. \A i \in 1..m : taken[i] = p[i] /\ i \in DOMAIN p
        BY <1>2, <1>3, <1>5, <1>8, <2>1
      <3> QED BY <1>2, <1>5, <3>1 DEF Range
    <2>4. m = AtMost(n, Cardinality(C))
      BY <2>1, <2>2 DEF AtMost
    <2> QED BY <1>5, <2>3, <2>4 DEF n, C
  <1>9. CASE Len(p) < n
    <2>1. Unpriced(s) = {} /\ DOMAIN s.seen = C
      <3>1. ~(Len(p) >= n)
        BY <1>1, <1>3, <1>9
      <3>2. Unpriced(s) = {}
        BY <3>1 DEF ScanEnded, n, p
      <3> QED BY <1>1, <3>2 DEF Unpriced, C
    <2>2. Cardinality(C) = Len(all)
      BY <1>7, <2>1
    <2>3. ASSUME NEW id, First(s, id) PROVE id \in Range(taken)
      <3>1. id \in C /\ id \in DOMAIN s.seen /\ id \in Nat
        <4>1. id \in DOMAIN s.seen
          BY <2>3 DEF First
        <4> QED BY <1>1, <4>1, IdsAreNats
      <3>2. PICK pick \in Range(p) : s.seen[pick] = s.seen[id]
        BY <3>1 DEF Picking, p
      <3>3. First(s, pick) /\ pick \in DOMAIN s.seen /\ pick \in Nat
        <4>1. First(s, pick)
          BY <1>2, <3>2
        <4>2. pick \in DOMAIN s.seen
          BY <4>1 DEF First
        <4> QED BY <1>1, <4>1, <4>2, IdsAreNats
      <3>4. ~(pick < id) /\ ~(id < pick)
        BY <2>3, <3>1, <3>2, <3>3 DEF First
      <3>5. id \in Range(p)
        BY <3>1, <3>2, <3>3, <3>4
      <3>6. PICK i \in 1..Len(p) : p[i] = id
        BY <1>2, <3>5 DEF Range
      <3>7. i \in 1..m /\ taken[i] = id
        BY <1>3, <1>4, <1>5, <3>6
      <3> QED BY <1>5, <3>7 DEF Range
    <2>4. m = AtMost(n, Cardinality(C))
      BY <2>2 DEF m
    <2> QED BY <1>5, <2>1, <2>3, <2>4 DEF n, C
  <1> QED BY <1>1, <1>2, <1>3, <1>8, <1>9

LEMMA SoundSamples ==
  ASSUME IInv PROVE SampleSpansOutcomes
  <1>1. ASSUME selecting # None, ScanEnded(selecting)
        PROVE  LET picks  == SelectDiverse(selecting)
                   seen   == selecting.seen
                   firsts == {id \in DOMAIN seen :
                                \A other \in DOMAIN seen : other < id => seen[other] # seen[id]}
               IN  /\ \/ firsts \subseteq Range(picks) /\ Unpriced(selecting) = {}
                      \/ Range(picks) \subseteq firsts
                   /\ Len(picks) = AtMost(selecting.n, Cardinality(DOMAIN selecting.listed))
                   /\ IsInjective(picks)
    <2> DEFINE picks  == SelectDiverse(selecting)
               seen   == selecting.seen
               firsts == {id \in DOMAIN seen :
                            \A other \in DOMAIN seen : other < id => seen[other] # seen[id]}
    <2>1. IsSelection(selecting) /\ Picking(selecting)
      BY <1>1 DEF IInv, SelectingInv
    <2>2. /\ IsInjective(picks)
          /\ Len(picks) = AtMost(selecting.n, Cardinality(DOMAIN selecting.listed))
          /\ \/ (\A id : First(selecting, id) => id \in Range(picks)) /\ Unpriced(selecting) = {}
             \/ \A id \in Range(picks) : First(selecting, id)
      BY <1>1, <2>1, SelectFacts
    <2>3. \A id : First(selecting, id) <=> id \in firsts
      BY DEF First
    <2> HIDE DEF picks, firsts, seen
    <2>4. \/ firsts \subseteq Range(picks) /\ Unpriced(selecting) = {}
          \/ Range(picks) \subseteq firsts
      BY <2>2, <2>3
    <2> USE DEF picks, firsts, seen
    <2> QED BY <2>2, <2>4
  <1>2. DistinctIds(sample)
    BY DEF IInv, FileInv
  <1> QED BY <1>1, <1>2 DEF SampleSpansOutcomes, DistinctIds

-----------------------------------------------------------------------------
(* The records of the files.                                               *)

LEMMA DatabaseTypes ==
  ASSUME NEW base \in Databases
  PROVE  /\ base # None
         /\ DOMAIN base.claims \subseteq Ids
         /\ Range(base.claims) \subseteq Customers
         /\ base.rows \in [Ids -> PoolCosts]
         /\ base.audited \subseteq Ids
  <1>1. base # None
    BY DatasetAssumption
  <1>2. PICK some \in SUBSET Ids : base.claims \in [some -> Customers]
    BY DEF Databases
  <1> QED BY <1>1, <1>2 DEF Databases, Range

(* The rows of a lapsed policy's claim do not matter to it.                *)
LEMMA LapsedIgnoresRows ==
  ASSUME NEW policy \in PolicyRow, NEW a \in PoolCosts, NEW b \in PoolCosts,
         policy.status # "lapsed" => a = b
  PROVE  ComputePayout(policy, a, TruthConfidence) = ComputePayout(policy, b, TruthConfidence)
  <1>1. CASE policy.status = "lapsed"
    <2>1. TruthConfidence \in Nat
      BY DEF TruthConfidence
    <2> QED BY <1>1, <2>1, PayoutCases
  <1> QED BY <1>1

(* What compute makes of its four reads.                                   *)
LEMMA TruthRecordFacts ==
  ASSUME NEW id \in Ids, db.rows[id] \in PoolCosts, computing.customer \in Customers,
         computing.costs \in PoolCosts, computing.owner \in policies, policies \subseteq Customers
  PROVE  TruthRecord(id) \in Records /\ TruthRecord(id).id = id /\ GoodRecord(TruthRecord(id))
  <1> DEFINE policy == PolicyOf[computing.customer]
             truth  == ComputePayout(policy, computing.costs, TruthConfidence)
             torn   == \/ computing.owner # computing.customer
                       \/ policy.status # "lapsed" /\ computing.costs # db.rows[id]
  <1>1. policy \in PolicyRow /\ TruthConfidence \in Nat
    BY DatasetAssumption DEF TruthConfidence
  <1>2. truth.route \in Routes /\ truth.payout \in Nat \cup {NoAmount}
    BY <1>1, PayoutType DEF PayoutResult
  <1>3. TruthRecord(id) = [id |-> id, customer |-> computing.owner, rows |-> db.rows[id],
                           labelled |-> FALSE, route |-> truth.route, payout |-> truth.payout,
                           torn |-> torn]
    BY DEF TruthRecord
  <1>4. TruthRecord(id) \in Records /\ TruthRecord(id).id = id
    <2> HIDE DEF truth
    <2> QED BY <1>2, <1>3 DEF Records
  <1>5. ~torn => truth = ComputePayout(PolicyOf[computing.owner], db.rows[id], TruthConfidence)
    BY <1>1, LapsedIgnoresRows
  <1> HIDE DEF truth, torn
  <1>6. Faithful(TruthRecord(id)) /\ TruthRecord(id).customer \in policies
    BY <1>3, <1>5 DEF Faithful
  <1> QED BY <1>4, <1>6 DEF GoodRecord

LEMMA LabelledFacts ==
  ASSUME NEW i \in DOMAIN MismatchIds, MismatchClaims[i].customer \in policies
  PROVE  Labelled(i) \in Records /\ GoodRecord(Labelled(i))
  <1>1. MismatchClaims[i] \in Claims /\ MismatchIds[i] \in Ids
    BY IdFacts, DatasetAssumption DEF Range
  <1>2. MismatchClaims[i].customer \in Customers /\ RowsOf(MismatchClaims[i]) \in PoolCosts
    BY <1>1, RowsOfType
  <1> QED BY <1>1, <1>2 DEF Labelled, Records, Routes, Faithful, GoodRecord

(* A record prices its claim as the truth does, as long as the claim is as *)
(* it was when it was read.                                                *)
LEMMA RecordStands ==
  ASSUME Confident(TruthConfidence), TypeOK, Sound(db), NEW record, Faithful(record),
         ~record.labelled, ~record.torn, HasPolicy(record.id),
         db.claims[record.id] = record.customer, db.rows[record.id] = record.rows,
         NEW confidence \in Confidences
  PROVE  /\ Outcome(record.id, confidence).payout = record.payout
         /\ Outcome(record.id, confidence).route \in {record.route, "escalate"}
  <1> DEFINE truth == ComputePayout(PolicyOf[record.customer], record.rows, TruthConfidence)
             pass  == ComputePayout(PolicyOf[record.customer], record.rows, confidence)
  <1>1. Outcome(record.id, confidence) = pass
    BY DEF Outcome
  <1>2. record.route = truth.route /\ record.payout = truth.payout
    BY DEF Faithful
  <1>3. record.customer \in Customers /\ record.rows \in PoolCosts
    BY DatabaseTypes DEF Sound, HasPolicy, TypeOK
  <1>4. /\ PolicyOf[record.customer] \in PolicyRow
        /\ TruthConfidence \in Nat /\ confidence \in Nat
    BY <1>3, DatasetAssumption DEF TruthConfidence
  <1>5. pass.payout = truth.payout /\ (pass.route = truth.route \/ pass.route = "escalate")
    BY <1>3, <1>4, SurerPass
  <1> HIDE DEF truth, pass
  <1> QED BY <1>1, <1>2, <1>5

-----------------------------------------------------------------------------
(* The steps of the scripts.                                               *)

LEMMA InitInv == Init => IInv
  <1> SUFFICES ASSUME Init PROVE IInv
    OBVIOUS
  <1>1. /\ db.claims = <<>> /\ db.audited = {} /\ db.rows = [id \in Ids |-> NoRows]
        /\ db \in [claims : {<<>>}, rows : {[id \in Ids |-> NoRows]}, audited : {{}}]
    BY DEF Init
  <1>2. <<>> \in [{} -> Customers] /\ {} \in SUBSET Ids /\ DOMAIN <<>> = {}
    OBVIOUS
  <1>3. [id \in Ids |-> NoRows] \in [Ids -> PoolCosts]
    BY DEF NoRows, PoolCosts
  <1>4. db \in Databases
    BY <1>1, <1>2, <1>3 DEF Databases
  <1>5. \A id \in Ids : db.rows[id] = NoRows
    BY <1>1
  <1>6. Sound(db)
    BY <1>1, <1>2, <1>4, <1>5 DEF Sound
  <1>7. TypeOK
    <2>1. 0 \in 0..MaxTruths
      BY DatasetAssumption
    <2> QED BY <1>4, <2>1, DatabaseTypes DEF Init, TypeOK
  <1>8. DraftInv /\ UploadInv
    BY <1>1, DatasetAssumption DEF Init, DraftInv, UploadInv
  <1>9. FileInv /\ LabelledInv /\ SelectingInv /\ ComputingInv
    BY DEF Init, FileInv, GoodFile, DistinctIds, Whole, LabelledInv, SelectingInv, ComputingInv
  <1> QED BY <1>6, <1>7, <1>8, <1>9 DEF IInv

(* What a reader has in hand stays good as long as nobody takes a policy.  *)
LEMMA ReaderStays ==
  ASSUME IInv, policies \subseteq policies'
  PROVE  /\ labelled' \in {labelled, None} => LabelledInv'
         /\ selecting' \in {selecting, None} => SelectingInv'
         /\ computing' \in {computing, None} => ComputingInv'
         /\ \A file : GoodFile(file) => GoodFile(file)'
         /\ \A file : DistinctIds(file) <=> DistinctIds(file)'
         /\ UNCHANGED files => FileInv'
  <1>1. labelled' \in {labelled, None} => LabelledInv'
    BY DEF IInv, LabelledInv
  <1>2. selecting' \in {selecting, None} => SelectingInv'
    BY DEF IInv, SelectingInv
  <1>3. \A record : GoodRecord(record) => GoodRecord(record)'
    BY DEF GoodRecord
  <1>4. \A c : Gathered(c) => Gathered(c)'
    BY <1>3 DEF Gathered, MismatchInsured
  <1>5. computing' \in {computing, None} => ComputingInv'
    BY <1>4 DEF IInv, ComputingInv
  <1>6. \A file : GoodFile(file) => GoodFile(file)'
    BY <1>3 DEF GoodFile
  <1>7. \A file : DistinctIds(file) <=> DistinctIds(file)'
    BY DEF DistinctIds, Whole
  <1>8. UNCHANGED files => FileInv'
    BY <1>6, <1>7 DEF IInv, FileInv, files
  <1> QED BY <1>1, <1>2, <1>5, <1>6, <1>7, <1>8

(* While nobody has a transaction open there is no draft to speak of.      *)
LEMMA NoDraft ==
  ASSUME IInv, Free
  PROVE  writer = None /\ writer \notin {"filling", "seeded", "labelling"}
  BY DatasetAssumption DEF IInv, TypeOK, Free

(* Policies only come.                                                     *)
LEMMA SeedPoliciesInv == ASSUME IInv, SeedPolicies PROVE IInv'
  <1>1. /\ policies' \subseteq Customers /\ policies \subseteq policies'
        /\ UNCHANGED <<db, draft, writer, labelled, selecting, computing, truths, upload,
                       sample, mismatch, golden>>
    BY DEF SeedPolicies, IInv, TypeOK, scriptVars, truthVars, files
  <1>2. TypeOK'
    BY <1>1 DEF IInv, TypeOK
  <1>3. Sound(db)'
    BY <1>1 DEF IInv, Sound
  <1>4. DraftInv'
    BY <1>1, NoDraft DEF SeedPolicies, DraftInv
  <1>5. UploadInv'
    BY <1>1 DEF IInv, UploadInv
  <1>6. FileInv' /\ LabelledInv' /\ SelectingInv' /\ ComputingInv'
    BY <1>1, ReaderStays DEF files
  <1> QED BY <1>2, <1>3, <1>4, <1>5, <1>6 DEF IInv

(* A step of a script's transaction: only its draft moves.                 *)
LEMMA DraftMoves ==
  ASSUME IInv, UNCHANGED <<policies, db, labelled, truthVars, upload, files>>,
         draft' \in Databases, writer' \in {"filling", "seeded", "labelling"}, DraftInv'
  PROVE  IInv'
  <1>1. UNCHANGED <<policies, db, labelled, selecting, computing, truths, upload, sample,
                    mismatch, golden>>
    BY DEF files, truthVars
  <1>2. TypeOK'
    <2>1. /\ draft' # None /\ writer' # None
          /\ DOMAIN draft'.claims \subseteq Ids
          /\ Range(draft'.claims) \subseteq Customers
          /\ draft'.rows \in [Ids -> PoolCosts]
          /\ draft'.audited \subseteq Ids
      BY DatabaseTypes, DatasetAssumption
    <2> QED BY <1>1, <2>1 DEF IInv, TypeOK
  <1>3. Sound(db)'
    BY <1>1 DEF IInv, Sound
  <1>4. UploadInv'
    BY <1>1 DEF IInv, UploadInv
  <1>5. FileInv' /\ LabelledInv' /\ SelectingInv' /\ ComputingInv'
    BY <1>1, ReaderStays DEF files
  <1> QED BY <1>2, <1>3, <1>4, <1>5 DEF IInv

LEMMA DeleteClaimsInv == ASSUME IInv, DeleteClaims PROVE IInv'
  <1>1. /\ db.audited = {} /\ draft' = Emptied /\ writer' = "filling"
        /\ UNCHANGED <<policies, db, labelled, truthVars, upload, files>>
    BY DEF DeleteClaims
  <1>2. Emptied \in Databases
    BY <1>1, EmptiedFacts DEF IInv, Sound
  <1>3. DraftInv'
    BY <1>1 DEF DraftInv, Emptied
  <1> QED BY <1>1, <1>2, <1>3, DraftMoves

LEMMA InsertClaimsInv == ASSUME IInv, InsertClaims PROVE IInv'
  <1>1. PICK table \in ClaimTables : Insured(table) /\ draft' = Reseeded(table)
    BY DEF InsertClaims, IInv, DraftInv, Insured, Reseeded
  <1>2. /\ db.audited = {} /\ writer' = "seeded"
        /\ UNCHANGED <<policies, db, labelled, truthVars, upload, files>>
    BY DEF InsertClaims, IInv, DraftInv
  <1>3. Reseeded(table) \in Databases
    BY <1>1, <1>2, SoundDrafts DEF IInv, Sound
  <1>4. Insured(table)' /\ draft' = Reseeded(table)' /\ db'.audited = {}
    BY <1>1, <1>2 DEF Insured, Reseeded, Emptied, WithClaims
  <1>5. DraftInv'
    BY <1>2, <1>4 DEF DraftInv
  <1> QED BY <1>1, <1>2, <1>3, <1>5, DraftMoves

LEMMA ReplaceMismatchesInv == ASSUME IInv, ReplaceMismatches PROVE IInv'
  <1>1. /\ draft' = WithClaims(db, MismatchIds, MismatchClaims) /\ writer' = "labelling"
        /\ UNCHANGED <<policies, db, labelled, truthVars, upload, files>>
    BY DEF ReplaceMismatches
  <1>2. WithClaims(db, MismatchIds, MismatchClaims) \in Databases
    BY SoundDrafts DEF IInv, Sound
  <1>3. DraftInv'
    BY <1>1 DEF DraftInv, WithClaims
  <1> QED BY <1>1, <1>2, <1>3, DraftMoves

(* What is committed is sound, and only a reseeding loses adjudications,   *)
(* when there are none.                                                    *)
LEMMA CommitFacts ==
  ASSUME IInv, Commit
  PROVE  Sound(db') /\ db'.audited = db.audited
  <1>1. Sound(db)
    BY DEF IInv
  <1>2. CASE writer = "seeded"
    <2>1. db.audited = {} /\ \E table \in ClaimTables : Insured(table) /\ db' = Reseeded(table)
      BY <1>2 DEF IInv, DraftInv, Commit
    <2> QED BY <1>1, <2>1, SoundDrafts
  <1>3. CASE writer = "labelling"
    <2>1. db' = WithClaims(db, MismatchIds, MismatchClaims)
      BY <1>3 DEF IInv, DraftInv, Commit
    <2>2. db \in Databases
      BY <1>1 DEF Sound
    <2> QED BY <1>1, <2>1, <2>2, ListedTables, SoundDrafts, WithClaimsFacts
  <1> QED BY <1>2, <1>3 DEF Commit

LEMMA CommitInv == ASSUME IInv, Commit PROVE IInv'
  <1>1. /\ draft' = None /\ writer' = None /\ labelled' \in {labelled, 0}
        /\ UNCHANGED <<policies, selecting, computing, truths, upload, sample, mismatch, golden>>
    BY DEF Commit, files, truthVars
  <1>7. 0 \in 0..Len(MismatchClaims)
    BY DatasetAssumption
  <1>2. Sound(db)'
    BY <1>1, CommitFacts DEF Sound
  <1>3. db' \in Databases
    BY CommitFacts DEF Sound
  <1>4. TypeOK'
    BY <1>1, <1>3, <1>7, DatabaseTypes DEF IInv, TypeOK
  <1>5. DraftInv'
    BY <1>1, DatasetAssumption DEF DraftInv
  <1>6. UploadInv'
    BY <1>1, CommitFacts DEF IInv, UploadInv
  <1>8. FileInv' /\ SelectingInv' /\ ComputingInv'
    BY <1>1, ReaderStays DEF files
  <1>9. LabelledInv'
    BY <1>1, <1>7 DEF IInv, LabelledInv
  <1> QED BY <1>2, <1>4, <1>5, <1>6, <1>8, <1>9 DEF IInv

-----------------------------------------------------------------------------
(* The steps that read the database, and write files at most.              *)

LEMMA TornFacts == GoodFile(Torn) /\ DistinctIds(Torn)
  BY DEF GoodFile, DistinctIds, Whole

LEMMA ReaderMoves ==
  ASSUME IInv, UNCHANGED <<policies, db, draft, writer, upload>>, truths' \in 0..MaxTruths,
         LabelledInv', SelectingInv', ComputingInv', FileInv'
  PROVE  IInv'
  <1>1. TypeOK'
    <2>1. \A file \in {sample', mismatch', golden'} : file \in {None, Torn} \/ file \in Seq(Records)
      BY DEF FileInv, GoodFile
    <2> QED BY <2>1 DEF IInv, TypeOK, LabelledInv, SelectingInv, ComputingInv
  <1>2. Sound(db)'
    BY DEF IInv, Sound
  <1>3. DraftInv'
    <2>1. \A table : Insured(table)' <=> Insured(table)
      BY DEF Insured
    <2>2. \A table : Reseeded(table)' = Reseeded(table)
      BY DEF Reseeded, Emptied, WithClaims
    <2>3. Emptied' = Emptied
      BY DEF Emptied
    <2> QED BY <2>1, <2>2, <2>3 DEF IInv, DraftInv
  <1>4. UploadInv'
    BY DEF IInv, UploadInv
  <1> QED BY <1>1, <1>2, <1>3, <1>4 DEF IInv

LEMMA PriceMismatchInv == ASSUME IInv, PriceMismatch PROVE IInv'
  <1> DEFINE next == labelled + 1
  <1>1. /\ labelled # None /\ labelled < Len(MismatchClaims)
        /\ labelled' = IF HasPolicy(MismatchIds[next]) THEN next ELSE None
        /\ UNCHANGED <<policies, db, draft, writer, upload, files, selecting, computing, truths>>
    BY DEF PriceMismatch, truthVars
  <1>2. /\ labelled \in 0..Len(MismatchClaims) /\ Len(MismatchClaims) \in Nat
        /\ \A i \in 1..labelled : MismatchClaims[i].customer \in policies
    BY <1>1, DatasetAssumption DEF IInv, LabelledInv
  <1>3. LabelledInv'
    <2>1. CASE HasPolicy(MismatchIds[next])
      <3>1. labelled' = next /\ next \in 1..Len(MismatchClaims)
        BY <1>1, <1>2, <2>1
      <3>2. next \in DOMAIN MismatchIds
        BY <1>2, <3>1, IdFacts, DatasetAssumption
      <3>3. MismatchClaims[next].customer \in policies
        BY <2>1, <3>2 DEF HasPolicy, IInv, Sound
      <3>4. \A i \in 1..next : i \in 1..labelled \/ i = next
        BY <1>2
      <3> QED BY <1>1, <1>2, <3>1, <3>3, <3>4 DEF LabelledInv
    <2>2. CASE ~HasPolicy(MismatchIds[next])
      BY <1>1, <2>2 DEF LabelledInv
    <2> QED BY <2>1, <2>2
  <1> QED BY <1>1, <1>3, ReaderMoves, ReaderStays DEF IInv, TypeOK

LEMMA WriteMismatchesInv == ASSUME IInv, WriteMismatches PROVE IInv'
  <1> DEFINE file == [i \in DOMAIN MismatchIds |-> Labelled(i)]
  <1>1. /\ labelled = Len(MismatchClaims) /\ labelled' = None /\ mismatch' \in {file, Torn}
        /\ UNCHANGED <<policies, db, draft, writer, upload, sample, golden, selecting, computing,
                       truths>>
    BY DEF WriteMismatches, truthVars
  <1>2. PICK n \in Nat : n = Len(MismatchClaims) /\ DOMAIN MismatchIds = 1..n
    BY IdFacts, DatasetAssumption
  <1>3. \A i \in 1..n : Labelled(i) \in Records /\ GoodRecord(Labelled(i))
    <2>1. labelled # None
      BY <1>1, <1>2, DatasetAssumption
    <2>2. \A i \in 1..n : MismatchClaims[i].customer \in policies
      BY <1>1, <1>2, <2>1 DEF IInv, LabelledInv
    <2> QED BY <1>2, <2>2, LabelledFacts
  <1>4. GoodFile(file)
    <2>1. file \in Seq(Records) /\ DOMAIN file = 1..n /\ \A i \in 1..n : file[i] = Labelled(i)
      BY <1>2, <1>3
    <2> HIDE DEF file
    <2> QED BY <1>3, <2>1 DEF GoodFile
  <1> HIDE DEF file
  <1>5. GoodFile(file)' /\ GoodFile(Torn)'
    BY <1>1, <1>4, ReaderStays DEF GoodFile
  <1>6. FileInv'
    BY <1>1, <1>5, ReaderStays DEF IInv, FileInv
  <1> QED BY <1>1, <1>6, ReaderMoves, ReaderStays DEF IInv, TypeOK

-----------------------------------------------------------------------------
(* compute_golden_truth picks.                                             *)

LEMMA CoverageTypes ==
  ASSUME IInv, NEW id \in Ids
  PROVE  CoverageType(id) \in Pools \cup {"none"}
  <1>1. db.rows[id] \in PoolCosts
    BY DEF IInv, TypeOK
  <1>2. db.rows[id] # NoRows => \E p \in Pools : db.rows[id][p] > 0
    BY <1>1 DEF PoolCosts, NoRows
  <1> QED BY <1>2 DEF CoverageType

LEMMA KindTypes ==
  ASSUME NEW policy \in PolicyRow, NEW rows \in PoolCosts, NEW coverage \in Pools \cup {"none"}
  PROVE  Kind(ComputePayout(policy, rows, TruthConfidence), coverage) \in Kinds
  <1> DEFINE result == ComputePayout(policy, rows, TruthConfidence)
  <1>1. result.route \in Routes /\ result.reasons \subseteq PayoutReasons
    <2>1. TruthConfidence \in Nat
      BY DEF TruthConfidence
    <2> QED BY <2>1, PayoutType DEF PayoutResult
  <1> HIDE DEF result
  <1>2. PrimaryReason(result.reasons) \in PayoutReasons \cup {""}
    BY <1>1 DEF PrimaryReason
  <1>3. (result.payout = 0) \in BOOLEAN
    OBVIOUS
  <1>4. Kind(result, coverage) \in Kinds
    BY <1>1, <1>2, <1>3 DEF Kind, Kinds
  <1> QED BY <1>4 DEF result

LEMMA ListClaimsInv == ASSUME IInv, ListClaims PROVE IInv'
  <1>1. PICK n \in SampleSizes :
          selecting' = [n |-> n, listed |-> [id \in DOMAIN db.claims |-> CoverageType(id)],
                        seen |-> <<>>, picked |-> <<>>, overflow |-> <<>>, customer |-> None]
    BY DEF ListClaims
  <1>2. /\ UNCHANGED <<policies, db, draft, writer, upload, labelled, computing, files>>
        /\ truths' = truths + 1 /\ truths < MaxTruths
    BY DEF ListClaims
  <1> DEFINE listed == [id \in DOMAIN db.claims |-> CoverageType(id)]
             s      == selecting'
  <1>3. DOMAIN db.claims \subseteq Ids
    BY DatabaseTypes DEF IInv, Sound
  <1>4. listed \in [DOMAIN db.claims -> Pools \cup {"none"}] /\ DOMAIN listed = DOMAIN db.claims
    BY <1>3, CoverageTypes
  <1>5. /\ s \in [n : {n}, listed : {listed}, seen : {<<>>}, picked : {<<>>}, overflow : {<<>>},
                  customer : {None}]
        /\ n \in Nat \ {0}
    BY <1>1, DatasetAssumption
  <1> HIDE DEF listed, s
  <1>6. /\ DOMAIN <<>> = {} /\ <<>> \in [{} -> Kinds] /\ <<>> \in Seq(Ids) /\ Len(<<>>) = 0
        /\ Range(<<>>) = {} /\ IsInjective(<<>>)
    BY DEF Range, IsInjective
  <1>7. IsSelection(s)
    BY <1>3, <1>4, <1>5, <1>6 DEF IsSelection
  <1>8. Picking(s)
    BY <1>5, <1>6 DEF Picking
  <1>9. SelectingInv'
    BY <1>7, <1>8 DEF s, SelectingInv
  <1>10. truths' \in 0..MaxTruths
    BY <1>2, DatasetAssumption DEF IInv, TypeOK
  <1> QED BY <1>2, <1>9, <1>10, ReaderMoves, ReaderStays

LEMMA ReadListedPolicyInv == ASSUME IInv, ReadListedPolicy PROVE IInv'
  <1> DEFINE id    == NextListed(selecting)
             after == [selecting EXCEPT !.customer = db.claims[id]]
  <1>1. /\ selecting # None /\ ~ScanEnded(selecting)
        /\ selecting' = IF HasPolicy(id) THEN after ELSE None
        /\ UNCHANGED <<policies, db, draft, writer, upload, labelled, computing, files, truths>>
    BY DEF ReadListedPolicy
  <1>2. IsSelection(selecting) /\ Picking(selecting)
    BY <1>1 DEF IInv, SelectingInv
  <1>3. ASSUME HasPolicy(id) PROVE IsSelection(after) /\ Picking(after)
    <2>1. db.claims[id] \in Customers
      BY <1>3 DEF HasPolicy, IInv, TypeOK
    <2> DEFINE owner == db.claims[id]
    <2> HIDE DEF id, owner
    <2>2. after \in [n : {selecting.n}, listed : {selecting.listed}, seen : {selecting.seen},
                     picked : {selecting.picked}, overflow : {selecting.overflow},
                     customer : {owner}]
      BY <1>2 DEF IsSelection, owner
    <2> HIDE DEF after
    <2>3. IsSelection(after)
      BY <1>2, <2>1, <2>2 DEF IsSelection, owner
    <2>4. /\ Unpriced(after) = Unpriced(selecting) /\ ~ScanEnded(after)
          /\ \A c : First(selecting, c) => First(after, c)
      BY <1>1, <2>2 DEF Unpriced, ScanEnded, First
    <2>5. Picking(after)
      BY <1>2, <2>2, <2>4 DEF Picking
    <2> QED BY <2>3, <2>5
  <1> HIDE DEF id, after
  <1>4. SelectingInv'
    BY <1>1, <1>3 DEF SelectingInv
  <1> QED BY <1>1, <1>4, ReaderMoves, ReaderStays DEF IInv, TypeOK

LEMMA PriceListedInv == ASSUME IInv, PriceListed PROVE IInv'
  <1> DEFINE id     == NextListed(selecting)
             result == ComputePayout(PolicyOf[selecting.customer], db.rows[id], TruthConfidence)
             kind   == Kind(result, selecting.listed[id])
  <1>1. /\ selecting # None /\ selecting.customer # None
        /\ selecting' = Scan(selecting, id, kind)
        /\ UNCHANGED <<policies, db, draft, writer, upload, labelled, computing, files, truths>>
    BY DEF PriceListed
  <1>2. IsSelection(selecting) /\ Picking(selecting) /\ ~ScanEnded(selecting)
    BY <1>1 DEF IInv, SelectingInv, Picking
  <1>3. id \in Ids /\ id \in DOMAIN selecting.listed
    BY <1>2, NextListedFacts DEF Unpriced
  <1>4. /\ selecting.customer \in Customers /\ db.rows[id] \in PoolCosts
        /\ selecting.listed[id] \in Pools \cup {"none"}
    BY <1>1, <1>2, <1>3 DEF IsSelection, IInv, TypeOK
  <1>5. kind \in Kinds
    BY <1>4, KindTypes, DatasetAssumption
  <1> HIDE DEF kind
  <1>6. IsSelection(selecting') /\ Picking(selecting')
    BY <1>1, <1>2, <1>5, ScanKeepsPicking
  <1>7. SelectingInv'
    BY <1>6 DEF SelectingInv
  <1> QED BY <1>1, <1>7, ReaderMoves, ReaderStays DEF IInv, TypeOK

LEMMA SelectInv == ASSUME IInv, Select PROVE IInv'
  <1> DEFINE picks == SelectDiverse(selecting)
  <1>1. /\ selecting # None /\ ScanEnded(selecting) /\ selecting' = None
        /\ computing' = [picked |-> picks, records |-> <<>>, customer |-> None,
                         costs |-> None, owner |-> None, audited |-> FALSE]
        /\ UNCHANGED <<policies, db, draft, writer, upload, labelled, files, truths>>
    BY DEF Select
  <1>2. IsSelection(selecting) /\ Picking(selecting)
    BY <1>1 DEF IInv, SelectingInv
  <1>3. picks \in Seq(Ids) /\ IsInjective(picks)
    BY <1>1, <1>2, SelectFacts
  <1> HIDE DEF picks
  <1>4. computing' \in Computations
    BY <1>1, <1>3 DEF Computations
  <1>5. Gathered(computing')
    <2>1. Len(picks) \in Nat /\ Len(<<>>) = 0 /\ DOMAIN <<>> = {}
      BY <1>3
    <2>2. /\ computing'.picked = picks /\ computing'.records = <<>> /\ computing'.customer = None
          /\ computing'.costs = None /\ computing'.owner = None
      BY <1>1
    <2> QED BY <1>3, <2>1, <2>2 DEF Gathered
  <1>6. ComputingInv'
    BY <1>1, <1>4, <1>5 DEF ComputingInv, Gathered, GoodRecord, MismatchInsured
  <1> QED BY <1>1, <1>6, ReaderMoves, ReaderStays DEF IInv, TypeOK
-----------------------------------------------------------------------------
(* compute_golden_truth computes, and its files are put together.          *)

(* A step of compute that is half way through a claim.                     *)
LEMMA ComputingMoves ==
  ASSUME IInv, Computing, ComputingInv'
  PROVE  IInv'
  <1>1. UNCHANGED <<policies, db, draft, writer, labelled, selecting, truths, upload, files>>
    BY DEF Computing
  <1> QED BY <1>1, ReaderMoves, ReaderStays DEF IInv, TypeOK

LEMMA ComputingFacts ==
  ASSUME IInv, Computing
  PROVE  /\ computing \in Computations /\ Gathered(computing)
         /\ Pick = Turn(computing) /\ Pick \in Ids
         /\ Len(computing.records) \in Nat /\ Len(computing.records) < Len(computing.picked)
         /\ computing \in [picked : {computing.picked}, records : {computing.records},
                           customer : {computing.customer}, costs : {computing.costs},
                           owner : {computing.owner}, audited : {computing.audited}]
  <1>1. computing \in Computations /\ Gathered(computing)
    BY DEF IInv, ComputingInv, Computing
  <1>2. /\ computing.picked \in Seq(Ids) /\ computing.records \in Seq(Records)
        /\ Len(computing.records) \in Nat /\ Len(computing.picked) \in Nat
        /\ Len(computing.records) < Len(computing.picked)
    BY <1>1 DEF Computations, Computing
  <1>3. Len(computing.records) + 1 \in DOMAIN computing.picked
    BY <1>2
  <1>4. Pick = Turn(computing) /\ Pick \in Ids
    BY <1>2, <1>3 DEF Pick, Turn
  <1> QED BY <1>1, <1>2, <1>4 DEF Computations

(* A mismatch claim has an owner of its own wherever it is read.           *)
LEMMA OwnersInsured ==
  ASSUME IInv, NEW id \in DOMAIN db.claims, MismatchInsured(id) \/ db.claims[id] \in policies
  PROVE  MismatchInsured(id) /\ db.claims[id] \in policies
  <1>1. \A i \in DOMAIN MismatchIds :
            id = MismatchIds[i] => db.claims[id] = MismatchClaims[i].customer
    BY DEF IInv, Sound
  <1>2. id \in Range(MismatchIds) \/ db.claims[id] \in policies
    BY DEF IInv, Sound
  <1> QED BY <1>1, <1>2 DEF MismatchInsured, Range

LEMMA ReadPolicyInv == ASSUME IInv, ReadPolicy PROVE IInv'
  <1> DEFINE owner   == db.claims[Pick]
             audited == Pick \in db.audited
             after   == [computing EXCEPT !.customer = owner, !.audited = audited]
  <1>1. /\ Computing /\ computing.customer = None
        /\ computing' = IF HasPolicy(Pick) THEN after ELSE None
        /\ UNCHANGED policies
    BY DEF ReadPolicy, Computing
  <1>2. ASSUME HasPolicy(Pick) PROVE after \in Computations /\ Gathered(after)
    <2>1. /\ owner \in Customers /\ owner \in policies /\ MismatchInsured(Turn(computing))
      BY <1>1, <1>2, ComputingFacts, OwnersInsured DEF HasPolicy, IInv, TypeOK
    <2>3. audited \in BOOLEAN
      OBVIOUS
    <2> HIDE DEF owner, audited
    <2>2. after \in [picked : {computing.picked}, records : {computing.records},
                     customer : {owner}, costs : {computing.costs},
                     owner : {computing.owner}, audited : {audited}]
      BY <1>1, <2>3, ComputingFacts
    <2> HIDE DEF after
    <2>4. after \in Computations
      BY <1>1, <2>1, <2>2, <2>3, ComputingFacts DEF Computations
    <2>5. Turn(after) = Turn(computing)
      BY <2>2 DEF Turn
    <2>6. computing.costs = None /\ computing.owner = None
      BY <1>1, ComputingFacts DEF Gathered
    <2>7. Gathered(after)
      BY <1>1, <2>1, <2>2, <2>5, <2>6, ComputingFacts DEF Gathered
    <2> QED BY <2>4, <2>7
  <1> HIDE DEF owner, after
  <1>3. ComputingInv'
    BY <1>1, <1>2 DEF ComputingInv, Gathered, GoodRecord, MismatchInsured
  <1> QED BY <1>1, <1>3, ComputingMoves

LEMMA ReadCostsInv == ASSUME IInv, ReadCosts PROVE IInv'
  <1> DEFINE costs == db.rows[Pick]
             after == [computing EXCEPT !.costs = costs]
  <1>1. /\ Computing /\ computing.customer # None /\ computing.costs = None
        /\ computing' = after /\ UNCHANGED policies
    BY DEF ReadCosts, Computing
  <1>2. costs \in PoolCosts
    BY <1>1, ComputingFacts DEF IInv, TypeOK
  <1> HIDE DEF costs
  <1>3. after \in [picked : {computing.picked}, records : {computing.records},
                   customer : {computing.customer}, costs : {costs},
                   owner : {computing.owner}, audited : {computing.audited}]
    BY <1>1, ComputingFacts
  <1> HIDE DEF after
  <1>4. after \in Computations
    BY <1>1, <1>2, <1>3, ComputingFacts DEF Computations
  <1>5. Turn(after) = Turn(computing) /\ computing.owner = None
    BY <1>1, <1>3, ComputingFacts DEF Turn, Gathered
  <1>6. Gathered(after)
    BY <1>1, <1>3, <1>5, ComputingFacts DEF Gathered
  <1>7. ComputingInv'
    BY <1>1, <1>4, <1>6 DEF ComputingInv, Gathered, GoodRecord, MismatchInsured
  <1> QED BY <1>1, <1>7, ComputingMoves

LEMMA ReadClaimInv == ASSUME IInv, ReadClaim PROVE IInv'
  <1> DEFINE owner == db.claims[Pick]
             after == [computing EXCEPT !.owner = owner]
  <1>1. /\ Computing /\ computing.costs # None /\ computing.owner = None
        /\ computing' = IF Pick \in DOMAIN db.claims THEN after ELSE None
        /\ UNCHANGED policies
    BY DEF ReadClaim, Computing
  <1>2. ASSUME Pick \in DOMAIN db.claims PROVE after \in Computations /\ Gathered(after)
    <2>1. MismatchInsured(Turn(computing))
      BY <1>1, ComputingFacts DEF Gathered
    <2>2. owner \in policies /\ owner \in Customers
      BY <1>1, <1>2, <2>1, ComputingFacts, OwnersInsured DEF IInv, TypeOK
    <2> HIDE DEF owner
    <2>3. after \in [picked : {computing.picked}, records : {computing.records},
                     customer : {computing.customer}, costs : {computing.costs},
                     owner : {owner}, audited : {computing.audited}]
      BY <1>1, ComputingFacts
    <2> HIDE DEF after
    <2>4. after \in Computations
      BY <1>1, <2>2, <2>3, ComputingFacts DEF Computations
    <2>5. Turn(after) = Turn(computing)
      BY <2>3 DEF Turn
    <2>6. Gathered(after)
      BY <1>1, <2>2, <2>3, <2>5, ComputingFacts DEF Gathered
    <2> QED BY <2>4, <2>6
  <1> HIDE DEF owner, after
  <1>3. ComputingInv'
    BY <1>1, <1>2 DEF ComputingInv, Gathered, GoodRecord, MismatchInsured
  <1> QED BY <1>1, <1>3, ComputingMoves

LEMMA ReadDamageInv == ASSUME IInv, ReadDamage PROVE IInv'
  <1> DEFINE record  == TruthRecord(Pick)
             records == computing.records
             after   == [computing EXCEPT !.records = Append(@, record), !.customer = None,
                                          !.costs = None, !.owner = None, !.audited = FALSE]
  <1>1. /\ Computing /\ computing.owner # None /\ computing' = after /\ UNCHANGED policies
    BY DEF ReadDamage, Computing
  <1>2. /\ computing \in Computations /\ Gathered(computing) /\ Pick = Turn(computing)
        /\ Pick \in Ids /\ Len(records) \in Nat /\ Len(records) < Len(computing.picked)
    BY <1>1, ComputingFacts
  <1>3. record \in Records /\ record.id = Pick /\ GoodRecord(record)
    <2>1. computing.costs # None /\ computing.customer # None /\ computing.owner \in policies
      BY <1>1, <1>2 DEF Gathered
    <2>2. computing.costs \in PoolCosts /\ computing.customer \in Customers
      BY <1>2, <2>1 DEF Computations
    <2>3. db.rows[Pick] \in PoolCosts /\ policies \subseteq Customers
      BY <1>2 DEF IInv, TypeOK
    <2> QED BY <1>2, <2>1, <2>2, <2>3, TruthRecordFacts
  <1> HIDE DEF record
  <1>4. after \in [picked : {computing.picked}, records : {Append(records, record)},
                   customer : {None}, costs : {None}, owner : {None}, audited : {FALSE}]
    BY <1>1, ComputingFacts
  <1> HIDE DEF after
  <1>5. /\ Append(records, record) \in Seq(Records)
        /\ Len(Append(records, record)) = Len(records) + 1
        /\ DOMAIN records = 1..Len(records)
        /\ DOMAIN Append(records, record) = 1..(Len(records) + 1)
        /\ \A i \in 1..Len(records) : Append(records, record)[i] = records[i]
        /\ Append(records, record)[Len(records) + 1] = record
    <2>1. records \in Seq(Records)
      BY <1>2 DEF Computations
    <2> HIDE DEF records
    <2> QED BY <1>3, <2>1, AppendFacts
  <1>6. after \in Computations
    BY <1>2, <1>4, <1>5 DEF Computations
  <1>7. \A i \in 1..(Len(records) + 1) :
            /\ Append(records, record)[i].id = computing.picked[i]
            /\ GoodRecord(Append(records, record)[i])
    <2>1. \A i \in 1..Len(records) : records[i].id = computing.picked[i] /\ GoodRecord(records[i])
      BY <1>2, <1>5 DEF Gathered
    <2>2. record.id = computing.picked[Len(records) + 1]
      BY <1>2, <1>3 DEF Turn
    <2> HIDE DEF records
    <2>3. \A i \in 1..(Len(records) + 1) : i \in 1..Len(records) \/ i = Len(records) + 1
      BY <1>2
    <2> QED BY <1>3, <1>5, <2>1, <2>2, <2>3
  <1>8. Gathered(after)
    <2>1. Len(records) + 1 <= Len(computing.picked)
      <3>1. Len(computing.picked) \in Nat
        BY <1>2 DEF Computations
      <3> QED BY <1>2, <3>1
    <2> HIDE DEF records
    <2> QED BY <1>2, <1>4, <1>5, <1>7, <2>1 DEF Gathered
  <1>9. ComputingInv'
    BY <1>1, <1>6, <1>8 DEF ComputingInv, Gathered, GoodRecord, MismatchInsured
  <1> QED BY <1>1, <1>9, ComputingMoves

(* A record per pick, and no pick twice.                                   *)
LEMMA WriteSampleInv == ASSUME IInv, WriteSample PROVE IInv'
  <1>1. PICK file : file = computing.records
    OBVIOUS
  <1>2. /\ computing # None /\ Len(file) = Len(computing.picked) /\ computing' = None
        /\ sample' \in {file, Torn}
        /\ UNCHANGED <<policies, db, draft, writer, upload, labelled, selecting, truths,
                       mismatch, golden>>
    BY <1>1 DEF WriteSample
  <1>3. computing \in Computations /\ Gathered(computing)
    BY <1>2 DEF IInv, ComputingInv
  <1>4. GoodFile(file)
    BY <1>1, <1>3 DEF GoodFile, Gathered, Computations
  <1>5. DistinctIds(file)
    <2>1. DOMAIN file = DOMAIN computing.picked
      BY <1>1, <1>2, <1>3 DEF Computations
    <2> QED BY <1>1, <1>3, <2>1 DEF Gathered, IsInjective, DistinctIds
  <1>6. FileInv'
    BY <1>2, <1>4, <1>5, ReaderStays, TornFacts DEF IInv, FileInv
  <1> QED BY <1>2, <1>6, ReaderMoves, ReaderStays DEF IInv, TypeOK

LEMMA ExportInv == ASSUME IInv, Export PROVE IInv'
  <1>1. PICK both : both = sample \o mismatch
    OBVIOUS
  <1>2. /\ sample \notin {None, Torn} /\ mismatch # Torn
        /\ golden' \in {sample, both, Torn} /\ (mismatch = None => golden' \in {sample, Torn})
        /\ UNCHANGED <<policies, db, draft, writer, upload, labelled, selecting, computing, truths,
                       sample, mismatch>>
    BY <1>1 DEF Export, scriptVars, truthVars
  <1>3. GoodFile(sample) /\ GoodFile(mismatch) /\ DistinctIds(sample)
    BY DEF IInv, FileInv
  <1>4. ASSUME mismatch # None PROVE GoodFile(both)
    <2>1. /\ sample \in Seq(Records) /\ mismatch \in Seq(Records)
          /\ \A i \in DOMAIN sample : GoodRecord(sample[i])
          /\ \A i \in DOMAIN mismatch : GoodRecord(mismatch[i])
      BY <1>2, <1>3, <1>4 DEF GoodFile
    <2>2. /\ both \in Seq(Records) /\ DOMAIN both = 1..(Len(sample) + Len(mismatch))
          /\ Len(sample) \in Nat /\ Len(mismatch) \in Nat
          /\ DOMAIN sample = 1..Len(sample) /\ DOMAIN mismatch = 1..Len(mismatch)
      BY <1>1, <2>1, ConcatFacts
    <2>3. ASSUME NEW i \in 1..(Len(sample) + Len(mismatch)) PROVE GoodRecord(both[i])
      <3>1. CASE i \in 1..Len(sample)
        BY <1>1, <2>1, <2>2, <3>1, ConcatFacts
      <3>2. CASE i \in (Len(sample) + 1)..(Len(sample) + Len(mismatch))
        BY <1>1, <2>1, <2>2, <3>2, ConcatFacts
      <3> QED BY <2>2, <3>1, <3>2
    <2> QED BY <2>2, <2>3 DEF GoodFile
  <1>5. PICK file : golden' = file
    OBVIOUS
  <1>6. GoodFile(file)
    BY <1>2, <1>3, <1>4, <1>5, TornFacts
  <1>7. FileInv'
    BY <1>2, <1>3, <1>5, <1>6, ReaderStays DEF IInv, FileInv
  <1> QED BY <1>2, <1>7, ReaderMoves, ReaderStays DEF IInv, TypeOK, files

LEMMA KillReaderInv == ASSUME IInv, KillReader PROVE IInv'
  <1>1. /\ labelled' \in {labelled, None} /\ selecting' \in {selecting, None}
        /\ computing' \in {computing, None}
        /\ UNCHANGED <<policies, db, draft, writer, truths, upload, files>>
    BY DEF KillReader
  <1> QED BY <1>1, ReaderMoves, ReaderStays DEF IInv, TypeOK

LEMMA KillWriterInv == ASSUME IInv, KillWriter PROVE IInv'
  <1>1. /\ draft' = None /\ writer' = None
        /\ UNCHANGED <<policies, db, labelled, selecting, computing, truths, upload,
                       sample, mismatch, golden>>
    BY DEF KillWriter, truthVars, files
  <1>2. TypeOK'
    BY <1>1 DEF IInv, TypeOK
  <1>3. Sound(db)'
    BY <1>1 DEF IInv, Sound
  <1>4. DraftInv'
    BY <1>1, DatasetAssumption DEF DraftInv
  <1>5. UploadInv'
    BY <1>1 DEF IInv, UploadInv
  <1>6. FileInv' /\ LabelledInv' /\ SelectingInv' /\ ComputingInv'
    BY <1>1, ReaderStays DEF files
  <1> QED BY <1>2, <1>3, <1>4, <1>5, <1>6 DEF IInv

-----------------------------------------------------------------------------
(* The steps of the live service, each in a transaction of its own.        *)

LEMMA UploadMoves ==
  ASSUME IInv, Free, NEW id \in LiveIds, upload[id] # "ended", Sound(db'),
         NEW how \in {"opened", "written", "ended"}, upload' = [upload EXCEPT ![id] = how],
         \A other \in db'.audited : other \in db.audited \/ (other = id /\ how = "ended"),
         UNCHANGED <<policies, scriptVars, files>>
  PROVE  IInv'
  <1>1. UNCHANGED <<policies, draft, writer, labelled, selecting, computing, truths, sample,
                    mismatch, golden>>
    BY DEF scriptVars, truthVars, files
  <1>2. db' \in Databases
    BY DEF Sound
  <1>3. TypeOK'
    BY <1>1, <1>2, DatabaseTypes DEF IInv, TypeOK
  <1>4. Sound(db)'
    BY <1>1 DEF Sound
  <1>5. DraftInv'
    BY <1>1, NoDraft DEF DraftInv
  <1>6. UploadInv'
    <2> SUFFICES ASSUME NEW other \in db'.audited PROVE upload'[other] = "ended"
      BY DEF UploadInv
    <2>1. other \in LiveIds /\ upload \in [LiveIds -> {"none", "opened", "written", "ended"}]
      BY DEF IInv, TypeOK, Sound
    <2> QED BY <2>1 DEF IInv, UploadInv
  <1>7. FileInv' /\ LabelledInv' /\ SelectingInv' /\ ComputingInv'
    BY <1>1, ReaderStays DEF files
  <1> QED BY <1>3, <1>4, <1>5, <1>6, <1>7 DEF IInv

LEMMA DbFacts ==
  ASSUME IInv
  PROVE  /\ Sound(db) /\ policies \subseteq Customers
         /\ db \in Databases /\ db.rows \in [Ids -> PoolCosts]
         /\ \A id \in LiveIds : id \in Ids /\ db.rows[id] \in PoolCosts
         /\ \E some \in SUBSET Ids : db.claims \in [some -> Customers]
  BY IdFacts DEF IInv, TypeOK, Sound, Databases

LEMMA LiveClaimFacts ==
  \A claim \in LiveClaims : claim.customer \in Customers /\ RowsOf(claim) \in PoolCosts
  BY RowsOfType, DatasetAssumption

LEMMA WriteLiveClaimInv == ASSUME IInv, NEW id \in LiveIds, WriteLiveClaim(id) PROVE IInv'
  <1>1. PICK claim \in LiveClaims :
          /\ claim.customer \in policies
          /\ db' = [db EXCEPT !.claims = Opened(id, claim.customer), !.rows[id] = RowsOf(claim)]
    BY DEF WriteLiveClaim
  <1> DEFINE claims == Opened(id, claim.customer)
             rows   == [db.rows EXCEPT ![id] = RowsOf(claim)]
  <1>2. Sound(db')
    <2>1. db' \in [claims : {claims}, rows : {rows}, audited : {db.audited}]
      BY <1>1, DbFacts DEF Databases
    <2>2. rows \in [Ids -> PoolCosts] /\ \A c \in Ids \ {id} : rows[c] = db.rows[c]
      BY DbFacts, LiveClaimFacts
    <2>3. /\ DOMAIN claims = DOMAIN db.claims \cup {id} /\ claims[id] \in policies
          /\ \A c \in DOMAIN db.claims \ {id} : claims[c] = db.claims[c]
          /\ \E some \in SUBSET Ids : claims \in [some -> Customers]
      BY <1>1, DbFacts, LiveClaimFacts, OpenedFacts
    <2> HIDE DEF claims, rows
    <2> QED BY <2>1, <2>2, <2>3, DbFacts, SoundUpload
  <1>3. db'.audited = db.audited
    BY <1>1, DbFacts DEF Databases
  <1>4. upload[id] = "none" /\ upload' = [upload EXCEPT ![id] = "written"] /\ Free
    BY DEF WriteLiveClaim
  <1> QED BY <1>2, <1>3, <1>4, UploadMoves DEF WriteLiveClaim

LEMMA CreateLiveClaimInv == ASSUME IInv, NEW id \in LiveIds, CreateLiveClaim(id) PROVE IInv'
  <1>1. PICK customer \in policies : db' = [db EXCEPT !.claims = Opened(id, customer)]
    BY DEF CreateLiveClaim
  <1>2. customer \in Customers
    BY DbFacts
  <1> DEFINE claims == Opened(id, customer)
  <1>3. /\ DOMAIN claims = DOMAIN db.claims \cup {id} /\ claims[id] \in policies
        /\ \A c \in DOMAIN db.claims \ {id} : claims[c] = db.claims[c]
        /\ \E some \in SUBSET Ids : claims \in [some -> Customers]
    BY <1>2, DbFacts, OpenedFacts
  <1>4. Sound(db')
    <2>1. db' \in [claims : {claims}, rows : {db.rows}, audited : {db.audited}]
      BY <1>1, DbFacts DEF Databases
    <2> HIDE DEF claims
    <2> QED BY <1>3, <2>1, DbFacts, SoundUpload
  <1>5. db'.audited = db.audited
    BY <1>1, DbFacts DEF Databases
  <1>6. upload[id] = "none" /\ upload' = [upload EXCEPT ![id] = "opened"] /\ Free
    BY DEF CreateLiveClaim
  <1> QED BY <1>4, <1>5, <1>6, UploadMoves DEF CreateLiveClaim

LEMMA PersistLiveDamageInv == ASSUME IInv, NEW id \in LiveIds, PersistLiveDamage(id) PROVE IInv'
  <1>1. upload[id] = "opened" /\ Free /\ UNCHANGED <<policies, scriptVars, files>>
    BY DEF PersistLiveDamage
  <1>2. CASE id \in DOMAIN db.claims
    <2>1. PICK claim \in LiveClaims : /\ claim.customer = db.claims[id]
                                      /\ db' = [db EXCEPT !.rows[id] = RowsOf(claim)]
      BY <1>2 DEF PersistLiveDamage
    <2> DEFINE rows == [db.rows EXCEPT ![id] = RowsOf(claim)]
    <2>2. /\ db' \in [claims : {db.claims}, rows : {rows}, audited : {db.audited}]
          /\ rows \in [Ids -> PoolCosts] /\ \A c \in Ids \ {id} : rows[c] = db.rows[c]
      BY <2>1, DbFacts, LiveClaimFacts DEF Databases
    <2>3. db.claims[id] \in policies
      BY <1>2, DbFacts, IdFacts DEF Sound
    <2>4. Sound(db')
      <3>1. PICK some \in SUBSET Ids : db.claims \in [some -> Customers]
        BY DbFacts
      <3>2. some = DOMAIN db.claims \cup {id}
        BY <1>2, <3>1
      <3> HIDE DEF rows
      <3> QED BY <2>2, <2>3, <3>1, <3>2, DbFacts, SoundUpload
    <2>5. db'.audited = db.audited
      BY <2>1, DbFacts DEF Databases
    <2>6. upload' = [upload EXCEPT ![id] = "written"]
      BY <1>2 DEF PersistLiveDamage
    <2> QED BY <1>1, <2>4, <2>5, <2>6, UploadMoves
  <1>3. CASE id \notin DOMAIN db.claims
    <2>1. upload' = [upload EXCEPT ![id] = "ended"] /\ db' = db
      BY <1>3 DEF PersistLiveDamage
    <2> QED BY <1>1, <2>1, DbFacts, UploadMoves
  <1> QED BY <1>2, <1>3

LEMMA RecordFacts ==
  ASSUME IInv, NEW id \in LiveIds, Record(id)
  PROVE  /\ Sound(db')
         /\ db'.claims = db.claims /\ db'.rows = db.rows
         /\ db'.audited = db.audited \/ db'.audited = db.audited \cup {id}
  <1>1. CASE db' = db
    BY <1>1, DbFacts
  <1>2. CASE id \in DOMAIN db.claims /\ db' = [db EXCEPT !.audited = @ \cup {id}]
    <2>1. /\ db'.claims = db.claims /\ db'.rows = db.rows /\ db'.audited = db.audited \cup {id}
          /\ db' \in [claims : {db.claims}, rows : {db.rows}, audited : {db.audited \cup {id}}]
      BY <1>2, DbFacts DEF Databases
    <2>2. db' \in Databases
      BY <2>1, DbFacts DEF Databases
    <2> QED BY <1>2, <2>1, <2>2, DbFacts DEF Sound
  <1> QED BY <1>1, <1>2 DEF Record

LEMMA RecordInv == ASSUME IInv, NEW id \in LiveIds, Record(id) PROVE IInv'
  <1>1. /\ upload[id] # "ended" /\ Free /\ upload' = [upload EXCEPT ![id] = "ended"]
        /\ UNCHANGED <<policies, scriptVars, files>>
    BY DEF Record
  <1> QED BY <1>1, RecordFacts, UploadMoves

-----------------------------------------------------------------------------
LEMMA NextInv == IInv /\ [Next]_vars => IInv'
  <1> SUFFICES ASSUME IInv, [Next]_vars PROVE IInv'
    OBVIOUS
  <1>1. ASSUME NEW id \in LiveIds,
               WriteLiveClaim(id) \/ CreateLiveClaim(id) \/ PersistLiveDamage(id) \/ Record(id)
        PROVE  IInv'
    BY <1>1, WriteLiveClaimInv, CreateLiveClaimInv, PersistLiveDamageInv, RecordInv
  <1>2. CASE UNCHANGED vars
    <2>1. UNCHANGED <<policies, db, draft, writer, labelled, selecting, computing, truths, upload,
                      files>>
      BY <1>2 DEF vars, scriptVars, truthVars
    <2> QED BY <2>1, ReaderMoves, ReaderStays DEF IInv, TypeOK
  <1> QED BY <1>1, <1>2, SeedPoliciesInv, DeleteClaimsInv, InsertClaimsInv, CommitInv,
             ReplaceMismatchesInv, PriceMismatchInv, WriteMismatchesInv,
             ListClaimsInv, ReadListedPolicyInv, PriceListedInv, SelectInv,
             ReadPolicyInv, ReadCostsInv, ReadClaimInv, ReadDamageInv,
             WriteSampleInv, ExportInv, KillWriterInv, KillReaderInv DEF Next

(* The invariant, of every behaviour.                                      *)
THEOREM DatasetInvariant == Spec => []IInv
  <1> QED BY InitInv, NextInv, PTL DEF Spec

(* The database, the drafts and the files are typed.                       *)
THEOREM TypeCorrect == Spec => []TypeOK
  <1>1. IInv => TypeOK
    BY DEF IInv
  <1> QED BY <1>1, DatasetInvariant, PTL

(* Every damage row and every adjudication belongs to a claim, and every   *)
(* claim but the mismatch ones to a policy, although half of the           *)
(* connections leave foreign keys off; and no file has a record of a       *)
(* customer without a policy (main.py:46, seed_claims.py:81,               *)
(* seed_mismatch_claims.py:79-87, 113, schema.sql:38-49).                  *)
THEOREM ReferencesStand == Spec => []ReferencesHold
  <1>1. ASSUME IInv PROVE ReferencesHold
    <2>1. ASSUME NEW file \in {sample, mismatch, golden}, Whole(file), NEW i \in DOMAIN file
          PROVE  file[i].customer \in policies
      <3>1. GoodFile(file)
        BY <1>1 DEF IInv, FileInv
      <3> QED BY <2>1, <3>1 DEF GoodFile, GoodRecord, Whole
    <2> QED BY <1>1, <2>1 DEF IInv, Sound, ReferencesHold, HasPolicy
  <1> QED BY <1>1, DatasetInvariant, PTL

(* Whatever a reseed makes of the database meanwhile, what is picked has   *)
(* the first claim of every kind as they were priced, or only firsts, is   *)
(* as many claims as it can be, and none twice; nor has the sample         *)
(* (compute_golden_truth.py:31-33, 63-64).                                 *)
THEOREM SampleSpans == Spec => []SampleSpansOutcomes
  <1>1. IInv => SampleSpansOutcomes
    BY SoundSamples DEF IInv
  <1> QED BY <1>1, DatasetInvariant, PTL

-----------------------------------------------------------------------------
(* What a step may do to the claims there are.                             *)

(* Who writes the claims: a commit, or an upload that has not been         *)
(* adjudicated.                                                            *)
LEMMA Writers ==
  ASSUME IInv, Next
  PROVE  \/ Commit
         \/ UNCHANGED db
         \/ \E id \in LiveIds : Record(id)
         \/ \E id \in LiveIds :
              /\ upload[id] # "ended"
              /\ db'.audited = db.audited
              /\ DOMAIN db'.claims = DOMAIN db.claims \cup {id}
              /\ \A c \in DOMAIN db.claims \ {id} : db'.claims[c] = db.claims[c]
              /\ \A c \in Ids \ {id} : db'.rows[c] = db.rows[c]
  <1>1. ASSUME NEW id \in LiveIds, WriteLiveClaim(id)
        PROVE  /\ upload[id] # "ended"
               /\ db'.audited = db.audited
               /\ DOMAIN db'.claims = DOMAIN db.claims \cup {id}
               /\ \A c \in DOMAIN db.claims \ {id} : db'.claims[c] = db.claims[c]
               /\ \A c \in Ids \ {id} : db'.rows[c] = db.rows[c]
    <2>1. PICK claim \in LiveClaims :
            /\ claim.customer \in policies
            /\ db' = [db EXCEPT !.claims = Opened(id, claim.customer), !.rows[id] = RowsOf(claim)]
      BY <1>1 DEF WriteLiveClaim
    <2>2. /\ db'.claims = Opened(id, claim.customer) /\ db'.audited = db.audited
          /\ db'.rows = [db.rows EXCEPT ![id] = RowsOf(claim)]
      BY <2>1, DbFacts DEF Databases
    <2>3. \A c \in Ids \ {id} : db'.rows[c] = db.rows[c]
      BY <2>2, DbFacts
    <2>4. /\ DOMAIN db'.claims = DOMAIN db.claims \cup {id}
          /\ \A c \in DOMAIN db.claims \ {id} : db'.claims[c] = db.claims[c]
      <3> DEFINE customer == claim.customer
      <3>1. customer \in Customers /\ db \in Databases /\ db'.claims = Opened(id, customer)
        BY <2>2, DbFacts, LiveClaimFacts
      <3> HIDE DEF customer
      <3>2. /\ DOMAIN Opened(id, customer) = DOMAIN db.claims \cup {id}
            /\ \A c \in DOMAIN db.claims \ {id} : Opened(id, customer)[c] = db.claims[c]
        BY <3>1, OpenedFacts
      <3> QED BY <3>1, <3>2
    <2> QED BY <1>1, <2>2, <2>3, <2>4 DEF WriteLiveClaim
  <1>2. ASSUME NEW id \in LiveIds, CreateLiveClaim(id)
        PROVE  /\ upload[id] # "ended"
               /\ db'.audited = db.audited
               /\ DOMAIN db'.claims = DOMAIN db.claims \cup {id}
               /\ \A c \in DOMAIN db.claims \ {id} : db'.claims[c] = db.claims[c]
               /\ db'.rows = db.rows
    <2>1. PICK customer \in policies : db' = [db EXCEPT !.claims = Opened(id, customer)]
      BY <1>2 DEF CreateLiveClaim
    <2>2. /\ db'.claims = Opened(id, customer) /\ db'.audited = db.audited /\ db'.rows = db.rows
      BY <2>1, DbFacts DEF Databases
    <2>3. upload[id] = "none" /\ customer \in Customers
      BY <1>2, DbFacts DEF CreateLiveClaim
    <2> QED BY <2>2, <2>3, DbFacts, OpenedFacts
  <1>3. ASSUME NEW id \in LiveIds, PersistLiveDamage(id), id \in DOMAIN db.claims
        PROVE  /\ upload[id] # "ended"
               /\ db'.audited = db.audited /\ db'.claims = db.claims
               /\ \A c \in Ids \ {id} : db'.rows[c] = db.rows[c]
    <2>1. PICK claim \in LiveClaims : db' = [db EXCEPT !.rows[id] = RowsOf(claim)]
      BY <1>3 DEF PersistLiveDamage
    <2>2. /\ db'.claims = db.claims /\ db'.audited = db.audited
          /\ db'.rows = [db.rows EXCEPT ![id] = RowsOf(claim)]
      BY <2>1, DbFacts DEF Databases
    <2> QED BY <1>3, <2>2, DbFacts DEF PersistLiveDamage
  <1>4. ASSUME NEW id \in LiveIds, PersistLiveDamage(id), id \notin DOMAIN db.claims
        PROVE  UNCHANGED db
    BY <1>4 DEF PersistLiveDamage
  <1>5. ASSUME \/ SeedPolicies \/ DeleteClaims \/ InsertClaims \/ ReplaceMismatches
               \/ PriceMismatch \/ WriteMismatches
               \/ ListClaims \/ ReadListedPolicy \/ PriceListed \/ Select
               \/ ReadPolicy \/ ReadCosts \/ ReadClaim \/ ReadDamage
               \/ WriteSample \/ Export \/ KillWriter \/ KillReader
        PROVE  UNCHANGED db
    BY <1>5 DEF SeedPolicies, DeleteClaims, InsertClaims, ReplaceMismatches,
                PriceMismatch, WriteMismatches, ListClaims, ReadListedPolicy, PriceListed, Select,
                ReadPolicy, ReadCosts, ReadClaim, ReadDamage, Computing,
                WriteSample, Export, KillWriter, KillReader
  <1> QED BY <1>1, <1>2, <1>3, <1>4, <1>5 DEF Next

(* What a step leaves of the adjudicated claims: all of it.                *)
Survives ==
    \A id \in db.audited :
        /\ id \in db'.audited
        /\ id \in DOMAIN db'.claims
        /\ db'.claims[id] = db.claims[id]
        /\ db'.rows[id] = db.rows[id]

LEMMA AuditedStay == IInv /\ [Next]_vars => Survives
  <1> SUFFICES ASSUME IInv, [Next]_vars, NEW id \in db.audited
               PROVE  /\ id \in db'.audited
                      /\ id \in DOMAIN db'.claims
                      /\ db'.claims[id] = db.claims[id]
                      /\ db'.rows[id] = db.rows[id]
    BY DEF Survives
  <1>1. id \in LiveIds /\ id \in DOMAIN db.claims /\ id \in Ids /\ upload[id] = "ended"
    BY IdFacts DEF IInv, Sound, UploadInv
  <1>2. CASE Commit
    <2>1. writer = "labelling" /\ db' = WithClaims(db, MismatchIds, MismatchClaims)
      BY <1>2 DEF Commit, IInv, DraftInv
    <2>2. \A i \in DOMAIN MismatchClaims : MismatchIds[i] # id
      BY <1>1, IdFacts DEF Range
    <2> QED BY <1>1, <2>1, <2>2, DbFacts, ListedTables, WithClaimsFacts
  <1>3. CASE \E live \in LiveIds : Record(live)
    BY <1>1, <1>3, RecordFacts
  <1>4. CASE UNCHANGED vars
    BY <1>1, <1>4 DEF vars
  <1> QED BY <1>1, <1>2, <1>3, <1>4, Writers

(* No script and no upload takes away or rewrites an adjudicated claim or  *)
(* its damage rows (seed_claims.py:88-90, seed_mismatch_claims.py:68-78).  *)
THEOREM AuditedClaimsStay == Spec => AuditedClaimsSurvive
  <1>1. IInv /\ [Next]_vars => [Survives]_vars
    BY AuditedStay
  <1> QED BY <1>1, DatasetInvariant, PTL DEF Spec, AuditedClaimsSurvive, Survives

(* The seeded part is what it consists of.                                 *)
LEMMA SameSeededPart ==
  ASSUME NEW base, NEW after,
         \A id \in SeededIds : id \in DOMAIN after.claims <=> id \in DOMAIN base.claims,
         \A id \in SeededIds \cap DOMAIN base.claims : after.claims[id] = base.claims[id],
         \A id \in SeededIds : after.rows[id] = base.rows[id]
  PROVE  SeededPart(after) = SeededPart(base)
  BY DEF SeededPart

(* A reader finds one whole seeding or the next, wherever the script is    *)
(* killed (seed_claims.py:88).                                             *)
THEOREM ReseedingAtomic == Spec => ReseedingIsAtomic
  <1> DEFINE Atomic ==
        SeededPart(db') = SeededPart(db) \/
        \E table \in ClaimTables :
            SeededPart(db') = SeededPart(WithClaims(Emptied, [i \in DOMAIN table |-> i], table))
  <1>1. IInv /\ [Next]_vars => [Atomic]_vars
    <2> SUFFICES ASSUME IInv, Next PROVE Atomic
      OBVIOUS
    <2>1. SeededIds \subseteq Ids /\ SeededIds \cap LiveIds = {}
          /\ SeededIds \cap Range(MismatchIds) = {}
      BY IdFacts
    <2>2. CASE Commit /\ writer = "seeded"
      BY <2>2 DEF Commit, IInv, DraftInv, Reseeded
    <2>3. CASE Commit /\ writer = "labelling"
      <3>1. db' = WithClaims(db, MismatchIds, MismatchClaims)
        BY <2>3 DEF Commit, IInv, DraftInv
      <3>2. \A i \in DOMAIN MismatchClaims : MismatchIds[i] \notin SeededIds
        BY <2>1, IdFacts DEF Range
      <3>3. /\ \A id \in SeededIds : id \in DOMAIN db'.claims <=> id \in DOMAIN db.claims
            /\ \A id \in SeededIds \cap DOMAIN db.claims : db'.claims[id] = db.claims[id]
            /\ \A id \in SeededIds : db'.rows[id] = db.rows[id]
        BY <2>1, <3>1, <3>2, DbFacts, ListedTables, WithClaimsFacts
      <3> QED BY <3>3, SameSeededPart
    <2>4. CASE \E id \in LiveIds : Record(id)
      <3>1. db'.claims = db.claims /\ db'.rows = db.rows
        BY <2>4, RecordFacts
      <3> QED BY <3>1, SameSeededPart
    <2>5. ASSUME NEW id \in LiveIds,
                 DOMAIN db'.claims = DOMAIN db.claims \cup {id},
                 \A c \in DOMAIN db.claims \ {id} : db'.claims[c] = db.claims[c],
                 \A c \in Ids \ {id} : db'.rows[c] = db.rows[c]
          PROVE  Atomic
      <3>1. id \notin SeededIds
        BY <2>1
      <3>2. /\ \A c \in SeededIds : c \in DOMAIN db'.claims <=> c \in DOMAIN db.claims
            /\ \A c \in SeededIds \cap DOMAIN db.claims : db'.claims[c] = db.claims[c]
            /\ \A c \in SeededIds : db'.rows[c] = db.rows[c]
        BY <2>1, <2>5, <3>1
      <3> QED BY <3>2, SameSeededPart
    <2>6. CASE UNCHANGED db
      BY <2>6
    <2> HIDE DEF Atomic
    <2> QED BY <2>2, <2>3, <2>4, <2>5, <2>6, Writers DEF Commit
  <1> QED BY <1>1, DatasetInvariant, PTL DEF Spec, ReseedingIsAtomic

-----------------------------------------------------------------------------
(* The truth.                                                              *)

(* What compute has read of an adjudicated claim is what the claim is.     *)
AuditedInv ==
    (computing # None /\ computing.audited) =>
        /\ Pick \in db.audited
        /\ {computing.customer, computing.owner} \subseteq {db.claims[Pick], None}
        /\ computing.costs \in {db.rows[Pick], None}

LEMMA AuditedInit == Init => AuditedInv
  BY DEF Init, AuditedInv

(* While compute does nothing, the claim does not change.                  *)
LEMMA OthersKeepAudited ==
  ASSUME IInv, AuditedInv, Survives, computing' \in {computing, None}
  PROVE  AuditedInv'
  <1>1. CASE computing' = None
    BY <1>1 DEF AuditedInv
  <1>2. CASE computing' = computing
    <2>1. Pick' = Pick
      BY <1>2 DEF Pick
    <2> QED BY <1>2, <2>1 DEF AuditedInv, Survives
  <1> QED BY <1>1, <1>2

LEMMA ReadPolicyAudited == ASSUME IInv, ReadPolicy PROVE AuditedInv'
  <1> DEFINE owner   == db.claims[Pick]
             audited == Pick \in db.audited
             after   == [computing EXCEPT !.customer = owner, !.audited = audited]
  <1>1. /\ Computing /\ computing.customer = None /\ db' = db
        /\ computing' \in {after, None}
    BY DEF ReadPolicy, Computing
  <1>2. computing.costs = None /\ computing.owner = None
    BY <1>1, ComputingFacts DEF Gathered
  <1>3. CASE computing' = after
    <2>1. audited \in BOOLEAN /\ (audited <=> Pick \in db.audited) /\ owner = db.claims[Pick]
      OBVIOUS
    <2> HIDE DEF owner, audited
    <2>2. /\ computing'.picked = computing.picked /\ computing'.records = computing.records
          /\ computing'.customer = owner /\ computing'.costs = None /\ computing'.owner = None
          /\ (computing'.audited <=> audited)
      BY <1>1, <1>2, <1>3, <2>1, ComputingFacts
    <2>3. Pick' = Pick
      BY <2>2 DEF Pick
    <2> QED BY <1>1, <2>1, <2>2, <2>3 DEF AuditedInv
  <1> QED BY <1>1, <1>3 DEF AuditedInv

LEMMA ReadCostsAudited == ASSUME IInv, AuditedInv, ReadCosts PROVE AuditedInv'
  <1> DEFINE after == [computing EXCEPT !.costs = db.rows[Pick]]
  <1>1. Computing /\ computing # None /\ computing' = after /\ db' = db
    BY DEF ReadCosts, Computing
  <1>2. /\ computing'.picked = computing.picked /\ computing'.records = computing.records
        /\ computing'.customer = computing.customer /\ computing'.owner = computing.owner
        /\ computing'.audited = computing.audited /\ computing'.costs = db.rows[Pick]
    BY <1>1, ComputingFacts
  <1>3. Pick' = Pick
    BY <1>2 DEF Pick
  <1> QED BY <1>1, <1>2, <1>3 DEF AuditedInv

LEMMA ReadClaimAudited == ASSUME IInv, AuditedInv, ReadClaim PROVE AuditedInv'
  <1> DEFINE after == [computing EXCEPT !.owner = db.claims[Pick]]
  <1>1. Computing /\ computing # None /\ computing' \in {after, None} /\ db' = db
    BY DEF ReadClaim, Computing
  <1>2. CASE computing' = after
    <2>1. /\ computing'.picked = computing.picked /\ computing'.records = computing.records
          /\ computing'.customer = computing.customer /\ computing'.costs = computing.costs
          /\ computing'.audited = computing.audited /\ computing'.owner = db.claims[Pick]
      BY <1>1, <1>2, ComputingFacts
    <2>2. Pick' = Pick
      BY <2>1 DEF Pick
    <2> QED BY <1>1, <2>1, <2>2 DEF AuditedInv
  <1> QED BY <1>1, <1>2 DEF AuditedInv

LEMMA ReadDamageAudited == ASSUME IInv, ReadDamage PROVE AuditedInv'
  <1> DEFINE record == TruthRecord(Pick)
  <1> HIDE DEF record
  <1>1. /\ Computing
        /\ computing' = [computing EXCEPT !.records = Append(@, record), !.customer = None,
                                          !.costs = None, !.owner = None, !.audited = FALSE]
    BY DEF ReadDamage, record
  <1>2. ~computing'.audited
    BY <1>1, ComputingFacts
  <1> QED BY <1>2 DEF AuditedInv

LEMMA SelectAudited == ASSUME Select PROVE AuditedInv'
  <1> DEFINE picks == SelectDiverse(selecting)
  <1> HIDE DEF picks
  <1>1. computing' = [picked |-> picks, records |-> <<>>, customer |-> None,
                      costs |-> None, owner |-> None, audited |-> FALSE]
    BY DEF Select, picks
  <1>2. ~computing'.audited
    BY <1>1
  <1> QED BY <1>2 DEF AuditedInv

LEMMA AuditedNext == IInv /\ AuditedInv /\ [Next]_vars => AuditedInv'
  <1> SUFFICES ASSUME IInv, AuditedInv, [Next]_vars PROVE AuditedInv'
    OBVIOUS
  <1>1. Survives
    BY AuditedStay
  <1>2. ASSUME \/ SeedPolicies \/ DeleteClaims \/ InsertClaims \/ Commit \/ ReplaceMismatches
               \/ PriceMismatch \/ WriteMismatches
               \/ ListClaims \/ ReadListedPolicy \/ PriceListed
               \/ WriteSample \/ Export \/ KillWriter \/ KillReader \/ UNCHANGED vars
        PROVE  computing' \in {computing, None}
    BY <1>2 DEF SeedPolicies, DeleteClaims, InsertClaims, Commit, ReplaceMismatches,
                PriceMismatch, WriteMismatches, ListClaims, ReadListedPolicy, PriceListed,
                WriteSample, Export, KillWriter, KillReader, vars, scriptVars, truthVars
  <1>3. ASSUME NEW id \in LiveIds,
               WriteLiveClaim(id) \/ CreateLiveClaim(id) \/ PersistLiveDamage(id) \/ Record(id)
        PROVE  computing' \in {computing, None}
    BY <1>3 DEF WriteLiveClaim, CreateLiveClaim, PersistLiveDamage, Record, scriptVars, truthVars
  <1>4. CASE computing' \in {computing, None}
    BY <1>1, <1>4, OthersKeepAudited
  <1> QED BY <1>2, <1>3, <1>4, ReadPolicyAudited, ReadCostsAudited, ReadClaimAudited,
             ReadDamageAudited, SelectAudited DEF Next

(* An architecture that prices a record's claim as it was read pays the    *)
(* true amount, and leaves to a human what it does not decide alike, as    *)
(* long as the truth's own confidence passes the gate.  What is read of a  *)
(* claim under adjudication belongs together, however many reseedings and  *)
(* uploads come between the reads (compute_golden_truth.py:14, 76-85).     *)
THEOREM TruthHolds == ASSUME Confident(TruthConfidence) PROVE Spec => []TruthStands
  <1>1. Spec => []AuditedInv
    BY AuditedInit, AuditedNext, DatasetInvariant, PTL DEF Spec
  <1>2. ASSUME IInv, AuditedInv PROVE TruthStands
    <2>1. ASSUME Whole(golden), NEW i \in DOMAIN golden,
                 ~golden[i].labelled, ~golden[i].torn, HasPolicy(golden[i].id),
                 db.claims[golden[i].id] = golden[i].customer,
                 db.rows[golden[i].id] = golden[i].rows,
                 NEW confidence \in Confidences
          PROVE  /\ Outcome(golden[i].id, confidence).payout = golden[i].payout
                 /\ Outcome(golden[i].id, confidence).route \in {golden[i].route, "escalate"}
      <3>1. Faithful(golden[i])
        BY <1>2, <2>1 DEF IInv, FileInv, GoodFile, GoodRecord, Whole
      <3>2. TypeOK /\ Sound(db)
        BY <1>2 DEF IInv
      <3> QED BY <2>1, <3>1, <3>2, RecordStands
    <2>2. ASSUME computing # None, computing.audited
          PROVE  /\ Pick \in DOMAIN db.claims
                 /\ {computing.customer, computing.owner} \subseteq {db.claims[Pick], None}
                 /\ computing.costs \in {db.rows[Pick], None}
      BY <1>2, <2>2 DEF AuditedInv, IInv, Sound
    <2> QED BY <2>1, <2>2 DEF TruthStands
  <1> QED BY <1>1, <1>2, DatasetInvariant, PTL

=============================================================================
