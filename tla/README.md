# Avahi in TLA+

Avahi adjudicates car-insurance claims from a photo, a customer's story and a
policy, and compares three architectures for doing so: a monolith (one model
call), a split pipeline (three vision stages and a deterministic rules engine)
and a PEV agent (planner, executor, verifier over an allowlist of checks, the
same rules engine behind them). A FastAPI service takes live uploads through
any of the three and keeps an audit log with a human review queue.

This directory holds the specifications of that program, the TLC configurations
that check them on small instances, and the TLAPS proofs of what holds for every
value of the constants. Line numbers are those of the commit beside which this
directory lives.

    tlc -config PEVLoop.cfg MCPEVLoop      # a run
    tlapm PEVLoopProofs.tla                # the proofs of a module

## 1. Inventory

### Rules engine and lookups
`common/rules_engine.py`, `common/cost_lookup.py`, `common/policy_lookup.py`
* State: none of its own; it reads the policy row and the damage rows of a claim
  from SQLite.
* Operations: `compute_payout` (two pools, collision and comprehensive, each with
  its own limit), `compute_payout_live` (one pool, for uploads whose coverage
  type nobody knows), the cost lookups, `get_policy_context`.
* Hard: boundaries (limit, deductible, auto-approve bar, zero), the order of its
  early returns, two branches that must agree where the comments say they do, a
  confidence that gates routes but must not touch money.
* Correct when: it pays within the contract, uncovered damage moves no money,
  payouts grow with damage, the money is independent of any model.

### PEV agent (Architecture 3)
`arch3_agent/agent.py`, `pev_nodes.py`, `pev_state.py`, `checks.py`,
`schemas.py`, `intake.py`, `live_claim.py`, `tools.py`
* State: the evidence package (one item per check), the workspace through which
  the checks talk, the counters of calls and replans, the trajectory, the reasons.
* Operations: the graph nodes `planner`, `executor`, `verifier`, `adjudicate`,
  `escalate`; six checks; `normalize_input`; `persist_live_damage`.
* Interaction: the planner's model names a check, the executor calls it (a model
  or the database), the verifier decides from the evidence, `adjudicate` calls
  the rules engine.
* Hard: a cycle whose way round a model chooses; three interacting budgets
  (8 tool calls, 2 replans, 60 graph steps); every check may raise; a value
  gathered early is used late; no node but the verifier looks at the flags.
* Correct when: money only on clean evidence; what is billed is what was
  vetted; every hand-over is explained; no budget cuts an investigation short;
  every run ends.

### Split pipeline (Architecture 2)
`arch2_split/pipeline.py` with `gatekeeper.py`, `segmenter.py`, `damage_assessor.py`
* State: the results of the stages, the claim rows an upload writes.
* Operations: `run_claim` (evaluation claim), `run_upload` (a photo that becomes
  a claim), each the stages in order with early returns.
* Hard: the order of the early returns; rows are committed before pricing.
* Correct when: approval needs sure sight of damage; an upload is paid for all
  it shows.

### Monolith (Architecture 1)
`arch1_monolith/`: one model call that answers with coverage and payout, a retry
loop, a reading of payouts that are no numbers. It keeps no state and writes
nothing.

### Live service
`app/main.py`, with `arch*/live_claim.py` and `_write_live_claim` behind it
* State: the SQLite file (claims, damage rows, adjudications), the event loop,
  the threads of the streaming responses.
* Operations: `list_customers`, `upload`, `upload_stream`, startup.
* Hard: `upload` is an `async def` that blocks the event loop for its whole run,
  a stream runs in a thread pool between two yields; claim, rows and
  adjudication are separate commits; a failure, a hang-up or a crash between them.
* Correct when: log, claims, rows and answers agree, and every request ends.

### Adjudication store
`app/store.py`
* State: the table `adjudications`.
* Operations: `record`, `queue`, `resolve`, `ensure_schema`.
* Interaction: the service calls `record` (`main.py:138`) and `ensure_schema`.
  Nothing in the repository calls `queue` or `resolve` yet: the reviewers of the
  model are what the docstrings expect of a caller, and external.
* Hard: reviewers act on screens read earlier; a limit on what the queue shows.
* Correct when: verdicts stand, a human decides once and only on an escalation.

### Model clients
`arch1_monolith/vlm_call.py` (`_call`), `arch2_split/vlm_client.py`
(`call_vision_json`), `arch3_agent/llm.py` (`call_text_json`), `eval/judge.py`
(`_call`)
* State: the attempt, the sleep, the errors caught; outside of the program, the
  minute in which the provider counts tokens.
* Operations: one loop in four versions: how often it tries, whether it drops
  JSON mode, whether it retries a completion that is not JSON.
* Interaction: an upload and the stream threads call at the same time and share
  one account.
* Hard: a wait that must outlast a limit others fill up; attempts that several
  kinds of error use up; a request that can never succeed if it is repeated as
  it was.
* Correct when: a call gives up for its own bad completions only, asks a bounded
  number of times, and ends.

### Evaluation runners
`eval/run_interleaved.py`, `eval/run_arch1.py`, `run_arch2.py`, `run_arch3.py`
* State: the rows so far in memory, one result file per architecture.
* Operations: one claim through the three architectures, partial files after
  each claim and on an error, reports at the end; a rerun starts from scratch
  over the same files.
* Hard: an error or a kill between two passes over a claim, between two of the
  three files, or inside one, which `write_text` has emptied by then.
* Correct when: an aborted run has its rows in its files, one that dies has lost
  the last claim's rows and those of a file it tore and no others, and files that
  are compared without a warning belong together.

### Scoring
`run_arch1.py` and `run_interleaved.py` make rows, `compare.py` counts them
* State: none.
* Hard: four rules that count the same rows as false approvals, false denials,
  wrong routes and missed payouts; a ceiling that must not call a right payout
  impossible.
* Correct when: what is counted against an architecture is an error of it.

### Database seeding and golden set
`db/`: `seed_policies`, `seed_claims`, `seed_mismatch_claims`,
`compute_golden_truth`, `export_golden_set`; `curate_images` and `seed_cost_table`
* State: the tables policies, claims, damage_instances; three files of records.
* Operations: upserts, delete and refill, inserts with foreign keys off, the
  selection of a sample, its truth, the golden set.
* Interaction: the same database file as the live service.
* Hard: scripts killed at any point, deletes under foreign keys that only some of
  the connections switch on, records put together from several reads of a database
  that moves on in between.
* Correct when: references hold, adjudicated claims survive, a reseed is all or
  nothing, the sample spans the outcomes, and the recorded truth stays the truth of
  every claim that was left alone while it was read.

### Retake graph, web page, tracing
`arch3_agent/nodes.py` and `state.py` are an earlier linear graph that nothing
builds; the web page renders answers; the tracing decorators change nothing.

## 2. Modules

    RulesEngine                 both branches as operators
      ClaimPricing              one claim priced again and again
        Scoring                 what the evaluation makes of the prices
          ClaimPricingProofs
      RulesEngineProofs         lemmas about the operators, and of naturals
      PEVLoop                   one run of the agent   ----implements--> ClaimDecision
        PEVLoopProofs
      SplitPipeline             one run of Arch 2
        SplitPipelineProofs
      LiveService               uploads, streams, crashes over one database
        Store == INSTANCE AdjudicationStore ----------implements--> AuditLog
        LiveServiceProofs       StoreProofs == INSTANCE AdjudicationStoreProofs
      Dataset                   the scripts of db/ beside live uploads
        DatasetProofs
    AdjudicationStore
        AdjudicationStoreProofs
    ModelClient                 callers of the provider ----implements--> ModelCall
    EvalRun                     runs of the evaluation over its files
        EvaluationProofs        both of them: what a run asks, what it saves
    MC*                         instances for TLC

| module | code | state | actions |
|---|---|---|---|
| RulesEngine | `compute_payout`, `compute_payout_live`, cost and policy lookups | none | operators only |
| ClaimPricing | the passes of the evaluation over one claim | policy, costs, last result of each branch | `PriceClaim`, `PriceUpload` |
| Scoring | rows, hallucination ceiling, common metrics, the reading of a payout | that of ClaimPricing | operators only |
| PEVLoop | `agent.py`, `pev_nodes.py`, `checks.py`, `persist_live_damage` | the graph state, the workspace, the claim's rows, LangGraph's step count | one per way through a node |
| ClaimDecision | what the agent promises | cleared facts, effort, decision | `Work`, `Settle`, `HandOver`, `Fail` |
| SplitPipeline | `run_claim`, `run_upload` | results of the stages, rows | one per stage, `StageRaises` |
| AdjudicationStore | `store.py` | the table, screens, acknowledgements | `Record`, `OpenQueue`, `Resolve` |
| AuditLog | what the store promises | verdicts, decisions | `Enter`, `Decide` |
| LiveService | `main.py` and what it calls | requests, event loop, threads, database, log | a run up to its next commit, yield or end; `Fail`, `Disconnect`, `Crash`, `Review` (external) |
| ModelClient | the four retry loops | phase, attempt, sleep, errors; the provider's window | `Begin`, `Ask` (a completion, one without JSON, an overrun, a refusal, a fault), `Wake`, `Tick` |
| ModelCall | what callers rely on | outcome, requests made | `Begin`, `Request`, `Exhaust` |
| Dataset | `db/`, and the writes of the live service | tables, a script's transaction, what a reading script holds, files | a script up to its next read, commit or file, a request up to its next commit; `KillWriter`, `KillReader` |
| EvalRun | `run_interleaved.py`, the standalone runners, what `compare.py` accepts | rows per list, files, the step of the run | one per pass, `Raise`, `WriteFile`, `WriteRaises`, `Kill`, `Start`, `Standalone` |

How the code is read:

* **RulesEngine.** Amounts are natural numbers in one unit; `None` is `NoAmount`.
  A claim's damage rows are abstracted to what they total per pool, because the
  code only ever sums them. The early returns are kept in order, as guards.
* **PEVLoop.** An action is one visit of a node and counts against the recursion
  limit. A check returns any item its code can build, or raises, in which case
  the executor's `except` clause makes the flag; an `EvidenceItem` keeps its
  status, the reason the predicates look at, the peril, the cost and the
  confidence. The planner's choice is free among the candidates: when the
  model's answer is not a candidate the code takes one of them itself, so no
  answer is left out. Two fields are there for the properties only: `executed`
  counts trajectory entries per check, and the story item carries the damage it
  was shown.
* **SplitPipeline.** A stage is an action; the panels of the segmenter are read
  by nobody and are left out.
* **AdjudicationStore.** A row is its verdict, its review status and the
  decision. `views` is what a reviewer has on the screen, `acked` what `resolve`
  answered `True` to: both are outside the program, and the properties are about
  them.
* **LiveService.** The upload handler never awaits, so it
  holds the loop (`serving`) until it returns. A stream needs the loop to be
  resumed (`NextChunk`) and then runs in its thread (`running`) until the next
  yield, uploads or not. A verdict is what `PayoutOfRows` makes of the stored
  rows; what the agent finds out in between is left open here and is PEVLoop's
  subject. A crash loses the requests underway and keeps what was committed.

* **ModelClient.** The loops are one module: `Salvaging` is the set of callers
  that run the monolith's, which asks for JSON mode in its first attempt only and
  has an except clause for a completion without an object. The provider is
  external: it may refuse a request only while a request it served is less than
  a window old, which is the reading the comment on the backoff has of it
  (`vlm_client.py:58-59`). `overtaken` is there for the property only. The loop
  sleeps after its last refusal too, and so does the model.
* **Dataset.** A script's transaction is `draft`, which nobody else sees; SQLite
  has one writer, so everybody else waits or gives up. A claim is a customer and
  one pool of damage, because every seeded claim is one incident with one peril.
  Foreign keys are on in `seed_claims` and in the service, off elsewhere, and the
  guards say so action by action. Ids are numbers up to `LastId`, because the
  selection goes by id (`ORDER BY`).

  The scripts that read are not in a transaction: each `SELECT` sees what is
  committed by then, so each is an action. `selecting` and `computing` are the
  local variables of `select_diverse` and `compute`: the list with its coverage
  types in one read (`ListClaims`), then per claim the policy and the costs
  (`ReadListedPolicy`, `PriceListed`), then per pick the policy, the costs, the
  claim and its damage (`ReadPolicy`, `ReadCosts`, `ReadClaim`, `ReadDamage`),
  until the file is written. Reseeds, mismatch claims and uploads go on in
  between; a claim that is gone ends the script, as the `ValueError` or `TypeError`
  does in the code. `golden_records` prices its claims one by one in the same way
  (`PriceMismatch`). Taken as one step are the two reads of `get_policy_for_claim`,
  because policies are only added and never change, and those of the cost lookup,
  whose table never changes. Under a lapsed policy the code does not read the
  costs; the model reads them and makes nothing of them. A file is whole or `Torn`,
  which `json.loads` does not accept. Two fields are there for the property only:
  a record's `torn`, and `audited`, whether its claim was adjudicated when the
  reading of it began.
* **EvalRun.** A row is the claim it is about. A list grows when the code appends
  to it: the row of Arch 1 only after its second pass and the judge. An interrupt
  is no `Exception`, so `Kill` saves nothing. `write_text` truncates before it
  writes, so a kill or an `OSError` (`WriteRaises`) in the middle of a file leaves it
  `Torn`, without any rows that could be read; an `OSError` in a save of the loop
  goes through the `except` clause, which saves all three again. A standalone runner writes nothing
  before its end, so it is one action; it runs between interleaved runs (they share
  an account and a log). The field `run` of a file, which run wrote it, is for the properties.
* **Scoring.** A rate is the set of rows in its numerator. The answers of an
  architecture with the rules engine are those ClaimPricing has on file, a
  hand-over or a retake; the monolith's are free.

### Abstract specifications
`ClaimDecision` says of the agent: facts are cleared by a bounded number of
pieces of work and stay cleared, the rules engine decides only when all are
clear, a human gets the claim only when some are not, and one of the two happens
unless the run fails. `PEVLoop!DecisionFairSpec` is the refinement, fairness
included. `AuditLog` says of the store: a verdict is entered once and stands, an
escalated one gets one decision at most, no other gets any.
`AdjudicationStore!AuditSpec` and, through the composition, `LiveService!AuditSpec`
are refinements of it. `ModelCall` says of a model client: it asks at most
`Budget` times, then answers or fails (`Spec`), and it does end (`FairSpec`);
`ModelClient!CallSpec` is the refinement, fairness included. TLC checks these four
as they stand; proved are the two about `AuditLog`, which states no fairness, and
the safety part of the two others, step by step (section 5).

## 3. Runs

| run | expected | what it shows |
|---|---|---|
| `ClaimPricing.cfg` | pass | both branches pay within the contract; uncovered damage is inert, and denied where there is no other; a heavier claim keeps its payout or gets more; the branches differ only as their comment accepts; the money does not depend on the confidence; the evaluation counts against an architecture with the rules engine only its caution, and calls no right payout a hallucination |
| `PEVLoop.cfg` | pass | with the limits of the code: money only on clean evidence, billed facts are vetted facts, no claim without policy is priced, the budgets are headroom, hand-overs are explained, soft flags only are retried, ClaimDecision is implemented |
| `PEVTightLimits.cfg` | pass | with one replan and 22 steps, limits that bite: a flagged coverage can reach the engine, but what the bill is made from is clean |
| `SplitPipeline.cfg` | pass | approval needs sure sight of damage, uploads are paid for all they show |
| `AdjudicationStore.cfg` | pass | two reviewers with stale screens: acknowledged decisions stand, AuditLog is implemented |
| `LiveService.cfg` | pass | two requests of any kind, failures at every commit, hang-ups, a crash: the log can be recomputed, answers match it, every request ends |
| `ModelClient.cfg` | pass | the monolith and the judge on one account: a call nobody overtook gives up only on bad completions, a completion without JSON ends the judge's call at once, ModelCall is implemented |
| `Dataset.cfg` | pass | two seeds, mismatch claims, the golden set read by read and a live upload, killed anywhere: references hold, adjudicated claims survive, reseeding is atomic, the sample spans the outcomes as they were priced, the truth stands unless its claim changed while it was read |
| `EvalRun.cfg` | pass | three interleaved runs and any standalone ones over the same files, errors, failing saves and kills at every step and inside a file: files accepted without a warning cover the first claims, those of the interleaved runner are of one run, and only a torn file has lost more than one claim's rows |
| `NoDamageGuard.cfg` | violation | finding 1 |
| `UnloggedStream.cfg` | violation | finding 2 |
| `UnqueuedEscalation.cfg` | violation | finding 3 |

### Bounds, and why they are enough
* **Money** is counted in units of 500 dollars, so the auto-approve bar of 2000
  is 4. The costs 0, 1, 2, 3, 6, 7 and limits 2, 3, 6 with deductibles 0, 1, 3
  put every comparison of the engine on both sides and on equality; the theorems
  lift the bounds.
* **Confidences**: one below and one at or above the threshold of 75; nothing
  else of a confidence is looked at, except which is smallest.
* **PEVLoop**: the code's own limits (8, 2, 60). Six checks and at most two
  retries make the state space finite by itself. Damage is small or above the
  bar, policies are fully covered, half covered, lapsed or missing.
  `PEVTightLimits` takes one replan and a step limit of 22, values the code does
  not have, to reach the planner's *sufficient* branch with a flag on file and
  the recursion error. What holds there is `BilledFactsAreClean`.
* **SplitPipeline**: two instances (`MaxInstances`), enough for a weakest one and
  for a sum.
* **AdjudicationStore**: three rows (`MaxRows`), a queue limit of two, so that a
  pending row is hidden; two reviewers, so that a screen goes stale; a claim that
  is recorded twice; a result without a claim.
* **LiveService**: two requests, each of any endpoint (an upload blocking the
  loop beside a stream, two streams, two uploads), one crash (`MaxCrashes`), one
  reviewer.

* **ModelClient**: a unit of time is 20 seconds, so the window is 3 and the
  backoffs are 1, 2, 3, 4; the two seconds after a bad completion are less than a
  unit and count as none, which is the worst case for the property. The monolith
  has 4 attempts and the judge 3, as in the code; two callers, so that each can be
  overtaken. The theorems lift the numbers.
* **Dataset**: two seeds, one with two claims of a kind and a third of another,
  one with other kinds; ids up to 5 (`LastId`); a customer with full cover and one
  without collision cover; one mismatch claim, one upload, a sample of two, so
  that the scan breaks before the end of the list, reaches it, tops the sample up and
  finds too few claims. `compute_golden_truth` is started once (`MaxTruths`): a second
  start takes nothing from the first and overwrites its file. Every read of it may
  fall before, inside or after a reseed by either seed. The theorems lift all of it.
* **EvalRun**: a golden set of 3 with limits 2 and 3, so that a rerun may be
  shorter than the files it overwrites; three runs (`MaxRuns`), so that files of
  three could meet. Any write may fail or be cut off. The theorems lift all of it.

The cfgs of PEVLoop and SplitPipeline switch deadlock checking off because a run
ends; that the agent's ends properly is the refinement `DecisionFairSpec`. The others
keep it on: a reviewer can always open the queue, a script or a runner can always be
started again.

### Fairness, and why the code justifies it
* `PEVLoop!FairSpec`, `WF_vars(Next)`: a run is one synchronous `graph.invoke`;
  once entered nothing else has to be scheduled for the next node to be visited,
  and a model call returns or gives up after its retries. Nothing is assumed of
  what the planner or a check answers.
* `LiveService!FairSpec`, weak fairness of each request's next step: calls return
  or give up, the event loop serves its tasks in turn, a thread is scheduled.
  Crashes, hang-ups and reviewers get no fairness. A stream's `NextChunk` is
  disabled while an upload holds the loop, but with a finite number of uploads,
  each of which ends, it is eventually enabled for good.

* `ModelClient!FairClientSpec`: weak fairness of a caller's request and of the end of its
  sleep, and of the passing of time. A request to the provider returns or times
  out in the client library; nothing is assumed of what it returns, and the
  provider may refuse as long as its window is not empty. Nobody has to call.

AdjudicationStore, Dataset and EvalRun state no fairness: their properties are
about what may never happen, and a reviewer or an operator need not come back.

## 4. Findings

1. **The no-damage guard decides denials.** `pipeline.py:73` returns before the
   rules engine, so a lapsed or uncovered claim is escalated, where the comment
   above it says the guard only concerns approvals.
2. **A streamed adjudication is not logged.** `upload_stream` has no
   `store.record`; `store.py:6` says every live adjudication is recorded.
3. **An escalation that reaches nobody.** An Arch 2 upload without visible
   damage is escalated without a claim id, which `record` drops.

Observations that are not counted as findings, because no document promises
otherwise or the state is not reached by the program as it is:

* *One replan would be unsafe.* With `MAX_REPLANS = 1` a peril and a coverage that
  are both soft-flagged, followed by a successful retry of the peril, lead the
  planner to its *sufficient* branch with the coverage still flagged, and the claim
  is priced. The value 2 of the code is what closes that path; this is why
  `MoneyNeedsCleanEvidence` and `BillMatchesVetting` assume `MaxReplans # 1`.
  `BilledFactsAreClean` says what is left under any limits: no flag but the
  coverage's gets through, and the engine reads the policy itself.
* *A retry may be spent on the wrong flag.* With peril and coverage both flagged the
  planner's model may retry the coverage, which cannot change while the peril does
  not; the verifier then ends the run as `unproductive_repeat`. A human gets the
  claim all the same.
* *The queue shows the newest hundred pending rows* (`store.py:79`): under a steady
  inflow the oldest is never shown. No code consumes the queue on a schedule, so
  there is no fairness to state a liveness property under; `Shown` models the limit.
* *The hallucination ceiling adds no pools.* `run_arch1.py:62-63` takes the largest
  active limit less the deductible; `compute_payout` adds two pools. A claim with
  damage in both would have its right payout called a hallucination. No seeded claim
  has, hence the last disjunct of `RightAmountIsNoHallucination`.
* *A limit of zero is denied, not flagged*: `rules_engine.py:70` tests the covered
  cost before the malformed-policy guard. No policy that is seeded has one.
* *JSON mode is dropped after a rate limit too*: `vlm_call.py:168` looks at the
  attempt, its comment at `json_validate_failed`. `GivesUpOnlyOnBadCompletions`
  holds either way.
* *A call sleeps after its last refusal*, up to 80 seconds that help nobody and, in
  an upload, hold the event loop.
* *Like for like, up to one claim.* The files of an aborted run differ by the claim
  it stopped in; `RowsAreSaved` states the bound. A rerun starts from scratch and
  overwrites partial files that were fuller.
* *A save can lose what it saves.* `write_text` (`run_interleaved.py:153`, `231`)
  empties the file first, so a kill inside it loses every row of that architecture,
  those of the earlier saves included. `RowsAreSaved` says how far it goes: such a
  file is one the run died in, the other files keep all rows but the last claim's,
  and never are all three torn. `compare.py` raises on a torn file and does not take
  it for a result.
* *The standalone runners write the same files without a partial flag*, so
  `compare.py` accepts files of different runs, and of different numbers of claims,
  when they are mixed. `UnwarnedFilesBelongTogether` says what is left: each covers
  the first claims without a gap, and those of the interleaved runner belong to one
  run.
* *Reseeding and the audit log.* With an adjudication on file `seed_claims` fails;
  without one it drops live claims and their rows silently. `seed_mismatch_claims`
  commits a claim whose policy is missing before it notices; the claim stays, but no
  file gets it (`ReferencesHold`).
* *A record of two states.* `compute` prices a claim (`compute_golden_truth.py:76`),
  then reads its customer (77) and its damage (85). A reseed that commits in between
  leaves the old payout beside the new damage, in a file that says it is the truth.
  `TruthStands` excepts these records (`torn`) and no others; a claim with an
  adjudication on file cannot change, so its record is never one of them.
* *The sample is picked from prices that may be old.* Between `select_diverse` and
  `compute` claims may be priced differently or be gone; what the sample spans are the
  outcomes as they were when it was picked.
* *Mismatch claims twice.* `select_diverse` lists the mismatch claims too, so the
  golden set may hold one with its computed and with its labelled truth.
  `SampleSpansOutcomes` says that no claim is twice in the sample.

## 5. Proofs

All constants are arbitrary, under the `ASSUME`s of the modules (amounts are
natural numbers, model values are not amounts) and the further hypotheses named
here. Every invariant and every action property of the passing runs is a theorem.

* `RulesEngineProofs`: lemmas about the operators: what the lookups and both
  branches return, that covered cost is monotone, bounded by the limits, blind
  to pools that are not active; that a surer pass over a claim moves no money and
  takes a claim from a human if it moves anything (`SurerPass`). The other proofs
  about money rest on them. It also has the least element of a set of naturals
  (`LeastOfNats`), from the well-foundedness of `<`.
* `ClaimPricingProofs`: `TypeCorrect`, `ContractBoundsPayout`,
  `UncoveredDamageMovesNothing`, `PayoutGrowsWithDamage`, `LiveDivergence`,
  `PassesAgreeOnMoney`. The inductive invariant says that a result on file is
  what the engine computes from the policy and the costs with *some* confidence;
  the type and the properties follow from it and the lemmas. Of Scoring:
  `CautionOnly` and `RightAmount`, from the same invariant. By `SurerPass` an
  engine's answer differs from the truth by caution only, assuming `Attainable`,
  a threshold of at most 100: above that the truth itself could approve nothing.
  With damage in one pool, the limit of that pool bounds what is covered, and so
  does the ceiling (`OnePoolUnderCeiling`).
* `PEVLoopProofs`: `TypeCorrect`, `AdjudicationHasPolicy`, `NoLimitBuysMoney` and
  `SoftFlagsOnlyAreRetried` for all limits; `MoneyNeedsCleanEvidence` and
  `BillMatchesVetting` for `MaxReplans # 1`. That money is computed on
  clean evidence is not inductive: `adjudicate` is reached from the planner, which
  never looks at a flag. The strengthening `IInv` says, per node, what the
  verifier has let through: outside the verifier every flag is soft and a replan
  is left for it; the budget spent is bounded by the soft checks that came out
  clean; a perceived item equals what the workspace holds; a clean coverage was
  read for the peril in the workspace, so peril and coverage cannot disagree. The
  step of the planner to `adjudicate` then has no flagged check to hand over: with
  a flag on file it would have a candidate for a retry. With a single replan it may
  have none, when the only flag left is the coverage's, read before the peril was
  known: `NoLimitBuysMoney`.

  `SoftFlagsOnlyAreRetried`, the action property, adds that nothing is retried
  twice (`OnceInv`): a retry that does not clean its check is marked unproductive
  and the verifier lets no marked one through.

  `LimitsNeverBite`, `HandOversExplained` and `AgentImplementsDecision` assume
  `Headroom`: two replans, eight tool calls, 25 steps or more. The code has 2, 8
  and 60 (`pev_state.py`, `agent.py`), so it has none of the first two to spare.
  `HInv` counts: a tool call is the first of a check or a replan (`CountInv`); at
  each node the visits are three per tool call, give or take one (`BudgetInv`);
  a soft flag fresh from the executor leaves a replan, because a coverage is not
  flagged again once the peril is known; whoever is handed over has a reason, and
  no reason is a limit (`ReasonInv`). `AgentImplementsDecision` shows, one action
  at a time, that a step of the agent is a step of ClaimDecision or none; fairness
  stays with TLC.
* `AdjudicationStoreProofs`: `StoreInvariant`, `TypeCorrect`,
  `DecisionsStandForEveryone`, and `StoreIsAuditLog`, the refinement, for any
  number of rows, reviewers and decisions. The invariant ties `acked` to the rows:
  a row has a decision exactly when it is resolved, when it was escalated, and
  when exactly one acknowledgement names it. Its lemmas are about the operations,
  not about the module's own `Next`, so that the service can use them.
* `LiveServiceProofs`: `ServiceInvariant`, `TypeCorrect`, `AuditTrailIsSound`,
  `AnswersAgreeWithLog`, `ServiceKeepsAuditLog`, for any number of requests, crashes
  and reviewers. `Sound` is what every entry has to be: the verdict the engine makes
  of the rows the database holds. It is true of a verdict when it is decided and has
  to stay true, so the invariant says of every request what its commits have left
  behind at each stage (`Commits`): rows are written before the verdict, once, and
  nobody else writes rows of that claim. `LogInv` says that the log holds the sound
  verdicts of requests that came as far as `store.record`, one per claim, and misses
  none. The store's part is the instance `StoreProofs` of the store's own theorems.
* `SplitPipelineProofs`: `TypeCorrect`, `SureSight`, `PaidAsSeen`, for any number
  of instances. `SightInv` says what each stage relies on of those before it: a
  valid photo up to the engine, and for the engine visible damage and the weakest
  link as the confidence, which is no instance's more than its own (`LeastOfNats`).
  `PayInv` adds that the rows written are those of what was seen, and that a run
  that ends early has none. What the instances cost is a recursive function; that
  it is a natural number is shown by a least counterexample (`SumsExist`).
* `EvaluationProofs`, of ModelClient: `ClientInvariant`, `ClientTypeCorrect`,
  `GivesUpOnBadCompletions`, for any set of callers, at least three attempts (four
  for the monolith) and any backoff that three times over outlasts the window. The
  property says nothing of time, so the invariant has to: as long as a call has met
  refusals only, and nobody overtook it, the window has moved on by the sum of its
  sleeps when it wakes (`Clear`), so its third request finds the window empty and
  cannot be refused; an overrun fills the window anew and costs the monolith one
  attempt more. `ClientImplementsCall` is the refinement of ModelCall's safety part.
* `EvaluationProofs`, of EvalRun: `RunInvariant`, `TypeCorrect`, `UnwarnedFiles`,
  `RowsSurvive`, for any golden set and any number of runs. The invariant says
  how long each list is at each stage (`Shape`, `AgainShape`) and what is on disk
  while the three files are written (`DiskShape`): the files not yet reached hold
  what the last save left or are torn by a save that failed, the others what the run
  has now. A report replaces only
  partial files of its own run, which is why an accepted pair cannot be of two.
* `DatasetProofs`: `DatasetInvariant`, `TypeCorrect`, `ReferencesStand`,
  `SampleSpans`, `TruthHolds`, `AuditedClaimsStay`, `ReseedingAtomic`, for any
  customers, claim lists, uploads and sizes of the sample. References are kept by
  operations with foreign keys off as well, so the invariant has to say why they
  can be: `Sound` adds that live claims only are adjudicated; `DraftInv` gives each
  script's draft as a function of the database, which nobody else writes meanwhile;
  a seeding only gets past its delete when nothing is adjudicated. `LabelledInv` says
  that `golden_records` has found a policy for every claim it got past, whatever was
  reseeded since. `FileInv` says of each record that is not torn what its own rows and
  policy come to, whatever the database has become. `TruthHolds` assumes that the
  confidence of the truth, 1.0, passes the gate; its second invariant, `AuditedInv`,
  is about the reads of an adjudicated claim, which agree because nothing rewrites it
  (`AuditedStay`). What the selection picks rests on `Picking`, which is about the
  script's own variables and so is indifferent to the database: after each price it
  has picked first claims of their kind only, each once, and while the sample has room
  one of every kind so far; `SelectFacts` follows. Of `compute` the invariant says
  that the records are those of the picks so far, in order.

Where the model recurses (`PerceivedCost`) it uses a recursive function over a
bounded range of naturals. The library's induction theorems take an operator as a
parameter, which the provers cannot instantiate; the proof takes the least number at
which a fact fails instead, and shows that there is none.

Out of the prover's reach and left to TLC: liveness under fairness and ENABLED.
That is `RequestsEnd` and the fair parts of `DecisionFairSpec` and `CallSpec`. The
three findings are TLC's as well: a counterexample needs no proof.

## 6. Not modelled, and why
* The content of model answers, prompts, images, JSON and embeddings: the models
  are free choices over what the code can make of an answer.
* Latencies, token counts, the judge's verdicts and the reproducibility rates of
  `compare.py`: averages over values that are free in the model.
* `curate_images.py` and `seed_cost_table.py`: they compute fixed tables from fixed
  inputs, once.
* The triage helpers of `tools.py` and the retake graph: nothing calls them.
* The web page and tracing: no state the program depends on.
* Two service processes over one SQLite file: the service is one process, and a
  locked database is one of the causes of `Fail` and `AdjudicateRaises`. Scripts
  beside the service are the subject of Dataset.

## 7. Plan

Done in this order: rules engine and its proofs (every architecture's money goes
through it); the PEV agent, its abstract specification and its safety proofs; the
store, AuditLog and their proofs; the live service composed with the store; the
split pipeline; the model clients, ModelCall and their safety proof; the scripts of
`db/`; the evaluation run and its proofs; scoring and its proofs; the split
pipeline's; then the agent's budgets, hand-overs and refinement, the service's log,
the clients' refinement and the scripts.

Next, in the order of what they add:

1. PEVLoop below `Headroom`: four of its properties are proved for all limits; what
   is left is a bound on what one replan, or one call less, cuts short.
2. The agent in the service: a stream's verdict is left open in LiveService; a lemma
   that joins a run of PEVLoop to the stages of a stream.
3. Shorter proofs: the steps that leave a part of the state alone are repeated per
   module.
