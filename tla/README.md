# A TLA+ model of Argus

Argus is a multi-tenant threat-hunting platform: it pulls or receives security
alerts, stores and normalizes them, groups technique-bearing events into
*evidence objects* per host, lets analysts triage, investigate and collect them
into cases, and hunts a tenant's own indicators through threat intelligence. It
is one asyncio process (FastAPI) over PostgreSQL, plus a standalone collector
script. This directory models that state and its concurrency in TLA+, checks it
with TLC and proves the central results with TLAPS.

Paths below are relative to `src/argus/` of the repository unless they start
with `collectors/`, `scripts/` or `docs/`.

- [Inventory](#inventory): the parts of the system, their state, operations and hazards
- [How the code is modelled](#how-the-code-is-modelled)
- [Modules](#modules): which module models what, and how
- [Runs](#runs): what TLC checks, with which bounds
- [Fairness](#fairness)
- [Proofs](#proofs)
- [Where code and words part](#where-code-and-words-part)
- [Not modelled](#not-modelled)
- [Plan](#plan)

Usage: `tlc -config Polling.cfg MCConnectorPolling.tla`, and
`tlapm ConnectorPollingProofs.tla`. `PROJECT.json` lists every run with its
module, the source lines of every definition, a mutant for every property, the
hazards and the theorems.

## Inventory

### Components

| part | code | state | operations |
|---|---|---|---|
| Vendor paging | `connectors/collectors.py` | the resume cursor's meaning | build a query, parse a page, next cursor |
| Connector polling | `services/connector_runtime.py` `poll_connector` | `connectors.cursor/status`, `raw_events` | snapshot, fetch, ingest+advance, mark error |
| Connector rows | `api/v1/endpoints/connectors.py` | `connectors` | create, patch, test, delete, poll now |
| Sweep loop | `services/connector_runtime.py` `_loop`, `sweep_once` | `_task`, `_stop` | start, stop, sweep |
| Ingestion | `services/ingestion.py`, `aggregation.py`, `graph_builder.py` | `raw_events`, `normalized_events`, `event_aggregates`, `entities`, `entity_edges` | one batch, savepoint per payload and per piece |
| Debounced correlation | `services/auto_correlation.py` | `_pending` | schedule, cancel, run, unwind |
| Correlation | `services/correlation.py` | `evidence_objects` | cluster, score, delete and rebuild |
| Triage | `api/v1/endpoints/evidence.py` | `evidence_objects.status` | patch status |
| Investigations | `services/investigation.py` | `investigations` | scope, collect, conclude, ground, finalize, fail |
| Cases | `api/v1/endpoints/cases.py` | `cases`, `case_evidence`, `case_notes` | create, update, attach, note |
| Intelligence caches | `services/cti.py`, `services/enrichment.py` | `cti_cache`, `enrichment_cache` | look up, fetch, upsert |
| CTI hunt | `services/cti_hunt.py` | `hunt_findings` | collect, check, rank, persist |
| Hunter loop | `services/auto_hunt.py` | `_task`, `_stop` | start, stop, sweep |
| Lifespan | `main.py` | - | start both loops, stop them, dispose of the engine |
| Standalone collector | `collectors/wazuh_indexer_collector.py` | checkpoint file | fetch, ship, save |
| Technique mapping | `services/mitre.py`, `technique_rules.py`, `ai_classifier.py`, `scripts/reclassify.py` | `event_techniques` | link, classify, reclassify |
| Accounts and MFA | `api/v1/endpoints/auth.py`, `tenants.py` | `users`, `tenants.is_active` | login, password, enrol, activate, disable; the operator's switches |
| Tenant isolation | `infrastructure/db/session.py`, row-level security | tenant context of a pooled connection | open, set, commit |
| Normalizers | `connectors/*.py` | none | translate a payload |
| Evidence graph | `services/graph_builder.py`, `api/v1/endpoints/graph.py` | `entities`, `entity_edges` | extract, overview, neighborhood, attack chain |
| Grounding | `services/grounding.py` | none | check a narrative against its evidence |
| Text, embedding, RAG | `services/evidence_text.py`, `embedding.py`, `rag.py` | embeddings | format, embed, search |
| Providers, enrichers | `cti/*.py`, `enrichers/*.py` | none | call and parse |

### How they interact

```
 vendor API --fetch--> poll_connector --one tx--> ingest_events --+--> event_aggregates
 collector  --POST /events------------------------> ingest_events |     entities, edges
                             |                                    +--> event_techniques
                             v after COMMIT
                      schedule_correlation (per-tenant timer, re-armed by every ingest)
                             v
        correlate_tenant: DELETE open objects, INSERT one per untriaged cluster
                             |  ON DELETE CASCADE
        +--------------------+----------------------+
   investigations (one tx per stage)          case_evidence
   PATCH /evidence/{id} (triage) races with the rebuild

   event_techniques <-- ingestion (vendor, rules) | ai-classify (AI) | scripts/reclassify.py
   requests, operator --tenant_session/admin_session--> users, tenants (row-level security)

   lifespan --starts/stops--> connector sweep loop (tenants x connectors -> poll_connector)
            --starts/stops--> hunter loop (tenants -> hunt_indicators -> cti_cache, hunt_findings)
```

The process is one event loop, so code between two `await`s is atomic, and
everything else interleaves: every database statement and every HTTP call is an
`await`. Transactions are READ COMMITTED; row locks (an upsert, a DELETE, a
foreign-key check) make them wait for each other, and PostgreSQL breaks circles.

### What is hard, and what makes each part correct

The hazards are listed with their source line and the properties that watch
them in `PROJECT.json`. In short:

- **Polling** keeps a position in somebody else's log over three transactions
  with the network between them. It is correct when no failure, crash, edit or
  deletion makes the cursor pass an alert that was not stored, none is stored
  twice, and every alert arrives.
- **Ingestion** runs several batches that lock shared rows in the order of
  their payloads. Correct: what one savepoint loses, to a hostile payload or a
  deadlock, is exactly what was logged.
- **The debounce** cancels a task that may be in mid-transaction. Correct: one
  live timer per tenant, and a quiet tenant's queue catches up.
- **Correlation** deletes and rebuilds rows that analysts, investigations and
  cases refer to. Correct: clusters are the bursts they are meant to be, triage
  is never undone, no window is described twice, nothing is left dangling.
- **Investigations and cases** span several transactions over evidence that
  disappears. Correct: no invented stage, no half-opened case, nothing hangs.
- **The caches** are read, missed and filled by many at once, each holding the
  rows it has written. Correct: no answer older than the TTL, no lookup hangs.
- **The hunt** must converge on what providers say now, through stale caches.
- **The loops** must be fair to every tenant and connector and must end.
- **The collector** crashes and restarts between a POST and its checkpoint.
- **Technique mapping** has three writers of one table whose inserts yield to
  what is there (ON CONFLICT DO NOTHING) and wait for each other. Correct: no
  writer takes away or changes what another has written, and a rebuild that was
  interrupted is finished by running it again.
- **Accounts** are rows that several requests read, decide on, and write back.
  Correct: a switched-off user gets no token, a second factor is on only with a
  secret that was verified, no transaction sees another tenant's rows.
- **The pure algorithms** (normalizers, rules, score, graph, grounding) have
  boundaries and corner cases that only enumeration reaches.

## How the code is modelled

One action is one transaction, one SQL statement, or one stretch of code
between two `await`s, whichever is the smallest that another actor can get in
between. The control of a handler is kept: its guards, early returns, error
paths and order. Its data is abstracted to what the properties tell apart: an
alert is a number (so that `_id` has an order), a timestamp is a small number,
a credential either decrypts or does not. Definitions carry the source's names.

What is outside of `src/` is external and kept as weak as the code needs it: a
vendor API answers with *any* page that fits the filter, the sort order and the
limit it was asked for; PostgreSQL gives READ COMMITTED reads, row locks and
deadlock detection; the event loop may cancel a task at an `await`.

A definition introduced by a comment `Mutant:` is not part of the model: it is
a plausible bug in the definition below it, used to show that a property can
fail.

## Modules

| module | models | state <-> code |
|---|---|---|
| `VendorPaging` | `collectors.py`: query, page, kept payloads, next cursor of Wazuh (`search_after`), CrowdStrike and Cortex XDR (skip-sets) | pure operators: `Selected` is the query, `IsPage` a legal answer, `Kept` the parser's filter, `NextCursor` the token. `cursor.from` is history: the lookback bound the chain of polls began with |
| `ConnectorPolling` | `poll_connector` by any number of pollers, and the endpoints | `row` = `connectors`, `stored` = `raw_events` per connector, `poll[p]` = locals of a call, `pending` = a timer is armed. `Snapshot -> Fetch -> Ingest -> Schedule`, `MarkError` on a fault, `Crash` at any time |
| `EventFeed` | what a connector promises: alerts are taken in once, in order, without gaps | abstract specification |
| `ConnectorFeed` | the refinement mapping from polling to the feed | |
| `ConnectorSweep` | `_loop`, `start`, `stop`, `sweep_once` of the runtime | `pc` = where the task is, `tenants`/`connectors` = what is left of the lists it read, `sealed` = credentials that do not decrypt |
| `AutoHunt` | the same of the hunter | `left`, `pc` |
| `AppLifespan` | `main.py`: instantiates both loops over one set of tenants; start-up, shutdown in its order, dispose | `life` |
| `Ingestion` | `ingest_events`, `record_aggregate`, `build_graph` | `tx[b]` = a batch's transaction: what it wrote (`rows`, also its row locks), `todo` = the savepoints still to write, `saved` = what the current savepoint rolls back to |
| `AutoCorrelation` | `schedule_correlation`, `_correlate_after`, `cancel_pending` | `task[t]` = an asyncio task, `pending` = `_pending[tenant]` |
| `Clustering` | the walk of `correlate_tenant` over sorted rows; `Together` is the reference | pure operators |
| `CorrelationScore` | `_score` | pure operators, one per term |
| `EvidenceLifecycle` | `correlate_tenant` statement by statement, and `PATCH /evidence/{id}` | `objs` = committed `evidence_objects`, `corr[k]` = the transaction of a pass (its DELETE has a snapshot and an end, as in READ COMMITTED), `patch[a]` = a triage request |
| `InvestigationPipeline` | `run_investigation` stage by stage | `run[i]` = the generator, which ends with an event that says how (`ended`), with an exception nobody catches because its row is gone (`raised`), or cut off (`abandoned`: a hang-up, a crash, or a database that fails the transaction that was to mark the row); `trail[i]` = its `investigations` row |
| `CaseWorkflow` | create, update, attach | `status`, `links` = `case_evidence`, `req[r]` |
| `EvidenceDependents` | investigations and cases over one evidence table, with the cascades | every deletion carries `Cascade` and `Unlink` in the same step |
| `IntelLookup` | `lookup_cti` and `lookup_indicator` (one loop over two tables) | `look[l]` = a lookup's transaction, `cache` = the table; time is kept as ages, so no clock bounds a behaviour |
| `CtiHunt` | `hunt_indicators`, `persist_hits` by the sweep and the button, over `IntelLookup` | `hunt[h]`, `findings` |
| `TechniqueRules` | `classify_event`: the rules as a table of a condition, an id and a confidence; `extract_vendor_technique_ids`, the parsing of an AI reply | pure operators; a text is the set of the words the rules look for in it |
| `TechniqueMapping` | ingestion, `classify_tenant` and `scripts/reclassify.py` over one table | `DeployedOf` = what the rules the process was deployed with make of an event, as against `RuleRows`, what they say by now; `ScanLimit` = how many of the latest untagged events an AI run looks at (400 in the code); `tags` = committed `event_techniques`, `rows[w]` = a writer's uncommitted ones (also its locks), `todo`, `groups`, `lastId` = the locals of the writers |
| `Accounts` | `auth.py`, the patches and `create_user` of `tenants.py`, `tenant_session`, `admin_session` | `KindsOf[r, u]` = what request `r` may ask about user `u`; `req[r]` = a request and the sessions it has left, `conn` = the pool, with the setting of the transaction and of the session; `banned` and `proven` are history |
| `EvidenceGraph` | `extract_graph`, the three graph queries, the entities of an evidence object; `Hops` is the reference | pure operators |
| `Grounding` | `check_grounding`, `check_mitre_claims` | pure operators over lines of tokens |
| `Normalization` | the five normalizers: which vendor field each column and attribute is taken from | pure operators; a `Message` stands for its first 500 characters, which is what Mordor keeps |
| `Analysis` | what is fed to the pure parts: a `sample` that grows piece by piece | `sample` = an alert, a graph, a narrative or a payload |
| `WazuhCollector` | the standalone collector: paging, shipping in chunks, the checkpoint file | `disk` = the file, `kept` = main's checkpoint, `ckpt` = the cycle's |

`MC*` modules give the constants their values. The proof modules are
`ConnectorPollingProofs` (also `VendorPaging` and `ConnectorFeed`),
`EvidenceProofs` (`Clustering`, `EvidenceLifecycle`, `EvidenceDependents`),
`IngestionProofs`, `ProcessProofs` (`AutoCorrelation`, `AppLifespan`,
`Accounts`), `WazuhCollectorProofs`, `CtiHuntProofs` (`IntelLookup`, `CtiHunt`),
`AnalysisProofs` (`Analysis` and the pure parts under it: `EvidenceGraph`,
`TechniqueRules`, `CorrelationScore`, `Normalization`, `Grounding`) and
`TechniqueMappingProofs` (`TechniqueMapping`).

Three MC modules put several subjects into one run: `MCProcess` (loops,
debounce, accounts), `MCTechniques` (the tables of `TechniqueMapping`, the
samples of `Analysis`) and `MCHunts` (enrichments, hunts). The subjects share no
state; a variable chosen in the initial state says which one a behaviour is
about, and the others rest in their initial states. An invariant of one subject
holds in the run exactly if it holds of that subject alone, and so does a
liveness property, which speaks of steps that the resting subjects do not take.

Two things about faithfulness that are easy to miss:

- `ConnectorPolling!Ingest` does not look at `enabled` again, `PATCH` does not
  touch the cursor, and a status is overwritten by whoever comes last, as in the
  code. `Test` and `MarkError` only change the status, which no property is about.
- In `EvidenceLifecycle` a DELETE has two actions. `DeleteStarts` fixes the rows
  it will look at; `DeleteEnds`, once no other transaction holds them, deletes
  those still open. That is what makes a triage between the two survive, and
  what a model with an atomic DELETE would have assumed.

## Runs

Each run's properties are the INVARIANTS and PROPERTIES of its `.cfg`. They are
the ones a test would hardly reach. The type invariants describe the state for a
reader and for the proofs; TLC is spent on the others.

| run | instance | shows |
|---|---|---|
| `Polling` | one connector in use of three vendors, 5 alerts at 3 timestamps, batches of 3, one poller | `NoLoss`: the stored cursor never passes an alert in scope that is not stored; `NoDuplicates`; `CursorAdvances`; `ImplementsEventFeed`; `EveryAlertArrives`. With failing fetches, rolled-back ingests, crashes, disabling and deletion |
| `Evidence` | triage: 4 events on 2 hosts, one correlator, one analyst; or dependents: 2 evidence objects, one correlator, one run, one case, one request | `ClustersAreChains`: the walk computes the reference clusters for every set of events; `NoDuplicates`, `TriagedSurvive`, `NotResurrected`; `PassesAnswer`: a pass that commits leaves no event it has read without an answer; `NoDanglingRows`: nothing outlives its evidence; `RunsSettle`: a run comes back, and its row says how it ended unless nobody was left to write it |
| `Techniques` | 3 events, one AI run, the script in batches of 2, one fault; and the samples of `Analysis` | the tables: `VendorStandsAlone`, `RebuiltWhole`, `TagsKeepTheirSource`, `TagsComeBack`. The samples: `ScoreGrows` (rules and score together are monotone), `ChainsReach` (the chain names whom the edges reach), `InventionIsFlagged` and `PairsAreJudged` (grounding), `EvidenceArrives` (normalizers) |
| `Process` | 2 tenants with a connector each, one of which may not decrypt; 3 ingests and 3 tasks of a debounce; two tenants with a user each, the operator and 2 connections | `EngineOutlivesLoops`, `EveryConnectorPolled`, `EveryTenantHunted`, `ShutdownEnds`; `OneLiveTimer`, `QueueStaysLive`; `DefaultDeny`, `LockedOut` |
| `Ingest` | 3 batches, 8 payloads, shared signals and edges in circular order | `BatchLands`, `SignalsCountEvents`, `SpansHoldEvents`, `GraphsAreWhole`, `BatchesEnd` |
| `Collector` | 4 alerts, pages of 3, chunks of 2, three fault scenarios | `AtLeastOnce`, `ShippedOnce` (without faults), `EveryAlertShipped` (without crashes) |
| `Hunt` | two enrichments naming two addresses in opposite orders, or the sweep and the button with two leads | `NobodyHangs` |
| `HuntConverges` | one recurring hunt and a request on the same indicator, a provider that changes its mind over 3 confidences | `AnswersWithinTtl`, `LeadsConverge` |
| `SweepSealed`, `OtherHosts`, `AlertsReplaced`, `MfaRace` | those of `Process`, `Techniques`, `Evidence`, and two of a user's own requests with two secrets | **violations**: see [below](#where-code-and-words-part) |

### Bounds, and why they are enough

- *Polling.* A batch of 3 against ties of 2 makes a page end inside a tie, at
  its end, and after it, so that the skip-set grows, is carried over and is
  dropped. `MaxRows = 1`: each behaviour uses one connector, of whichever
  vendor; connectors share no state but the pollers. Copies are counted up to
  2, which is enough to see a duplicate. The lookback is one tick, so that an
  alert can fall out of the first poll. `ArrivalOf` says how a source's alerts
  become searchable; each vendor is run with the order its token needs
  (`position` for Wazuh, `timestamp` for the skip-sets). Without it no resume
  token can be drop-free, and the proof makes the assumption explicit.
  `Rejected` is empty here: an alert the database refuses is a gap in the feed.
  The theorems hold for any.
- *Evidence.* Gaps of exactly the window, twice, on one host (a chain of three
  that a measure from the start would break), and an event of another host in
  the same minute. Six ids: all the objects that can be alive, triaged and about
  to be inserted at once; ids nobody refers to are used again, so behaviours
  are infinite and liveness is about all of them. One correlator: the timer
  alone; more are in the proofs. *Dependents:* the smallest instance in which an
  object is deleted between any two steps of a run and of a request, with four
  of the ids. Triage is left out of it. Which of the two a behaviour is about is
  chosen in its initial state, as in the runs with several subjects.
- *Techniques, tables.* Event 2 has a vendor id; the script's rules tag the
  other two, the deployed rules one of those, under a confidence the rules have
  since changed and for a technique they have since dropped, the AI either: every pair of sources meets on one event, and a
  batch of two ends between them. `ScanLimit` is less than what may be untagged. `MaxFaults
  = 1`: one lost connection, restart or failed linking at any point. The replies
  hold an id out of the catalogue, one proposed twice, confidences of zero and
  above the cap, and an infinite one, which costs the run all it has written.
- *Techniques, samples.* Every event with words in at most three fields (no rule
  reads more at once), alone or 900 times again (on both sides of a hundred and
  at the cap); every graph of at most four of six events, which hold cycles, a
  process that spawns its like, parallel relations and two hosts that connect
  to each other, with chains of up to 4; every narrative of at most four tokens
  on two lines; every payload with at most four of the fields whose choice
  matters, among them an `Image` that is there but empty. A sample grows piece by piece, so every smaller one is visited too.
- *Process, loops.* Two tenants: one can be behind the other in a sweep.
  Switches and re-entered credentials are unbounded. *Debounce:* three tasks are
  a live one, the cancelled one it replaced, and one still unwinding.
  *Accounts:* one request of the users', one of the operator's, and a connection
  for each, which they swap. Each of two tenants has a user, so that a context
  left on a connection shows another tenant's row; all that the second user does
  is to be created and to log in (`KindsOf`); `MfaRace` has two of the user's and two secrets.
- *Ingest.* Three signals make a circle of three, two processes a circle of two
  inside one savepoint of several statements.
- *Collector.* Pages of three over ties of at most two (`MaxTie`); a tie as
  long as a page stalls the collector, see below.
- *Hunt*, *HuntConverges*. Two lookups (two hunters) over two rows are the
  smallest circle; there no time passes within a lookup. In *HuntConverges* a
  TTL of one tick and a call that takes up to one tick make a row stale at,
  before and after the moment it is looked at.

`CHECK_DEADLOCK FALSE` is set where the system may come to rest: bounded alerts,
events, ingests, batches or samples are used up.

## Fairness

Every liveness property is checked under the weakest fairness we could find a
reason for in the code.

- A step of a task that is ready is taken (WF): the event loop resumes it.
- *Calls that may fail* (a fetch, an ingest transaction, a listing, a POST) are
  under SF: the interval of the loop brings the task back again and again, and
  what fails infinitely often also succeeds infinitely often. They are under no
  obligation to succeed at any given time, and failures are never fair.
- *Statements that wait for a row lock* are under SF: PostgreSQL queues the
  waiters of a row, so one is not overtaken for ever.
- *Deadlock detection* is WF: PostgreSQL's `deadlock_timeout`.
- Endpoints, analysts, crashes, toggles and the source have no fairness.
  `AppLifespan` does not assume that it is ever shut down or started again.
- `HuntConverges` assumes in addition that time passes, that the hunt recurs and
  that providers and database stop failing at some point (`Recurring`).
- `Collector` needs more than "POST succeeds infinitely often": after a failure
  on a later page `main` starts from an older checkpoint, so that a second page
  that never succeeds would repeat the first for ever. Fairness is therefore per
  checkpoint timestamp, and `WazuhCollector` says so.
- `Ingest`: a batch that can take a step again and again takes one (SF of its
  steps together); clients whose batch was rolled back may send it again for
  ever, so less would let them starve another.
- `Techniques`: an insert that waits for the row of another writer is SF; the
  operator runs a script again that was cut off; nobody has to ingest, and the
  AI need not be asked.
- `Process`: requests about accounts have none, their properties are safety.
- `Evidence`: of a pass only that its transaction ends one way or the other
  (WF), so that it gives its row locks back; nothing says that it ever starts, or
  starts again after a rollback. The steps of an investigation are SF, since they
  wait for those locks.

## Proofs

Everything here is checked by `tlapm` to the last leaf, for every value of the
constants: any number of connectors, pollers, alerts, batches, correlators,
analysts, writers and requests, any batch size, window and time to live. What a
theorem assumes beyond the named assumptions on the constants is in its
statement. Each inductive invariant was model-checked before it was proved.

**`ConnectorPollingProofs`**

- `TypeCorrect`: `Spec => []TypeOK`.
- `DropFree`: `ArrivalInOrder => (Spec => []NoLoss)`, for any number of
  overlapping polls. `ArrivalInOrder` says that no source publishes behind a
  position it has handed out. `NoLoss` alone is not inductive: it speaks of the
  stored cursor, but what will be stored is in the hands of a poll. `LossInv`
  strengthens it with the same statement for every poll in flight - its
  snapshot is complete, and so is its next cursor *once its payloads are
  added* - and with the fact that nothing published is in the future. That is
  why an interleaved poll may overwrite a newer cursor and still lose nothing.
- `DuplicateFree` and `CursorNeverBack`: `SinglePoller => ...`. The invariant
  `DupInv` says that what is stored is behind the cursor, and what a poll holds
  is not; with one poll at a time the cursor it started from is still the
  stored one when it commits. Both fail for two pollers, and so does the code.
- `EventFeedImplemented`: each connector implements `EventFeed`, with one poller,
  `ArrivalInOrder` and no payload rejected. Initial states map to initial
  states; `Publish` is the feed's, an `Ingest` of a page that is not empty is its
  `Deliver` (what it adds is new by `DupInv` and leaves no gap by `LossInv` and
  `ScopeInv`, by which everything stored is in scope of the lookback that the
  cursor began with), and every other step, `Delete` and `Crash` among them, is a
  stutter. A rejected payload is a gap in what is stored, though not in what was
  looked at: hence the last hypothesis.
- The first lemmas are about one page: `Behind` grows with the cursor, what is
  kept was not behind the old one, everything selected and not on a full page is
  after the new one; per vendor, for any batch size.

**`EvidenceProofs`**

- `ClustersAreRuns`: for every finite set of events and every window, two events
  share a cluster of `correlate_tenant`'s walk exactly when no silence longer
  than the window lies between them. The walk is a recursive function over the
  sorted rows. That a sort exists, that the function does, and that its clusters
  are `Sound` after each row, are inductions; the library's induction theorems
  cannot be instantiated here, so each is an argument by a least counterexample,
  from the well-foundedness of `<` or of strict inclusion. `CutAtSilences`
  puts it into the lifecycle: `Spec => []ClustersAreChains`.
- `TriageIsRespected`: no step of any number of passes and analysts removes a
  triaged object. `LocksAreKept` is the inductive invariant: a row in a pass's
  uncommitted DELETE is open, and in no other pass's.
  `TriageIsRespectedThroughout` says the same beside investigations and cases.
- `RerunReplaces` (`NoDuplicates`) and `DismissedStaysDismissed`
  (`NotResurrected`): with one correlator (`OneCorrelator`) and analysts who
  triage and do not reopen (`NothingReopened`). `AloneInv` follows the pass
  through its statements: from its DELETE on it knows every open object, as one
  to delete or deleted, and when it writes also every triaged one, as one it
  will not overlap; the clusters themselves are disjoint by `ClustersDisjoint`.
  Both hypotheses are needed, see below.
- `PassesLeaveNoGap` (`PassesAnswer`), with any number of passes, under
  `NothingReopened`: when a pass commits, each cluster it has read was written,
  or touches an object that is triaged to this day. `AnswerInv` says that a
  triaged object keeps its window, so what the pass saw of it when it looked is
  still so when it commits.
- `DependentsLeaveEvidenceAlone`: under the same two hypotheses
  `ClustersAreChains`, `NoDuplicates` and `NotResurrected` hold of `DepSpec` as
  well. What a run or a case reads of the evidence, it reads; it is the cascades
  that go with a deletion, never the other way about. `CutAtSilences` and this
  one rest on the events of a state being finitely many, an invariant itself.
- `EvidenceIsTyped`: `Cases # {} => (DepSpec => []DepTypeOK)`. That an object's
  window is a time of its events is not a matter of shape: it needs the soundness
  of the walk.
- `NothingDangles`: `Cases # {} => (DepSpec => []NoDanglingRows)`. `DanglingInv`
  adds that a run that has not begun has no row, and that a request that is
  attaching is at a case that exists; the rest is the foreign key when a row is
  inserted, and the cascade when an object goes.

**`IngestionProofs`**: `EveryBatchLands`, `SignalsCount`, `GraphsCount`,
`SpansHold`, with batches that interleave, deadlock and fail at any savepoint.
`IngestInv` says of every open transaction what it has got through of its
batch, that no two hold a row, and - of the committed table as well as of each
transaction's rows laid over it - that a row counts exactly the events that
mention it and whose savepoint was not rolled back. That the upsert reads the
committed row under its lock is what lets the tally survive the commits of
others. `PayloadAssumption`: a batch names each payload once. `SpansHold` is of signals,
which take the lesser and the greater time; an edge's `last_seen` is overwritten
by an older event (`graph_builder.py:144`), and nothing is proved of it.
`RowsAreHeldApart`,
`Spec => []TypeOK`, is the locking half of it for itself: no two transactions
hold one row.

**`TechniqueMappingProofs`**

- `VendorWins` (`VendorStandsAlone`), `RebuildIsWhole` (`RebuiltWhole`) and
  `MappingsStay` (`TagsKeepTheirSource`). `MappingInv` follows a row from the
  moment a writer plans it: its event is stored and carries no vendor mapping,
  and only an ingest, of an event nobody has seen, brings one. Its second half
  says of each event the script has got through that every row the rules give
  it is committed, by whomever, or in the script's hands, and that no rule tag
  but theirs is left.

**`AnalysisProofs`**: the pure parts, `SampleSpec => ...`, for samples of any
size.

- `ChainsAreComplete` (`ChainsReach`), for any events and any depth
  (`DepthAssumption`). The chain of an entity and the reference, the entities
  within so many hops, are recursive functions of the depth. That they exist, that
  every row is a path which visits no entity twice, and that every entity within
  reach ends a row no longer than its distance, are inductions, each put as a
  least counterexample: of the entities at one distance that no row reaches take
  the nearest, drop from the path to it whatever goes round in a circle, and the
  path that is left is a row.
- `MoreNeverRanksLower` (`ScoreGrows`): learning more words of an alert, or
  seeing it more often, never lowers its score, whichever of the 31 rules fire.
  The rules are monotone in the words, but the score is not evidently so: it
  takes the greatest confidence, counts techniques and tactics, and caps each
  term. The confidences of the rules that fire are a finite set, so there is a
  greatest. `PiecesAssumption` names the fields the rules read,
  `CatalogAssumption` says that a technique has finitely many tactics.
- `EvidenceSurvives` (`EvidenceArrives`), for any sample of payloads. Of every
  source: the vendor tier finds in what the connector stored the technique ids
  the vendor resolved, although Cortex puts a name behind each. And of a process
  creation the Security channel logs: read by Mordor it fires the rules that
  Sysmon's report of it does, under Sysmon's id and names, except the one rule
  that asks for Sysmon's event id (T1059 for a child of Office). That needs to
  know what each of the 31 rules asks of a record, `RulesAskAlike`. It is of
  records without `Image` and `ParentImage`, and of Mordor alone; see below for
  what is lost otherwise. `PayloadAssumption` names the five sources.
- `InventionsAreFound` and `PairsAreHeldApart`, for narratives of any length.
  A narrative that passes both checks cites no technique the evidence is not
  mapped to, lists no tactic that does not exist, names none beside an id but
  one of a technique its line cites, and no binary or tool the evidence does not
  know. A capitalised phrase on a line that cites no id is not a claim to the
  code (`grounding.py:117`), and prose is none anywhere: there an invented tactic
  passes, and neither the property nor the theorem says otherwise. On lines of
  pairs exactly the pairs are flagged that are wrong. `NarrativeInv` says that
  the tokens of a line stand at ever later columns. The first needs that a line
  that cites an id has a nearest one; the second that among ids at either side
  the own one, which comes directly before, is the only nearest.

**`ProcessProofs`**

- `OneTimer`: every task that runs and has not been cancelled is the one
  `_pending` names. `DebounceIsTyped`, `Spec => []TypeOK`: no pass has seen more
  than was ingested, which is what `correlated \in 0..ingested` needs.
- `EngineLast`, `AppSpec => []EngineOutlivesLoops`: a shutdown that has got to the
  hunter has left the runtime without a task.
- `TenantsAreIsolated`, `AccountSpec => []DefaultDeny`, from
  `AccountsAssumption` (every user has a tenant, and the empty setting is none).
  The property speaks of a request in a session; `DenyInv` has to speak of the
  pool: a connection carries a context only while a session uses it, then the
  one of that request's tenant session, and no two requests share a connection.
  That a connection is given back without a context is what makes the next
  session, of whichever tenant, see nothing that it did not set itself.
- `SwitchedOffIsOut`, `AccountSpec => []LockedOut`. `LockInv` says that whoever
  is `banned` has a row that is not active, that what bars a login (`barred`,
  taken when it began) is among the banned as long as it lasts, and that once it
  has read the tenant's row, and then the user's, that one is not what bars it.
  It needs to know of every other request what its transaction may write:
  `active` is written by the operator's patches only, or for a new user.
- `AccountsAreTyped`, `AccountSpec => []AccountTypeOK`: a request has a connection
  exactly while one of its sessions is open, so no failure loses one to the pool.
  `AccountInv` types a row cell by cell, as an UPDATE writes it, and with it what
  every request brings and is about to write.

**`WazuhCollectorProofs`**

- `NothingPassedBy`, `Spec => []AtLeastOnce`, with lost searches, POSTs, replies
  and crashes at any point, from `CollectorAssumption`. The next checkpoint is
  made from the page being shipped, so `AckInv` adds what is known of a page in
  hand: whatever is neither covered by the checkpoint nor on the page is at or
  after everything on the page, and what is no longer to be shipped has been
  accepted. The clock has gone on when an alert appears, so a late one never
  falls behind. That the indexer orders by timestamp and stamps alerts as they
  appear is the model's, and without it the code promises nothing.
- `NothingShippedTwice`, `Spec => []ShippedOnce`: in a behaviour without faults
  what has been accepted is behind the checkpoint or no longer in hand.
- `CollectorIsTyped`, `Spec => []TypeOK`: a checkpoint is of a time that has been
  and names alerts that are there, and covers none of the page being shipped.

**`CtiHuntProofs`**

- `FindingsAreFresh`, `Spec => []AnswersWithinTtl`. `AgeInv`: an answer is never
  older than its row says, in the table and in every transaction on its way
  there. That `fetched` is stamped before the provider is asked is what it comes
  down to.
- `FindingsAreLeads`, `Spec => []TypeOK /\ []WrittenApart`: `hunt_findings` holds
  leads and nothing else, a hunt has written or has yet to write each of its hits,
  and no two hunts hold one row. `LookInv` follows a confidence from the provider
  through row, cache and finding; the keys a lookup works through are sequences
  put end to end, once more an induction by least counterexample; and a sequence
  that lists the hits without repetition lists all of them because there are
  finitely many (`HuntAssumption`: the hunt collects finitely many indicators).

Every safety invariant and every action property of the passing runs is thus a
theorem, and so is the refinement. *Only model-checked* are:

- the liveness properties, since fairness and ENABLED are out of the prover's
  reach: `EveryAlertArrives`, `RunsSettle`, `TagsComeBack`, `QueueStaysLive`,
  `EveryConnectorPolled`, `EveryTenantHunted`, `ShutdownEnds`, `BatchesEnd`,
  `EveryAlertShipped`, `NobodyHangs`, `LeadsConverge`;
- two type invariants: `AppTypeOK`, because the loops filter the list they have
  read with `SelectSeq`, which takes a predicate as an argument, and the one of
  `TechniqueMapping`, which speaks of strings.

A theorem speaks of the specification of its own component. In the runs that
hold several subjects the others rest, as said above, so it applies to them.

## Where code and words part

Four runs are violations.

- **`SweepSealed`**: `decrypt_credentials` is called before the `try` of
  `poll_connector` (`connector_runtime.py:73`), so a connector whose stored
  credentials were sealed under another key raises out of `sweep_once`, every
  time, and the connectors after it are never polled; the module's docstring
  promises that the sweep moves on. `EveryConnectorPolled` is what does hold: as
  long as every enabled connector's credentials decrypt.
- **`OtherHosts`**: "entities seen on this host in the window (via edges touching
  it)" (`correlation.py:174`) are collected from every edge whose span overlaps
  the window, without a condition on the host (`:178`). An evidence object lists
  the entities of whatever hosts were active at the same time, and so an
  investigation may name them and pass the check of grounding.
- **`AlertsReplaced`**: a pass deletes every open object and then skips each
  cluster that touches a triaged window (`correlation.py:166`). When a late event
  joins the activity of an open alert to that of one an analyst has dismissed,
  the open alert is deleted and nothing replaces it, although most of its
  activity lies outside the dismissed window and nobody has looked at it; the
  docstring has "open objects are replaced" (`:12`). `PassesAnswer` is what does
  hold: whatever is not in an object belongs to a burst of activity that touches
  a triaged one.
- **`MfaRace`**: `/mfa/activate` verifies a code against the secret it read and
  commits only `mfa_enabled` (`auth.py:158`), an overlapping enrolment commits
  only `mfa_secret`: MFA is then on with a secret no code was verified of, which
  `auth.py:128` rules out.

Others were met while modelling. Some are outside the checked instances, and
the bounds above say how they are kept out; none has a run of its own.

*Polling and collectors*

- Overlapping polls of one connector (the sweep and `POST .../poll`) both store
  the batch (`connector_runtime.py:76`); `NoDuplicates` is of one poll at a time.
- More alerts at one timestamp than fit a batch: the skip-set vendors then ask
  for the same page for ever (`collectors.py:284`), and so does the standalone
  collector (`wazuh_indexer_collector.py:106`).
- An alert indexed late with the cursor's timestamp and a smaller `_id` sorts
  before the position `search_after` resumes from (`collectors.py:75`).
- The collector's checkpoint file is truncated before it is written
  (`wazuh_indexer_collector.py:52`): after a crash in between it does not parse,
  and the collector stays down. A cycle that fails on a later page ships the
  earlier ones again (`:153`), and a full page that held a seen id ends the
  cycle early (`:116`).

*Normalizers and rules*

- "the same rule fires whether the event arrived as Sysmon via Mordor or via
  Wazuh" (`technique_rules.py:10`) needs the same attributes: Wazuh alerts carry
  no process fields, evtx events no registry key, message or source image and no
  `NewProcessName` (`evtx_normalizer.py:68`), and Mordor takes its event id from
  `EventID` only. An `Image` that is there but empty also keeps the
  `NewProcessName` of a 4688 from being used (`mordor.py:50`), and a word behind
  the first 500 characters of a `Message` fires no rule (`mordor.py:69`).
- A Wazuh timestamp that is no string raises (`wazuh.py:20` says "never fail
  ingestion"), and so does a blank item in Cortex's technique list
  (`cortex_xdr.py:34`); ingestion stores the raw payload and goes on.
- A confidence in an AI reply that is an infinite number (`1e999`) is an
  OverflowError that `parse_proposals` does not catch (`ai_classifier.py:168`),
  and all tags of the run are lost; "never kills the batch" (`:236`) is about the
  provider only.
- The signature by which AI answers are shared leaves out `target_image`,
  `message` and `action` and cuts the command line at 120 characters, so that
  events the rules tell apart may share an answer (`ai_classifier.py`).
- `classify_tenant` reads the untagged events once, waits for the model, and
  then inserts without looking again (`ai_classifier.py:210`): an event that
  the script has meanwhile tagged by rule gets an AI tag beside it, which
  `endpoints/mitre.py:179` says does not happen. A rule tag of a technique that the AI got
  in first is dropped (ON CONFLICT DO NOTHING), so it stays out of correlation.
- An event with a vendor id whose linking failed is never tagged: the script
  skips events that have one (`reclassify.py`).

*Evidence, investigations, cases*

- Two passes of one tenant (the timer and `POST /evidence/correlate`) each
  delete the open objects they see and insert their own: duplicates
  (`correlation.py:142`). `Evidence` has one correlator.
- A pass that fails or is rolled back is logged and not run again before the
  next ingest (`auto_correlation.py:41`), so no liveness is claimed of it beyond
  `QueueStaysLive`, which excepts it.
- An object reopened after a pass's DELETE and triaged after its SELECT is
  written again as a fresh open one; `Evidence` lets analysts triage only.
- When no tagged event is left, `correlate_tenant` returns before its DELETE
  (`correlation.py:105`), and the open objects stay. Tags disappear only between
  the wipe and the rebuild of `reclassify.py`, which ends with a pass of its own.
- The capped terms of a score add up to 103, so a cluster short of "maximal"
  can reach 100 (`correlation.py:70`).
- When the evidence goes while an investigation runs, its row goes with it, and
  the handler that is to mark the row failed raises an AttributeError on the
  `None` it reads back (`investigation.py:272`): the client gets no error event.
  If the database fails that transaction, the row stays "running".
- Stages of an investigation are shown before they are stored
  (`investigation.py:268`), a run whose client hangs up stays "running", and
  completed investigations of an untriaged object go with it at the next pass
  (`models.py:409`).
- A tactic is held against the id that *starts* nearest to where the tactic
  starts (`grounding.py:186`). A short name whose own id is the longer of the two
  attaches to the id that follows: in "T1218.011 (stealth), T1003.001
  (credential-access)" the first pair is true and is flagged, although the
  comment (`grounding.py:168`) promises each tactic its own technique.
  `PairsAreJudged` is about tactics that directly follow their technique and are
  no nearer to the next; the vocabulary of the run has both kinds.
- Two attaches of the same evidence: the second is a 500 (`cases.py:280`); a
  case may go from any status to any other (`cases.py:264`).
- An edge's `last_seen` is overwritten by an older event ingested later
  (`graph_builder.py:144`). `SpansHoldEvents` is about signals.
- `attack_chain` has a row per simple path, not per entity, so its rows multiply
  with parallel relations (`graph.py:187`).

*Intelligence*

- Two lookups of one indicator both ask the provider (`enrichment.py:65`); two
  hunts that upsert in opposite orders deadlock and one loses its leads until it
  runs again (`cti_hunt.py:162`); `last_seen` may go back (`cti_hunt.py:194`).

*Accounts and process*

- Tokens are stateless: one issued before its user was switched off works until
  it expires, and a login in flight at that moment may still be answered with
  one. `LockedOut` is about logins that begin afterwards. `/auth/password` and
  `/auth/mfa` do not look at `is_active`.
- Nothing at shutdown waits for or cancels the debounce timers: the lifespan
  stops the two loops only (`main.py:33`), and `cancel_pending` is used by the
  tests. A restart drops the timer, and `QueueStaysLive` says so.

## Not modelled

- HTTP, JSON and SQL text, logging and formatting: no state of their own. A
  payload a normalizer or the database refuses is a kind of payload in
  `Ingestion`.
- `PATCH` of a connector's `endpoint_url`, which keeps the old cursor, and the
  probes of `POST .../test`.
- Read-only endpoints: event listings, the coverage matrix, the timeline. Their
  counts are separate statements under READ COMMITTED and may disagree.
- Case notes (append only), the creation of tenants, names and roles.
- Embedding and similarity search: a column written in the pass's transaction
  that nothing else modelled reads.
- The regular expressions that find tokens in a narrative, and the words that
  are never taken for a tactic; `Grounding` starts from the tokens.
- The limit of `_collect_indicators` and which indicators fall outside of it,
  and the limit of 200 entities of an evidence object.
- The size of the statements: `reclassify.py` inserts a batch in one statement,
  whose parameters the driver limits.
- The frontend, migrations, and the other operator scripts.

## Plan

Done: polling with its abstract feed and proofs; ingestion; debounce;
clustering, scoring and the evidence lifecycle with what depends on it; caches
and hunt; both loops under the lifespan; the standalone collector; technique
mapping and its rebuild; accounts and tenant isolation, with a proof; the pure
algorithms, from the normalizers to the graph and the check of grounding.

Next, in this order:

1. A second source per connector row, for the patch of an endpoint.
2. The collection of indicators with its limit, in front of `CtiHunt`.

Proofs: every safety property a run checks is proved. What is left to prove are
the types of `ConnectorSweep`, `AutoHunt` and `TechniqueMapping`, for the reasons
above, and whatever the next modules bring.
