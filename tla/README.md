# RADA in TLA+

RADA (Risk-Aware Decision Agent) is a FastAPI server on Python 3.11+: `POST /ingest` turns a
market event into a decision, stores it, and leaves auditing and learning to two background
tasks. Nearly everything that is hard about its core happens between awaits of one asyncio event
loop: bounded queues with different policies when they are full, tasks that put into them
later, timeouts, failing stores, an ordered shutdown, crashes. Around the core are components that
keep to themselves: stores, buses, model clients, gates, file transfers, trainings, evaluations.
These modules model all of them, check them with TLC on small instances, and prove with TLAPS, for
every value of the constants, each safety property that a passing run checks.

Paths below are relative to the repository; `rada/` stands for `src/rada/`.

## 1. Inventory

| Component | State it keeps | Operations | Hard because | Must hold |
|---|---|---|---|---|
| Audit writer `rada/audit/writer.py` | bounded `asyncio.Queue`, overflow tasks, consumer task | `emit`, `start`, `stop`, timeout of an overflow put | overflow puts race each other, the timeout, the consumer and `stop()`; appends fail; crashes | every event has one fate and one only; counted if dropped; `stop()` returns and strands as little as possible |
| Audit store and API `rada/audit/store.py`, `api.py` | SQLite table `audit_events` | `append`, `list_for_decision`, `export_range`, `GET /audit/*` | several connections; limit applied after the read | append-only; reads in time order |
| Reflection loop `rada/core/reflection_loop.py` | queue, `_audit_scores`, `PolicyCheckpoint`, the current batch, export files | `enqueue`, consumer, `drain_all`, `run_batch_from_store`, export, `stop` | dropping when full; several processors share the state across awaits; audit, update and export may raise; file names restart with the process | a decision has one fate; scores, checkpoint and exports agree; no export overwrites another |
| Decision loop `rada/core/decision_loop.py`, `search_loop.py`, `reasoner_loop.py` | none of its own | `process_one` | order of save, audit and count; which gates an action has passed | nothing refers to a decision that is not stored; risk-infeasible actions become HOLD |
| Server `rada/main.py` | `app.state`, counters | `/ingest`, `/bootstrap-demo`, lifespan | several awaits per request; any may raise; shutdown order | an answered request is complete; producers stop before their consumers |
| Human feedback `rada/feedback/*` | SQLite table `human_feedback` | `submit`, `list_pending`, auto-flag | row and audit event are two steps; rows are stored in another order than they are dated; limit before deduplication | no audit event without a row; a flag is hidden only by a full page of newer ones |
| Decision stores `rada/data/storage.py`, `timescale_store.py` | rows; a lazily created pool | save, update, list, close | pool created by whoever comes first, and one more by each demo; three tables; two clocks (`created_at`, the payload's); bounds without a zone | no pool of the server's own is left; all or nothing; the backends list alike where `since` means the same |
| LLM client `rada/llm_integration/adapters`, `rada/adapters/real_reasoner.py` | an HTTP client | complete with retries; fallback provider | fallbacks inside fallbacks: what is retried, how often, what is reported | bounded attempts; the warnings tell what happened |
| Context budget `rada/llm_integration/context.py` | none | `resolve_model_limits`, `assemble` | priorities, cuts and separators; rounding | fits the budget but for what rounding loses; protected segments survive |
| Event bus `rada/data/bus.py` | queue or broker client | enqueue, dequeue, close | runs share a list or topic, die with an event in hand, wait without a timeout | nobody waits for what will not come; once and in order |
| Policies, search, calc `rada/policies`, `rada/search`, `rada/calc` | none | pure functions of one event | a chain of stages, each of which may replace what an earlier one has checked | the decided action fits the CVaR limit |
| Artifact sync `storage/*.py`, `runpod/*.sh` | state file, remote objects | upload pass, daemon, final pass; FTP and bucket passes | files change while they are uploaded; two uploaders; midnight; cut connections | the remote copy becomes the local one |
| Training `runpod/train.py`, `rada/training` | checkpoints and adapter files | launch, resume, signals, save | killed anywhere and launched again into its own directory | goes on where it was; no manifest ahead of its weights |
| Evaluation `rada/evaluation`, `rada/search/eval.py`, export of `rada/data` | two JSONL files, a report | export, pre/post comparison, benchmark | a file cut off; a queue smaller than the records; metrics that cannot move | a report is of all its records, and what it can show |
| Data cards, quality, analytics, dashboards, scripts, migrations | files | presentation | little | - |

How they interact. A handler awaits `DecisionLoop.process_one`, which awaits `save_decision` and
then, in the same uninterrupted stretch, calls `AuditWriter.emit` twice; the handler calls
`ReflectionLoop.enqueue` and perhaps awaits `FeedbackStore.submit`, then emits again. The two
consumers work the queues off, in threads (audit appends) and through the decision store
(reflection outcomes). The lifespan starts the audit writer before the reflection loop, and
stops them in the opposite order before it closes the store. The other components meet the core at
one call each: `process_one` runs the gates and, with a real reasoner, one completion; the bootstrap
takes events off a bus before it processes them; trainings, evaluations and uploads share nothing with
the server but files.

## 2. Modules

| Module | Models | Composes |
|---|---|---|
| `AuditTrail` | what the audit writer promises: emitted, then pending, recorded, dropped, refused or lost | - |
| `AuditWriter` | `rada/audit/writer.py` step by step | implements `AuditTrail` |
| `SequenceFacts` | lemmas on sequences without repetition (append, tail, remove) and on ranks in a finite order | - |
| `AuditWriterProofs` | theorems about `AuditWriter`: where an event is | `AuditWriter`, `SequenceFacts` |
| `AuditWriterOrderProofs` | theorems about `AuditWriter`: in which order, and who is woken | `AuditWriterProofs` |
| `ReflectionLoop` | `rada/core/reflection_loop.py` with the export of `rada/data/export_batch.py` | - |
| `ReflectionLoopProofs` | theorems about `ReflectionLoop` | `ReflectionLoop`, `SequenceFacts` |
| `DecisionPipeline` | `rada/main.py`, `process_one`, feedback submission and lifespan | instantiates `AuditTrail`, and a view of the reflection loop |
| `MCDecisionPipeline` | the small instance and its symmetry | `DecisionPipeline` |
| `DecisionPipelineProofs` | theorems about `DecisionPipeline` | `DecisionPipeline` |
| `ArtifactUploader` | `storage/s3_uploader.py` with the training and the final pass of `runpod/orchestrate_training.sh` | - |
| `MCArtifactUploader` | small instances of it | `ArtifactUploader` |
| `ArtifactUploaderProofs` | theorems about `ArtifactUploader` | `ArtifactUploader` |
| `TimescaleStore` | `rada/data/timescale_store.py` with the lifespan around it, and the lists of all stores (`rada/data/query.py`) | - |
| `TimescaleStoreProofs` | theorems about `TimescaleStore` | `TimescaleStore`, `SequenceFacts` |
| `EventBus` | `rada/data/bus.py` as `run_bootstrap_once` uses it | - |
| `LlmClient` | the adapters, their factory, `RealReasoner` | - |
| `ContextBudget` | `rada/llm_integration/context.py` | - |
| `RiskSelection` | `select_cvar_feasible_action` and the tail loss | - |
| `DecisionGate` | what `process_one` decides: calc, reasoner, policy, search, optimizer, auto-flag | `RiskSelection` |
| `MCDecisionGate` | events and proposals on both sides of the gate's thresholds | `DecisionGate` |
| `ReviewQueue` | `list_pending`, the audit trail and export, next to their writers | - |
| `TransferSync` | `storage/ftp_sync.py`, `storage/bucket_sync.py` | - |
| `TrainingRun` | `runpod/train.py` and the training it wraps | - |
| `Evaluation` | decision export, pre/post comparison, search benchmark | `RiskSelection` |
| `MCComponents` | small instances of the nine components from `TimescaleStore` on, one at a time | `TimescaleStore` to `Evaluation` but the proofs |
| `ComponentProofs` | theorems about these components and their composition | `MCComponents`, `TimescaleStoreProofs`, `SequenceFacts` |

**What a step is.** asyncio is cooperative: nothing else runs between two awaits, so a step is
the code from one await to the next. Steps of requests, timers and threads that finish may come
in any order. In `AuditWriter` the order in which tasks that are ready run matters, so the event
loop's ready queue is a variable (`ready`), and `asyncio.Queue`'s line of waiting puts another
(`putters`); these, with `Room`, `Enqueue` and `WakePut`, are the library, modelled from how the
code uses it.

**AuditWriter.** `queue`, `putters`, `ready`: where items are. `spawned` and `nested` mark overflow
puts whose task, or whose inner task (`wait_for` of Python 3.11 starts one, from 3.12 on it does
not; `EnterWaitFor` is a choice), has not run yet, because a put that has not run cannot be the one
that was woken. `consumer` and `stopper` are the program counters of `_consumer` and `stop()`.
`stored`, `dropped`, `failed` and `lost` are the four fates. `emit` is `EmitDirect` or `EmitOverflow`;
`_enqueue_with_timeout` is `EnterWaitFor`, `PutLands`, `PutWaits`, `ExpireWaiting` and `ExpireWoken`;
`_consumer` is `WaitForItem`, `Take` and `AppendReturns` (which is a success or an exception);
`stop()` is `Stop`, the same put actions for the item `None`, and `StopReturns`. `EndProcess` is a
crash or the exit: memory goes, the table stays. The branch of `emit` for callers outside the event
loop is left out: every caller is on it.

**ReflectionLoop.** The three processors (consumer, `drain_all`, `run_batch_from_store`) share
`_process`, so the actions take the worker `w`, and `at[w]` says which await it is in: `AuditScores` or
`AuditRaises` after the auditor, `FinishBelowBatch` or `FinishAndExport` after `update_decision`
(which may raise and is then only logged: `Persist`). The export happens in the same step, without an
await; it may raise before, between or after the two files, and the process may die between them
(`CrashInExport`). `version` numbers the files; they outlive the process and `version` does not. `served`
is chosen at the start: the lifespan of the server, which starts the consumer before it serves, or a test
or an evaluation, which calls `drain_all` instead.

**DecisionPipeline.** `request[r].at` is the await a handler is in. `Decided` ends everything before
`save_decision` (the reasoner, the policy, the search, whatever they choose; whether the decision
will be auto-flagged is nondeterministic). `Saved` is the stretch after it: row, two audit events,
counter, reflection queue. Every await may raise (`DecideRaises`, `SaveRaises`, `SubmitRaises`);
an error of a store may come after the commit. The audit trail is `AuditTrail` by INSTANCE: that
`AuditWriter` implements it is checked and proved, so nothing here depends on how it queues.

**ArtifactUploader.** A file is its version, which stands for content and signature alike, since the
uploader tells versions apart by mtime and size. `up[u]` is one process: `at` says what `upload_once`
is doing (between two files, about to compress, copying, about to run `s3cmd put`, after `s3cmd` has
read its source), `state` is `self.state`, `todo` what the listing may still yield. Training writes
between any two of these steps. Uploaders share the state file and `.tmp_compress`, where a copy is
named after the base name only; the orchestration script does not stop the daemon before its final
pass, so two may run. A put may fail after the object was stored; a kill leaves copies, whole or
not, and half a state file. A copy or a put that catches a file in the middle of a write counts as the older
version. Left out: `--dry-run`, and files deleted by `runpod/disk_manager.sh`.

**TimescaleStore.** `storeCall[c].at` is the await a caller is in: creating the pool (`create`), in
`ensure_ready`, or at a statement of its operation. `PoolOrCreate` is `_pool_or_create`, which every
operation calls twice; `Created` is the assignment after the await. The statements of `save_decision`
are `InsertDecision` (it waits for a transaction that has inserted the same key and raises if the row
is there), `InsertMarketEvent`, `InsertTrace`, `Commit`; `wrote` is what the open transaction has
written. `update_decision` is one statement, `Update`. `StartStore`, `CloseStarts` and `CloseReturns` are
the lifespan of `rada/main.py`; `StatementRaises` and `ProcessEnds` may strike anywhere. A call is made on the
lifespan's store or, as `POST /bootstrap-demo` does, on a store built for it (`own`), whose pool stays open
(`demoPools`) until the process ends; open means created and not closed (asyncpg lets idle connections go after
five minutes, the pool remains). Rows have the column `created_at` besides their payload; `FilterDecisions` is the
in-memory and the SQLite list, `MayList` what the SQL of the Timescale store may return. A bound is what a
clock shows and whether it names its zone: without one `filter_decisions` takes it for UTC (`SinceUtc`), and
asyncpg for local time (`SinceSent`, by `LocalOffset`).

**EventBus.** `run[r]` is a bootstrap run, `busLog` what was ever put on each queue, `taken` how much of
it is gone. In-memory and ZeroMQ queues belong to the run; the Redis list and the Kafka topic
are shared and outlive it. For Kafka `taken` is the committed offset, `position` that of the consumer which
has the partition; `Assign`, `AutoCommit` and `LeaveGroup` are the broker's. `build_event_bus` may fall back
to the in-memory bus.

**LlmClient.** `provider` is the pair that the configuration names, `Chain` the services each tries in turn,
`turn` whose `complete()` runs (the primary, the fallback, the primary again). Each failure of the network or of
the body is an action; `posts` counts requests, `trace` is the outcome.

**ContextBudget.** A text is its length. `Pack` is one segment of the loop of `assemble`: kept whole,
truncated or dropped. A text that is cut also loses the white space it then ends with, any length of `Blank`, perhaps
all of it. `ResolveLimits` is `resolve_model_limits`. With tiktoken installed the counts
differ; the packing is the same.

**RiskSelection, DecisionGate.** One action per stage of `process_one`, in its order, in scaled integers
that make every comparison of the code exact for the inputs used. What a policy inside `RiskGatedPolicy`
proposes is any member of `InnerAction`. Order and failures of what follows the decision are `DecisionPipeline`.

**ReviewQueue.** A row or an event is dated when it is made and stored awaits later, so the order stored
is not the order dated. `ListPending`, `ExportAudit` and `ListForDecision` are the three reads; the export
compares its bounds as text, as SQLite does. A bound may be absent, and the lower one may be handed over by three names
(`LowerName`), of which the endpoint does not see `from`.

**TransferSync.** A content is a version and a size. `LookAt` compares sizes and opens the file,
`Store` is what the transfer leaves; a file written meanwhile, or a cut connection, leaves a garbled
copy. The prefix is the day on which the pass began. There is one pass at a time. The upload to the bucket and the download are the second half.

**TrainingRun.** `wrapper` is `train.py` (before and after its handlers are set, waiting), `trainer`
the child. Checkpoints are directories that may be half written; `save_total_limit` removes others, by a time
that a rewritten directory may or may not renew (a choice). `Signal` and `KillPod` may come anywhere.

**Evaluation.** The two files of the export, with a kill in between; `load_jsonl_records`; two evaluations, each
with a reflection queue that drops when it is full; the metrics as sums, the pass rate by running the gate over its
candidates for every record (`GatePasses`); one benchmark case per step.

## 3. Runs

Every property has a mutant (`PROJECT.json`, defined next to the definition it changes): a bug one
could plausibly write, under which TLC finds the property violated.

| Run | Checks | Bounds, and why they are enough |
|---|---|---|
| `writer` | `OnePlace`, `OvertakenOnlyByOverflow`, `StopStrandsOnlyOverflow`, `NoLostWakeup`, `StopEventuallyReturns`, `EventuallySettled`, `ImplementsTrail` | queue of 2, 5 events, one process end: the queue fills with two or three overflow puts at once next to a pending sentinel, before or after a restart |
| `writer_stop` | `CleanStopAccountsForAll` is violated | queue of 1, 3 events |
| `reflection` | `OneFate`, `InOrder`, `StopDrains`, `ScoresMatchCheckpoint`, `ExportsPartition`, `StopEventuallyReturns`, `NoOverwriteInProcess` | server or offline use, 3 decisions, a queue of 2, one `run_batch_from_store` of 2 rows interleaved with the consumer or with `drain_all`, up to 5 processed decisions in batches of 2, one crash: a drop, two full batches, a full queue at `stop()` |
| `pipeline` | `NothingAheadOfTheRow`, `AnsweredIsComplete`, `NothingAfterStop` | two requests at a time, 2 decisions, 1 feedback item, one crash; the two requests are interchangeable (symmetry, no liveness property in this run) |
| `pipeline_live` | `AnsweredEventuallySettled` | one request at a time, no crash (a crash ends what is promised) |
| `uploader` | `SkippedIsStored`, `OwnContentOnly`, `NeverBack`; `TwoEventuallyStore` | two files of one base name, the first written twice, one uploader at a time, one kill: passes before, during and after the writes, copies left behind, a lost state file. Or (`beside`) two uploaders on one file and one copy: enough for each to remove or truncate the copy that the other is about to put |
| `uploader_final` | `FinalPassSyncs` is violated | one file written twice, one uploader at a time |
| `components` | `OnlyDemosLeavePools`, `TablesTogether`, `BackendsAgree`; `NobodyStarves`, `OnceAndInOrder`; `ReasonAccountsForItself`; `OvershootBounded`; `LossBounded`, `FlagMeansLowConfidence`; `ReadersLoseOneEnd`; `MirroredUnlessSameSize`; `ManifestNeverAhead`; `EvaluationsApart` | below |
| `training_resume` | `ResumeContinues` is violated | 2 steps, 3 launches |
| `auto_flag` | `CvarBreachIsFlagged` is violated | the events and proposals of the gate below |
| `export_from` | `FromIsHonoured` is violated | the reviewers and events below |
| `comparison` | `TrainingMovesMetrics` is violated | the records below, no benchmark |

`components` starts in the initial state of one component and leaves the others alone (`which`), so
that its states are the sum, not the product, of theirs. The callers of the store are interchangeable (symmetry; there
is no liveness property in this run). The bounds:

- store: two callers, two decisions with two payloads each, two pools, one failed statement, a
  local clock one tick ahead of UTC, any number of restarts: a demo next to a request, two saves of one id at once, a save and an update, a failure in each statement.
- bus: two runs of two events each on every kind of bus, one fault: a run that dies leaves events to the other.
- LLM: every pair of primary and fallback, three attempts, two models.
- context: all prompts of two and three segments of short, fitting and too long texts, protected or not, under
  ten limits, of one token up to eighteen, with no or three blanks where a text is cut, so that each segment may be the one cut or dropped.
- gate: prices on both sides of the shock threshold, volumes from none to one that no limit admits, every
  reasoner and profile, with and without search, three proposals of an inner policy.
- review: two submitters, three rows, two decisions, two moments, a page of two and an export of one:
  rows stored in the wrong order, repeated flags that fill the page.
- sync: two files, one of two sizes, two writes, two days, one cut connection.
- training: two steps, one checkpoint kept, three launches: two kills, and the launch that inherits from both.
- evaluation: three records against a queue of two and batches of two; all benchmark cases of two candidates
  out of four.

**Fairness.** The event loop runs every task that is ready, and awaited calls return or raise (they
run in threads or have timeouts): weak fairness of those steps. Requests, timeouts of the writer,
shutdown and crashes are never assumed to happen. In `AuditWriter` one weak fairness condition
covers the head of the ready queue, since the loop is first in, first out. Only `ArtifactUploader`
needs strong fairness: a pass may be given up and a put may fail any number of times, but the listing
of a file and its put do not fail for ever (`Fairness`); otherwise nothing could be promised of a bucket
out of reach.

**Deadlock** is checked in every passing run but `components`; `Stopped` and `Rest` are the states in
which the program may really stay. The components of `components` do stop: a completion has been answered,
a prompt packed, an event decided, a training has used up its launches.

## 4. Proofs

`AuditWriterProofs` proves, for every `QueueMax`, `MaxEvents` and `MaxEnds` allowed by the assumptions:

- `WriterTypeOK`: `Spec => []TypeOK`, with the bound on the queue;
- `WriterOnePlace`: `Spec => []OnePlace`: an event is in exactly one place, once;
- `WriterImplementsTrail`: `Spec => ImplementsTrail`: the refinement of `AuditTrail`.

`OnePlace` is not inductive by itself. That `PutLands` puts an item that is not in the queue needs that
the ready queue, the line of puts, the queue, the consumer's hand and the outcomes are disjoint
for `None` and `Consumer` too; that `Start` adds the consumer to the ready queue once needs that
the entry is there exactly when `consumer = "ready"`; that `Stop` adds `None` once needs that it is
nowhere while `stopper = "idle"`; and so on. `IInv` is `TypeOK`, `OnePlace` and these facts about the
two special entries and about the marks of tasks; `WriterIInv` proves it inductive, one lemma per
action. For the refinement each action is a stutter (`SilentStep`: the pending set and the outcomes
do not change), an emission, a settlement of one pending event or an end; that a settled event
leaves `Pending`, and that nothing else does, is where `OnePlace` is needed.

The proofs use the assumptions `QueueMaxAssumption` and `BoundsAssumption` and the lemmas of
`SequenceFacts`, themselves proved from the definitions.


`TimescaleStoreProofs` proves, for all callers, decisions, payloads and bounds allowed by the assumptions
(the lifespan is none of the callers, and there is something to store):

- `StoreOnlyDemosLeavePools`: `StoreSpec => []OnlyDemosLeavePools`: what a process has open is the pool that
  `close()` will close and the pools of its demos, and after `close()` the latter are left;
- `StoreTablesTogether`: `StoreSpec => []TablesTogether`: a decision is in all three tables, once, or in none;
- `StoreTypes`: `StoreSpec => []StoreTypeOK`: no pool is in use that was not drawn (`PoolNumbers`);
- `StoreBackendsAgree`: `StoreSpec => []BackendsAgree`, and `StoreListsAgree` the same for every bound, limit and set
  of policies, not only those of `Queries`: the lists agree for a bound that names its zone, and for any other the
  SQL lists what the filter would list for the bound `LocalOffset` earlier.

`OnlyDemosLeavePools` is inductive only together with who can be where: `PoolInv` says that no caller is
anywhere unless the server serves, that a serving server has its pool, and hence that only the lifespan
ever finds none on that store, alone; whoever else creates a pool does so on a store of its own. That is the argument for the warm-up: `StartCold`, a lifespan without it, is the mutant. `TablesTogether`
needs that the commit of a caller adds a row that nobody has committed meanwhile: `TablesInv` says
that what a transaction has written follows from the statement it is at, that a row inserted by an open
transaction is not in the table and in no other transaction, and that `inserted` has no repetition (its
length is then the number of rows, `InjectiveCount`). `StoreIInv` proves `IInv`, types and both, inductive,
one lemma per action; `PoolKept`, `TablesKept` and `AdvanceStep` say once what most actions leave alone.
`BackendsAgree` needs one invariant more, `Clocks`: the time column of a row is the timestamp of its payload, which
`UpdatePayloadOnly`, the mutant, breaks. The rest is about lists: what is sorted is ordered strictly (no two rows
were saved at one place), the ranks in it are 0, 1, 2, ... (`Ranks`), and a list by ranks is sorted, repeats nothing and
leaves out only what comes after (`ListedFacts`).

`AuditWriterOrderProofs` adds what holds of the order, for the same constants:

- `WriterOvertakenOnlyByOverflow`, `WriterStopStrandsOnlyOverflow`, `WriterNoLostWakeup`: the three properties
  of these names.

Rows in order need items in order wherever they pass: `OInv` says (`Ordered`) that from the table to the consumer's
hand to the queue an earlier event is behind a later one only if it overflowed; that (`OverflowPuts`) what a task
puts has overflowed, so that whatever is put behind something is either the latest event or excused; that
(`BehindNone`) only overflow events are behind the sentinel, which is all that a consumer leaves; and that
(`WakeUps`) while puts wait in line, the woken ones and the items in the queue fill it. The last is what fails when
a woken put that expires does not pass its wake-up on.

`DecisionPipelineProofs` proves, for any number of requests, decisions, feedback items and process ends:
`PipelineTypeOK`, `PipelineNothingAheadOfTheRow`, `PipelineAnsweredIsComplete`, `PipelineNothingAfterStop` and

- `PipelineUsesTrail`: `Spec => Trail!TrailSpec`: the pipeline emits as the audit trail admits, each id once
  (`PipelineEmitsFresh`). With `WriterImplementsTrail` the two halves fit: what `AuditWriter` implements is what
  `DecisionPipeline` composes.

That a row is there before anything speaks of it needs that an id is drawn by one request only and not stored
before its save (`FreshIds`), that a request at its flag has done all the rest (`FlagsAreComplete`), and what the
order of shutdown leaves (`Stages`: no request outside `serving`, nothing waiting once the reflection loop has
stopped). `Counted` compares the counters of answers with the rows and the flags under way.

`ReflectionLoopProofs` proves, for every queue size, export size, batch limit and number of decisions and
crashes: `ReflectionTypeOK`, `ReflectionOneFate`, `ReflectionScoresMatch`, `ReflectionExportsPartition`,
`ReflectionStopDrains`, `ReflectionNoOverwrite`, and

- `ReflectionInOrder`: `Spec => []InOrder`: in the server (`served`) decisions are reflected in the order in which
  they were enqueued, until a batch from the store is called (`batches = 0` no more), which takes them in
  whatever order it likes. No part of the server calls one.

`IInv` adds who holds what (`Workers`), that the sentinel is the last of the queue (`Sentinel`: so `stop()` leaves
nothing behind it), the five fates pairwise (`Apart`), and that the versions of the export files are bounded by
what was processed (`VersionBound`). That scores and checkpoint agree through any exception holds because the code
between the awaits changes both or none. The order needs that the queue increases and continues what was
reflected, with the consumer's hand in between (`Follows`, `HandBetween`).

`ArtifactUploaderProofs` proves, for all files, base names, versions and kills, and **any number of uploaders
at once**: `UploaderTypeOK` and `UploaderSkippedIsStored`; and for one uploader at a time (`Uploader = {u}`)
`UploaderOwnContentOnly` and `UploaderNeverBack`. The first two need that no remembered state is ahead of the disk (`NotAhead`).
The other two need what the one uploader has in flight: its copy and the content under way are of the file in hand
and no older than what is stored (`OwnInFlight`), and the form is chosen anew for each file
(`PlainFirst`). Two uploaders that share a copy's name break both, which is why the theorems say `Uploader = {u}`.

`ComponentProofs` proves the properties and the types of each component of `MCComponents` but the store, whose theorems
are those above:

- bus: `BusOnceAndInOrder` and `BusNobodyStarves`. What a run processes lies in the queue before all that it may still
  get (`InOrderOfQueue`); what it has in hand nobody else has or had, Kafka apart (`OneTaker`); the Kafka partition
  is a member's (`Groups`): together `BusInv`. That nobody starves is a count: the events left on a queue are no
  fewer than those its runs have put there and are still to take (`Spare`). A run that dies gives up its share with the event.
- LLM client: `LlmReasonAccountsForItself`, from what each turn has raised and posted so far (`Underway`, `Ended`,
  `Requests`).
- context: `BudgetOvershootBounded`: what is kept and the budget left add up to the limit but for less than one token per
  part and two per protected segment cut (`Spent`); the bound of the property follows from it.
- gate: `GateLossBounded` and `GateFlagMeansLowConfidence`, from what each stage may still risk (`StageInv`).
- review: `ReviewReadersLoseOneEnd`: every row of a decision has its event, or a request is about to emit it (`RowsCounted`); the rest is the lemmas on
  ranks: if anything is cut off, the page is full.
- sync: `SyncMirroredUnlessSameSize`, from what a pass has settled so far and what the manifest may name (`PassInv`, `BucketInv`).
- training: `TrainManifestNeverAhead`, from which launch each file and checkpoint is of (`AdapterInv`,
  `CheckpointInv`).
- evaluation: `EvalEvaluationsApart`, from the sums of the two evaluations at each record (`Evaluating`, `PhaseInv`, `BenchInv`).

They are stated of the specification of the component (`BusSpec`, `LlmSpec`, ...), and so are the types (`BusTypesHold`,
`LlmTypes`, ...). Types are not all obvious: that a queue of the bus holds no more than the runs have to send needs that
every event is put there once, by a run that has counted it (`Posted`), and that what a run has in hand is on its queue
(`Bounds`); that a copy is no larger than its file ever gets needs what a pass that reads a file in the
middle of a write may store (`Trees`).

Three theorems are about the composition:

- `SideBySide`: a behaviour of `MCComponents` is, for each component, a behaviour of its specification;
- `ComponentsTypesHold`: `Spec => []ComponentsTypeOK`;
- `ComponentsSafe`: every other property that the run `components` checks, for every value of the constants.

The assumptions are those the modules declare, all of which TLC evaluates: sizes and limits are positive,
the sets of callers are finite where they are counted, an event has a positive price, names that stand for nobody
are nobody's, and the bounds of the models are natural numbers. None limits the number of anything.

A model that a theorem is about is written without recursion over data, since nothing is known to the provers of a
recursive definition: the prompt's length and the sum of audit scores are kept as running sums, lists that are sorted
and cut are defined by the rank of their elements (how many come before), choices of the best by the place of the
first of the largest, checkpoints by their places. Where the code loops, the definition says what the loop returns.

**Only model-checked.** Liveness (`StopEventuallyReturns`, `EventuallySettled`, `AnsweredEventuallySettled`, `TwoEventuallyStore`):
fairness is stated with ENABLED, which the prover does not handle. Every safety property that a passing run checks
is proved; `OwnContentOnly` and `NeverBack` for one uploader, where alone they hold. The runs that expect a violation have nothing to prove.

## 5. What the runs found

- `writer_stop`: a clean shutdown can strand an overflow event behind the sentinel; it is neither
  written nor counted. The passing property next to it, `StopStrandsOnlyOverflow`, shows that this is
  the only way: events that found room are settled.
- `uploader_final`: the signature remembered for a file is the one it has after its upload, so what was
  written meanwhile is never uploaded; the final pass skips it and reports success. `SkippedIsStored`
  shows that, with one uploader at a time, only such files are skipped wrongly (`torn`). Two
  uploaders at once have more ways to go wrong: the copy of one may be truncated by the other
  while it is put, an older version stored last, a file of the same base name stored under a foreign key. No
  property claims otherwise; `TwoEventuallyStore` is what remains true of them.
- `training_resume`: the checkpoint that `train.py` finds is passed on to where nothing reads it; a training
  that was killed begins at the beginning, where `TECHNICAL_SPECIFICATION_MODEL_LOADING.md` (line 591) says it
  resumes. `ManifestNeverAhead` is what its files still guarantee.
- `auto_flag`: `docs/human-validation.md` (line 31) and the docstring of `should_auto_flag` say that a CVaR
  breach flags a decision. The optimizer sets `cvar_impact` to 0 before the rule reads it, and the CVaR of an event is
  0.03 whatever the event: neither CVaR rule can fire. An aggressive policy sells with an impact of 0.06,
  and nothing is flagged. `FlagMeansLowConfidence` is what the auto-flag does.
- `export_from`: the documented `from=` of the export (`docs/audit.md` line 10, sent by
  `tests/integration/test_audit_api.py` line 67) is ignored, because the parameter is called `from_`. The
  test passes since its one event is not before its bound. `ExportLosesOnlyNewer` says what each way to hand it over gives.
- `comparison`: the comparison before and after a training is documented as a measurement of decision and
  reflection quality (`docs/benchmarks/pre-post-comparison.md` line 3; `TECHNICAL_SPECIFICATION_MODEL_LOADING.md`
  lines 540-556 show both metrics rise). Pass rate and reflection quality are computed from the records alone and
  cannot change. `EvaluationsApart` is what its two evaluations do guarantee, and that the audit score moves by a constant.

Noted while modelling, without a run: `docs/architecture-overview.md` draws the audit before the
persistence (the code stores first, which `NothingAheadOfTheRow` relies on); the names of export
files restart with the process, so a restarted server overwrites earlier exports
(`NoOverwriteInProcess` is about one process for this reason); `tests/integration/test_reflection_loop.py` (line 46) expects `last_summary.processed` to be 1 or more
after `drain_all` of five decisions, but only a full batch of ten fills it, and less than a batch is never
exported, by `stop()` neither; `/bootstrap-demo` stores decisions without audit events (`demos`); the counters that `docs/monitoring.md` describes in the same words (lines 17
and 28) part when the auto-flag of a stored decision raises.

About the other components, likewise without a run:

- Gate: the synthetic CVaR is 0.03 for every event with a volume that is not negative, so the effective limit is 0.03.
  With a search the reasoner's
  proposal is ignored, and an event of volume 0 is decided as a BUY of size 0. `RiskGatedPolicy` scales after its own
  check, and its proposal does not pass the gate again (the exception in `LossBounded`). `ToolAwarePolicy`
  can only hold in `process_one`.
- LLM: the mock's text has a score of 0.8 when it comes through a Ray Serve set up to be mocked, and
  0.55 otherwise; `CustomAdapter` falls back to the mock without a warning.
- Bus: a bootstrap that dies leaves its events to the next one on a shared list; no bootstrap closes its bus.
- Review: bounds of an export in a zone other than UTC are compared as text and select a wrong range; an
  upper bound without a zone excludes its own moment.
- Sync: a dry run overwrites the manifest of the bucket; a file rewritten in its size is not copied again
  before midnight (`MirroredUnlessSameSize` allows for both).
- Training: `train.py` swallows a SIGTERM that comes before it has a child.
- Evaluation: `max_cvar_breach` of a benchmark case is never read; a comparison overwrites the runtime exports of a server in its
  directory (`EvaluationsApart`).
- Store: every `/bootstrap-demo` leaves a pool open (`OnlyDemosLeavePools`), and a `since` without a zone means another
  moment to Timescale than to the other stores unless the process runs on UTC (`BackendsAgree`).

## 6. Not modelled

- Numerical code that no decision reads: game theory, uncertainty, the vectorized environment, the
  position size, the rationale of the tools. What decisions do read (CVaR, drawdown, tail loss,
  rewards) is exact in scaled integers in `DecisionGate`.
- The training proper (transformers, GPU back ends, Ray), data cards and their formats, quality and
  analytics, dashboards, migrations, command-line wrappers, `train_example.py`: input and output, or a
  library's.
- `runpod/disk_manager.sh` and the thread of `train.py` (lines 48-58) that syncs when the disk fills: what
  they call is modelled (`ArtifactUploader`, `TransferSync`), when they call it is not. `TransferSync` has one pass
  at a time: a pass of that thread may overlap one of `sync_daemon.sh`, which no property here speaks of. Nor
  are the remote directories modelled that `ftp_sync.py` (lines 33-44) creates on its way.
- What nothing in the server calls: `drain_events` and `close` of the buses, `aclose` of the adapters.
- `rada.models.resolver`, which the code imports and the repository does not contain.

HTTP, SQLite, Postgres, Kafka, Redis, transformers and asyncio are modelled from how the code uses
them. The bounds `MaxEvents`, `MaxDecisions`, `MaxBatches`, `MaxFeedback`, `MaxEnds`, `MaxVersion`,
`MaxKills`, `MaxPools`, `MaxLosses`, `MaxBusFaults`, `MaxRows`, `MaxClock`, `MaxWrites`, `MaxDay`,
`MaxCuts` and `MaxLaunches` are of the models, not of the code.

## 7. Plan

What is left, in this order:

1. The hazards that no property covers yet: the checkpoint that counts an outcome the store does not have
   (`reflection_loop.py:205`), the batch that takes what was reflected before (`reflection_loop.py:158`), passes
   of `ftp_sync.py` that overlap (`train.py:48`).
2. An abstract specification of the reflection loop (each decision is enqueued, then reflected or lost), implemented by
   `ReflectionLoop` and used by `DecisionPipeline`, as `AuditTrail` is between the writer and the pipeline.
