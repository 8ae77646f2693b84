# A verification model of RobustPM

TLA+ modules, TLC configurations and TLAPS proofs for the services under
`src/predictive-maintenance/`. `PROJECT.json` maps every definition to the lines
it models; this file says what the parts are, what is modelled, and what the runs
and the proofs show.

## 1. The system

Sensor readings flow through Kafka and TimescaleDB:

    data_generator / data_loader -> raw_sensor_data -> stream_processor
      -> sensor_readings, engineered_features (TimescaleDB) and processed_features
      -> inference_service -> predictions (TimescaleDB) and failure_predictions
      -> alerting -> alerts (TimescaleDB), e-mail, Slack, webhook
    ml_pipeline -> MLflow registry -> inference_service (polls for a new Production model)

| Component | State it keeps | Operations | Interacts with | Hard behaviour | What makes it correct |
|---|---|---|---|---|---|
| TimescaleDB writer (`stream_processor/writer`) | two row lists, a connection pool | append a row, flush a list, `flush_all`, `close` | called by all the stream processor's threads, unlocked | overlapping flushes, failures between insert, commit and clear | a row is in its list or once in its table; no connection leaks; calls return |
| Stream processor (`pipeline.py`, `main.py`, `consumer`, `publisher`) | bounded queue, `running`, Kafka offsets, statistics | consume, validate, write, extract, publish, periodic flush, `stop` | Kafka client, writer, producer | five threads, signals, shutdown, crash and redelivery | no message is dropped or stuck; what a clean stop drained is stored; no row is repeated but by a flush that overlaps another or never cleared its list |
| Alert engine (`alerting`) | cooldowns, active alerts, aggregation buffers, `alerts` rows | evaluate, buffer, flush, notify, acknowledge, resolve | Kafka thread and API event loop share one manager | unlocked cooldowns, lock held through database retries, timer-less window | alerts are not duplicated or lost, rows follow alerts, nobody hangs |
| Model serving (`inference_service/models`, `api`) | loaded models and versions | load, poll, reload, predict | polls the MLflow registry; request handlers read while it writes | non-atomic publication of model and version, failed reloads | a prediction names the model that made it; the promoted model is served |
| Prediction pipeline (`inference_service/consumer`) | Kafka offsets, loop flag | consume, predict, publish, persist | Kafka, model manager, database | automatic commits, one of two effects failing | no prediction silently lost beyond what the commit mode allows |
| Inference requests (`inference_engine.py`, `api/main.py`) | none but the models | predict, batch, health, train | model serving | a scaler nobody fits, names of classes by position | a class is named as it was labelled |
| Model lifecycle (`ml_pipeline/retrain`, `scheduler.py`) | registry stages, last check, drift reports | detect drift, retrain, compare, promote, roll back | registry, model serving | failure between two registry calls, a comparison overtaken by another promotion, choice of the version to restore | at most one Production version; only a better model is promoted; rollback restores the previous one |
| Training (`ml_pipeline/train`) | MLflow runs, versions, files | split, train, evaluate, register, cross-validate, search | MLflow, feature store | a failure in any step of a run, labels that fit no report | runs end, files come before versions, no fold is scored on what it was fitted on, the best trial is kept |
| Data generator (`data_generator`) | cycle, remaining life and failure of each machine | generate, inject, publish with retries | Kafka | refused, lost, repeated and reordered sends while the life counts down | the remaining life in a reading bounds the readings that follow |
| Data loader (`data_loader`) | position in a data set | load, stream all engines or one, replay | Kafka | late confirmations, replay | stamps tell readings apart and follow the cycles |
| Feature store (`feature_store`) | feature table, Redis cache, labels | label, upsert, cache, fetch windows | database, Redis | frames sorted by time against labels listed by machine, failures between table and cache | no label promises more cycles than a machine has run; windows hold one machine |
| Robustness (`robustness`) | autoencoder and thresholds, in memory and in files | fit, save, load, score, weigh, predict | model manager | a save or a fit that breaks off, an older calibration beside newer weights | a monitor that warned it would raise does; channel weights are fair |
| Evaluation, benchmarks | files | measure, report | MLflow | none: sequential and numerical | outside TLA+ |
| Dashboard, infra, shared | none of their own | render, deploy, log | all | none | outside TLA+ |

## 2. The modules

| Module | Models | Kind |
|---|---|---|
| `BatchStore` | what one table of the writer promises | abstract specification |
| `TimescaleWriter` | the writer, step by step | detailed; implements `BatchStore` up to the first disturbance |
| `StreamProcessor` | the threads of the stream processor and their calls of the batch writer | composition |
| `AlertEngine` | `AlertManager`, `AlertRuleEngine`, `DatabaseNotifier` under their two threads | detailed |
| `ModelRegistry` | `DeploymentManager` over the MLflow registry of one model | detailed |
| `ModelServing` | `ModelManager`, its poller and its readers, beside `ModelRegistry` | composition |
| `PredictionFlow` | `KafkaPredictionPipeline` and `KafkaAlertConsumer` on the two topics they share | composition |
| `Labels` | the labels of a reading | pure operators |
| `FeatureStore` | `FeatureStorePipeline` with its labels, table, cache and windows | detailed |
| `Training` | `TrainingPipeline` and its MLflow runs | detailed |
| `ModelSelection` | cross-validation and the hyperparameter searches | algorithms |
| `Retraining` | `RetrainingPipeline` above `ModelRegistry` | composition |
| `DataGenerator` | the simulated machines and their publisher | detailed |
| `EngineStreamer` | `CMAPSSKafkaStreamer` | detailed |
| `Scaler` | the scaler every prediction goes through | pure operators |
| `InferenceApi` | `InferenceEngine` and the requests for predictions, health and training | detailed |
| `SensorHealth` | `SensorHealthMonitor`, `RobustInferenceEngine` and its endpoint | detailed |
| `MCTimescaleWriter`, `MCStreamProcessor`, `MCAlertEngine`, `MCModelServing`, `MCComponents` | instances for TLC | |
| `TimescaleWriter_proofs`, `StreamProcessor_proofs`, `ModelRegistry_proofs`, `ModelServing_proofs`, `PredictionFlow_proofs`, `AlertEngine_proofs`, `FeatureStore_proofs`, `Components_proofs` | theorems and proofs | |

`TimescaleWriter` has every step of a flush for any callers; `StreamProcessor` has the callers,
and of a flush the steps that let two of them overlap: the test of the list, the insert with its
commit, the clear. What it leaves to `TimescaleWriter` are the connections, the pages of an
insert, and a row appended between the last page and the commit, so that a row appended before
`Insert` is inserted and one appended between `Insert` and `Clear` is not.

**TimescaleWriter.** `buffer` is the two lists, `db` the committed copies of each
row, `free` the pool, `pc`/`todo`/`cursor`/`txn` a thread's place in a call:
which list it flushes now and next, how far `execute_values` has iterated, what its
transaction inserted. An action is what runs between two points where another thread
can take over: `WriteRow` (append), `TestRoom` (the length test), `TestEmpty`,
`Connect` (`getconn`), `InsertPage` (a page of the *live* list), `Commit`, `Clear`,
`DatabaseFails`, `Rollback`, `Release` (the `finally` block), `CloseAll`. `seen` and
`disturbed` are history: what a flush saw when it began, and which table had an
overlap or a commit that took effect and was reported as failed.

**StreamProcessor.** `Poll`/`Put`/`ConsumerEnds` are `consume` with its callback, the
`Take` ... `TaskDone` actions are a worker going through `process_message` with each
of its exits, `WriterChecks`/`WriterFlushes` the writer thread, `Signal`, `Join`,
`FinalFlush`, `FlushProducer`, `CloseWriter`, `ClosePool`, `CloseProducer`, `Leave` are the signal
handler and `stop()` in their order, `Restart` a crash at any point and the next
process. A message is one of four kinds: complete, without features, incomplete,
or one the Kafka client cannot deserialize (which ends the loop of `consume`).

A call of the writer is a state of its thread: `call` says where it is and `list` which of the two
lists it is at. `Check` is the test of the length, `Insert` the insert that commits, `InsertFails`
one that fails, before the commit or after it took effect, and whose rollback may raise as well;
`Clear` empties the list, whatever it holds by then. Workers, the writer thread and the main
thread take these steps in any order, as nothing locks the lists, so two flushes of one list can
both insert its rows, and a clear can drop rows of another thread. `late` (rows appended to a
list another thread was about to clear), `here` (rows this process stored) and `uncleared`
(rows a flush stored and never came to clear) are history. `StoredAgainOnlyUncleared` says that
these two, an overlap or a missing clear, are the only ways in which one process stores a row
twice: nothing in the queue, the workers, the retries or the shutdown adds another.

**AlertEngine.** Two threads, `consumer` and `api`. `Receive`, `CheckRule`,
`Trigger`, `EndEvaluation` are `process_prediction` up to the buffers; the check and
the start of a cooldown are two steps because nothing locks them. `BufferAlerts` is
what happens under `_agg_lock` before the sending, `Snapshot`/`Execute`/`Retry`/
`GiveUp` the database notifier, with the lock still held; `Acknowledge` and `Resolve`
change the object and then update the row. `job.seen` and an alert's `seen` record
which alerts existed when a rule's cooldown was read; `covered`, `lastFlush` and
`stale` are history. `Trigger` may start a cooldown without an alert: when a maintenance window
suppresses it, or when its message names a field the prediction lacks, and `create_alert` raises
after `last_triggered` was set. Incident mode, off as shipped, silences a rule as a window that
never ends does. A request for an id no alert in memory has updates its row and is answered 404
(`alerting/api.py:286`); such a row is of an earlier process, whose rows are left out.

**ModelRegistry.** `stage` is the registry, `at`/`previous`/`candidate` a deployer's place
and locals in `promote_to_production` (`BeginPromotion`, `Register`, `Archive`,
`Transition`) or `rollback_to_previous` (`BeginRollback`, `PickArchived`, `Transition`).
Every registry call is an action, because other deployers and the service run between
two of them, and may raise before or after it took effect. `last`, `before` and
`abandoned` are history. Registration is bounded by `MaxVersions`: a promotion begins
only if a version is left for it.

**ModelServing.** `models` and `meta` are `_models` and `_model_metadata`, written by the
threads `api` (startup and reload requests; handlers do not await, so they run one at a
time) and `poller`, read by `api` and `kafka`. `LoadModel`, `Lookup`, `SetModel`,
`SetMeta` are the four statements of `_load_from_mlflow`; `LoadFails`, `LoadLocal`,
`LocalMeta` the fallback; `Predict` and `Answer` the two reads of a prediction. One
configured model is modelled, since models share nothing but the poller's loop. Its
three keys, under which it is stored from the registry, stored from a file and read by
requests, come from `Layouts`: the two that ship and one where they agree, without
which no request would ever see a registry model. The registry is the one of that
model: the shipped deployment configuration names another
(`predictive_maintenance_model`, which the inference configuration does not serve), so
the composition is what the documents describe rather than what the two files
together do. `torn` and `overlap` are history: what the code does not exclude.

**PredictionFlow.** Two services run the same loop: `Connect`, `PollBatch`, the steps of a
message, `Advance` to the next one, `Exit` when the flag is down between two batches.
For the pipeline a message is `PassOver`, or `Predict`, `Publish`, `Persist`; for the
alert engine it is `Evaluate` (what happens inside is `AlertEngine`). `fed` counts the feature
messages that have arrived, `predicted` is `failure_predictions`, `outbox` the buffer of the
producer and `Deliver` its sender thread; `committed` and `position` are what the Kafka client
keeps for a group, which commits on its own in a poll or a close. `Shutdown`, `JoinThread`,
`CloseConsumer`, `CloseProducer`, `Quit` are `stop()` of the pipeline in the API's lifespan, and
the signal handler of the alert engine, which joins nothing. `clients` is what the pipeline
has beside its consumer: the producer and the pool are tried once and may stay `None`.
`Crash` ends a process anywhere and `Start` starts the next one. Within one poll the
messages come in topic order, as with one partition. `handled`, `cut` and `fromEnd` are
history.

The scaler of the engine (`Scaler`) is one more choice: the API makes a standard scaler that nothing
fits (`inference_engine.py:39`, "Will be loaded from saved scaler"), so that preprocessing
raises and every message is passed over (`ShippedFlowPredictsNothing`, proved). The run
therefore sets `Normalization` to "minmax", where the rest of the pipeline has work.

**FeatureStore.** `ProcessBatch` takes a stretch of the readings in the order of time,
`InsertFeatures` is the upsert, `CacheLatest` the cache of the latest row of each machine,
`Expire` the time to live. Labels are computed in the order of the groups and assigned by
position, as the code does, so a row can get the label of another one; `misplaced` is the history
of the rows that did. Only labels are modelled, not the features of a row: lags and rolling values
read rows of other machines, `cycle_normalized`, `cycle_bin` and the frequency features read rows
that come later (`time_series_features.py:215`, `frequency_features.py:84`), and no label depends
on a feature.

**Training.** A script of steps for each kind of model between `StartRun` and `EndRun`; each
step may fail, and `CanDo` says which steps the data alone makes fail. A machine is the
number of its cycles, which is what splits, windows and labels depend on.

**ModelSelection.** The folds as sets of rows, `ScoreFold` as one fit and score of the model
that all folds share, `Trial` as one trial of a search.

**Retraining.** `phase` is where each pipeline is; `Check` or `Trigger`, `Train`, `Compare`,
`Deploy` and the steps of `ModelRegistry` follow one another, with other deployers between
any two, and `Kill` ends a process anywhere. A model is its score on the test rows.

**DataGenerator.** `BeginRound`, `GenerateAndPublish` for each machine, `EndRound`, `Signal`,
`Close`; `Send` is the producer's thread, whose outcomes the caller never learns.

**EngineStreamer.** `SendRow` with the outcomes of a confirmed send, `Pace`, `Restart`,
`CloseStream`; `late` are readings whose confirmation was given up and that may still arrive.

**InferenceApi.** One action per handler; the models come and go (`ModelsChange`).

**SensorHealth.** Weights are numbered as they come to be, so that thresholds can be compared
with the weights they were derived from, in memory and in each directory. `Save` leaves an older
threshold file where the monitor has none, and `Load` the thresholds of the monitor where the
directory has none; `warned` remembers that it then logged that scoring would raise.

**MCComponents.** The last nine, from `PredictionFlow` on, share no state while they run, so one
run holds them all: `part` says which of them takes its steps, and the others stay as they start. Its state space is the
sum, not the product, of theirs.

## 3. What the runs check

| Run | Shows |
|---|---|
| `writer` | two workers and a flushing thread, two connections, a failure anywhere: types, `PoolAccounting` (no leak, no double return), `LossNeedsOverlap` (a clear drops nothing its flush saw), `ExactlyOnceUndisturbed`, refinement of `BatchStore` (`StoreUndisturbed`), `CallsReturn`, `BufferDrains` |
| `writer_loss` | **violated**: a row appended between the last page and `clear()` is dropped |
| `stream` | one process from start to shutdown, every kind of message, two signals, one failure: `TaskAccounting` (what `join()` waits on), `NoMessageDropped`, `CleanStopStores` (nothing drained is missing but rows appended to a list another thread was about to clear), `StoredAgainOnlyUncleared` |
| `stream_restart` | a failure and a crash at any step: `NoMessageStuck`, and `SkippedOnlyAfterLoopEnded`: a message is skipped only by a crash after the loop of `consume` had ended and committed what was in flight |
| `stream_join` | **violated**: workers leave on `running == False`, so `join()` in `stop()` can wait for ever |
| `alerts` | two threads evaluate three predictions, an operator's request, one failed statement or message: `CooldownNeedsOverlap`, `AlertConserved`, `RowFollowsAlert`, `NotificationsSpaced`, `CallsReturn` |
| `alerts_buffer` | **violated**: only another alert of the equipment flushes an expired buffer |
| `serving` | two deployers and the service from startup, a failed registry call, a reload, predictions: `OneProduction`, `GapNeedsPromotion`, `MetadataNamesModel`, `PredictionNamesModel`, `KeepsServing`, `MetadataFollowsRegistry` |
| `serving_keys` | **violated**: a promoted version is loaded under a key no request reads |
| `components` | each of the nine components of `MCComponents` on its own, and all types: `ReadersNotMisled` (labels, windows and failure marks of the store), `MeasuredForestNeverRegistered`, `LabelBoundsReadings`, `StampsTellReadingsApart`, `WeightsAreFair` (channel weights), `OutageIsPermanent` and `PromotedBeatsChampion` (retraining); of the two consumers, with two feature messages, a crash, a shutdown and a failed call, `CommittedHandled` (no message below a committed offset is unhandled, but for a start at the end of the topic or a shutdown within a batch), `RowsNeedCrash` (a clean restart stores nothing twice), `StoredArePublished`, `BacklogHandled` |
| `health_warning` | **violated**: `load` warns that scoring will raise until `fit` is called, and a monitor that had thresholds keeps them and scores |
| `rollback` | **violated**: a rollback restores the highest archived version, not the one that was replaced |

The disagreements are in `PROJECT.json` under `findings`, with the lines they concern.

Some hazards are cases the code allows, and no document denies: a status request that overtakes
an insert, alerts of one second, torn reads of model and version, a consumer closed within a
batch, one of publishing and storing failing alone, labels that fall on rows of other machines, a
comparison overtaken by another promotion. The properties except exactly these, by history
variables that say when they happened, and show that nothing else breaks the promise.

### Bounds

All unbounded counters are bounded by constants named `Max...` in guards.
`TimescaleWriter`: 2 rows (3 for the loss), `BatchSize` 2, so a full and a partial page
occur; 3 threads on 2 connections, so the pool is exhausted; one failure, because a
second one only repeats the same retry. `StreamProcessor`: a queue of 1 blocks the
consumer, 2 workers race for it, and with the writer and the main thread three or four threads
can be in a flush of one list; batches of two, one message of both tables and one of the first, so
that a list fills and also waits for the timer; two signals, because the handler can interrupt
`stop()` once and later signals do the same; one failure (5.0 million states, the largest run).
The restart run has one worker, a message that is rejected, one that is stored and one that ends
the loop of `consume`, one crash and one failure, and every append fills its list. `AlertEngine`:
one equipment (buffers and cooldowns of different equipment are independent but for the lock, which two threads
contend for anyway), two rules of different severity and cooldown, a window of one
tick, three ticks, a maintenance window over the first tick, two attempts, one
failure, one operator request. The clock has the resolution of the alert ids; a
cooldown or window of hours is one or two ticks, since only the order of expiry and
arrival matters. `ModelServing`: two deployers, two versions and one rollback, so promotions
and a rollback overlap each other and every step of a load; one failed call, one reload
and two predictions, so both reading threads can be under way at once. The rollback
needs three versions and two rollbacks to pick the wrong one. `PredictionFlow`: one message
that is passed over and one that is predicted for, and batches of up to two; the second service reads duplicates a retried
send produces, so its batches fill as well; one crash, one shutdown and one fault may hit
either service at any step. (Three messages, 1.9 million states, show the same.)
`FeatureStore`: two machines, four readings and two batches let a frame mix machines and be
processed again; labels of five cycles with early life at two keep the shipped proportion
(300 and 125); seven machines are the fewest the 70/15/15 split gives a validation and a test
set; seven samples, five machines and two splits leave a remainder
in every fold; two retraining processes, three versions and one failure and kill, so that a
comparison can be overtaken; two machines, three rounds and one fault of the producer; two
engines of two cycles, two passes, one slow and one late send; two sensors, two weights
and two directories.

### Fairness

Weak fairness on the continuing steps of each thread: an operating-system thread that
can run does, and each database or Kafka call ends in success or failure (drivers
raise on timeouts). The writer thread's five-second timer makes `FlushAll` weakly
fair, and the clock of the alert engine ticks. The poller of `ModelManager` wakes every
minute and its calls end; deployers owe nothing. In `PredictionFlow` the loops, a shutdown
under way and the producer's sender thread go on; it is the only part of the `components` run
that assumes any. A crashed process need not come back. Nothing forces a new message,
prediction, request, signal, crash or failure to happen. No strong fairness is
assumed; for `_agg_lock` weak fairness is enough because the other thread runs out of
predictions. Deadlock checking is off: a stopped process stays stopped, and
used-up bounds end a behaviour; that no thread hangs is what `CallsReturn`,
`NoMessageStuck` and `JoinReturns` say.

## 4. What is proved

TLAPS proves, for every number of threads, rows, messages and every bound:

* `TimescaleWriter_proofs`: `TypeCorrect`, `PoolAccounted`, `LossNeedsOverlapAlways`,
  `ExactlyOnceAlways`, and `ImplementsBatchStore`, the refinement of `BatchStore`.
* `StreamProcessor_proofs`: `TypeCorrect`, `TasksAccounted`, `NothingDropped`,
  `CleanStopAlwaysStores`, `StoredAgainAlwaysUncleared`, `NeverCommittedInLoop`, `SkippedAlwaysByCrash`,
  `CallsAsStoreExpects`.
* `AlertEngine_proofs`: `EngineTypeCorrect`, `CooldownAlwaysNeedsOverlap`,
  `AlertsAlwaysConserved`, `RowAlwaysFollowsAlert`, `NotificationsAlwaysSpaced`.
* `ModelRegistry_proofs`: `RegistryTypeCorrect`, `OneProductionAlways`,
  `GapAlwaysNeedsPromotion`.
* `ModelServing_proofs`: `ServingTypeCorrect`, `MetadataAlwaysNamesModel`,
  `PredictionAlwaysNamesModel`, `AlwaysKeepsServing`, `OneProductionBesideService`,
  `ServiceOnlyReads`.
* `FeatureStore_proofs`: `StoreTypeCorrect`, `ReadersNeverMisled`.
* `PredictionFlow_proofs`: `FlowTypeCorrect`, `CommittedAlwaysHandled`, `RowsAlwaysNeedCrash`,
  `StoredAlwaysPublished`, `ShippedFlowSilent`.
* `Components_proofs`, component by component: `GeneratorTypeCorrect`, `LabelAlwaysBounds`;
  `StreamerTypeCorrect`, `StampsAlwaysApart`; `InferenceTypeCorrect`, `ShippedApiSilent`,
  `NamesAlwaysFollowCodes`; `SelectionTypeCorrect`, `FoldsAlwaysApart`, `NeverScoredOnSeen`,
  `SearchKeepsBest`; `HealthTypeCorrect`, `WeightsAlwaysFair`;
  `TrainingTypeCorrect`, `TrainingsAlwaysEnd` and, for labels like the shipped ones,
  `MeasuredForestUnregistered`; `RetrainingTypeCorrect`, `OneProductionBelowPipelines`,
  `PipelinesMoveByRegistry`, `OutageAlwaysPermanent`, `PromotedAlwaysBetter`. And of the run
  that holds them all: `PartsRunAlone`, `ComponentsTypeCorrect`, `PartsKeepPromises`.

So every invariant and every action property of a passing run is a theorem; what is left to TLC
is liveness.

They rest on the named assumptions of the modules (finite sets of threads and deployers,
positive sizes, bounds that are numbers, a sequence of messages), which TLC evaluates on
every run of those modules.

*The writer.* `WriterInv == SafeInv /\ SeenInv /\ AloneInv`. `SafeInv` adds to the types
the shape of a call (`CallOK`: what `todo` can be at each `pc`), without which `Release`
might return a connection nobody took, and the pool equation. `SeenInv` relates a
flush's `seen`, `cursor` and `txn`: as long as the list has not been cleared under it,
the transaction holds at least the rows seen at the start; if it has, those rows are
already committed. So `Clear` can drop only rows beyond `seen`. `AloneInv` says that in
an undisturbed table one flush at most is active and its transaction is exactly the
prefix of the list it has read, whence commit followed by clear moves every row once;
each step of the writer is then a step of `BatchStore` or a stutter.

*The stream processor.* `ProcessorInv` is types, the shape of queue and workers, and the
equation of `unfinished_tasks`. `StopInv` adds `NoMessageDropped` and `StoresOK`: for each
stage of the shutdown which messages are drained, that every handled message has its
rows in `pending`, in `stored` or among the `late` ones, that a list being cleared holds nothing but
stored and late rows, and that once the final flush has run without a failure nothing drained is
pending. One lemma per group of actions shows each conjunct kept.

`OnceInv` is the argument about repeated rows. A message is in one place, the log ahead of the
position, the hand of the consumer, the queue, or one worker, and in the queue once (`OnePlace`); a
message still on its way has no row in the list or the table of this process, and a row that is
still in its list after it was stored is about to be cleared or was stored by a flush that never
came to clear it (`RowsOK`). So an insert repeats a row only in these two cases, and failures,
overlaps and signals are all in it.

That a message is skipped only by a crash (`SkipInv`) rests on where a process starts: what is in
flight was read since, from `startAt` on, and while `consume` runs `committed` is still
`startAt`, so nothing in flight is below it; only the `finally` block of `consume` moves it past.

`TimescaleWriter` and the processor meet in `BatchStore`. `ImplementsBatchStore` is the promise
of the writer to a caller that hands each row over once; `CallsAsStoreExpects` says that the
processor is such a caller until a restart brings messages back: a row joins a list only if the
process has neither stored it nor had it dropped, which is an `Accept`. What it does with the lists
then, with overlaps and misreported commits, is no longer `BatchStore`'s, in either module.

*The alert engine.* `Typed` adds to the types what each place of a call holds (`Shape`).
*Timed*: no cooldown starts later than the clock or earlier than an alert it has led to, and a
rule about to trigger is past the cooldown of every alert its check had seen, so an alert made
within an earlier one's cooldown had its rule checked before that one was made. *Apart*: no
alert is held twice among the findings of the calls, the buffers and the groups that have left
them. *Placed*: every alert is in one of these, with the right machine, whence the
sum of the cardinalities is one. *Written* says which status a row has at each step of an
insert, a retry and an update, and *Spaced* relates a buffer's window to the last flush. That
two alerts with one id have a first one uses the least-number principle, from the
well-foundedness of the naturals.

*The registry.* `RegistryInv` adds to types and properties `KnownRegistered` (a deployer
never holds a version that does not exist) and `Room` (each promotion about to register
has a version left), without which the version a promotion moves might not exist. A
transition leaves exactly its version in Production, every other step leaves Production
as it is or smaller, whence one Production version; only `Archive` empties it, and puts
its deployer where the gap is excused.

*Retraining.* An outage lasts because every way to a transition passes through `Compare` or
`BeginRollback`, which need a Production version; a promotion beats the champion because
between comparison and transition either nobody moved Production (then what is archived is the
version compared with) or `overtaken` says so. `ServiceOnlyReads` and `PipelinesMoveByRegistry`
tie the two compositions to `ModelRegistry`: each step that moves the registry is one of its
steps, or the death of a deployer.

*The service.* `TypeInv` carries `RegistryInv` and `Carries` (a thread past a load holds a
model), which gives `AlwaysKeepsServing`. `AgreeInv` says of an untorn service that one
thread at most is between its two writes (`OneWriter`), that what it has written is what
it is about to describe (`WroteModel`), that every other key agrees with its metadata
(`KeysAgree`), and that a prediction nobody wrote into still uses the model its key has
(`UsesPresent`). The lemmas `ModelWritten` and `MetaWritten` treat the two writes once for
loads from the registry and from a file.

*The consumers.* `FlowTypeInv` is the types with the order of the offsets: `committed` and
`next` never pass `position`, nor `position` the end of a topic. `HandledBefore` says of a
service that skipped nothing that all before `next` is handled and that `committed` is not
beyond `next`: between polls the two meet, so an automatic commit is safe wherever the loop
is, and a restart goes back to a handled prefix.

`RowsPaid` is about the pipeline alone: a message it may still store (`Pending`: from the
committed offset on when it starts again, from the message it is at otherwise) has at most as
many rows as there were crashes and failures; once a shutdown is past `join` either the loop
has ended with its whole batch, or the failure that let `join` give up already pays for what the
thread still stores. `Equipped` and `Matched` relate rows and predictions while nothing failed: a
shutdown then waits for the loop, so the producer is open whenever the loop sends.

*The components.* The remaining life of a machine and the readings it has sent sum to at most
what a reading promised, whatever sends are refused. Stamps increase with the cycle within a
pass, and a pass starts later than any stamp of the last one. Fold bounds are products, which
are ordered by the number of the fold. A label is at most that of early life, so that below
half of `MaxRul` two classes at most exist, never the four the report names.

*The feature store.* A frame is put in groups by the number of rows that come before each
(`Rank`). `InOrder` shows that each place is taken by exactly one row, so that the grouped order
lists the frame once each, machines in turn and cycles ascending; a frame in groups is its own
grouped order. `StoreInv` says of every label in the table or the cache that it promised no more
than the cycles its machine has run since, unless its row was `misplaced` (`Honest`): more readings
only give a machine more cycles. A window of training data is then a stretch of the order of one
machine, and a row of the table between two of its rows would have a place between theirs.

*Sensor health.* The weights of the channels come from a sum over the sensors, the fold of the
community modules. `SumsExist` and `FoldIsSum` give the fold its recursive equation on all
subsets, and `SumBounds` bounds it by its terms: with scores floored at `MinWeight` a channel
keeps at least its share, equal scores weigh equally, and a degraded sensor weighs less than a
sound one. `MonitorInv` is the bookkeeping of the weights in memory and in each directory,
`EngineInv` says that the engine keeps to an LSTM that was loaded.

*The parts together.* A step of `PartsSpec` is a step of one component and leaves the variables of
the others alone, so that the run implements each specification (`PartsRunAlone`), and whatever
is proved of one alone holds in it.

Sorting, sums and the highest of some numbers are inductions over data. They are done without an
induction theorem that takes an operator: a least counterexample exists (`LeastNat`, from the
well-foundedness of the naturals) and is refuted.

Only model-checked: liveness under fairness and everything with ENABLED (`CallsReturn`,
`BufferDrains`, `NoMessageStuck`, `JoinReturns`, `BufferedAlertsSent`,
`MetadataFollowsRegistry`, `PromotedModelServed`, `BacklogHandled`).

## 5. What the code does that no run shows

Facts met while modelling that need no state space, most of them because the code path ends
before anything interesting happens:

* The scaler of the shipped inference engine is never fitted (`api/main.py:169`), so the API and
  the pipeline answer no request with a prediction, against `docs/expected-behaviour.md:230`
  (`ShippedApiSilent`, `ShippedFlowSilent`).
* `pipeline.py:251` returns `None` to a consumer that commits only after a true result
  (`kafka_consumer.py:85`): nothing is committed while the loop runs (`NeverCommittedInLoop`).
* The generator's messages carry `sensor_readings`; the stream processor reads `sensor_data`
  (`pipeline.py:165`). The two are modelled each with the messages it expects.
* The retraining modules import one another by bare names (`retrain_pipeline.py:21`), so that
  neither `scheduler.py:42` nor `POST /train` (`api/main.py:622`) can import the pipeline: the
  request is accepted and nothing is trained, against `docs/expected-behaviour.md:389`.
* A training run of the retraining pipeline logs no model as shipped (`LogsModel`), and
  `deployed` is reported even when the promotion failed (`retrain_pipeline.py:177`); its t-test
  decides nothing.
* `GET /health` counts a model under a key no request reads, and a stopped pipeline as unknown.
* Class names meet probabilities by position (`ReportedAs`), so a forest with fewer than four
  classes reports them under other names, and an unknown class as an imminent failure.
* A monitor saved without thresholds leaves an older threshold file in its directory
  (`sensor_health_monitor.py:441`), with which the next process measures the errors of other
  weights.
* `feature_store` caches only the last row of a machine, whose label is always 0 in the frame it
  comes from; `cycle_normalized` divides by the last cycle, which gives the label away; lags and
  windows run across machines.
* The health boundaries differ: percentages in the labels, 100/50/30 in the service, 100/50/10 in
  the robust engine, 60/30/15 in the documents. The robust engine keeps the LSTM it found at
  startup.

## 6. What is not modelled, and why

Feature mathematics, the numbers of a fit, offline evaluation, benchmarks: floating-point
numerics with no interleaving. Rule expressions are a pure function of a prediction, whose
outcome `AlertEngine` chooses freely. Dashboard, e-mail, Slack, webhook: rendering and I/O, with
failures caught. Within modelled components: message texts, metrics and statistics, the
library's own races inside `SimpleConnectionPool`, the retention clean-up and the listing of
alerts; authentication, rate limits and error bodies of the inference service; the writer's
`write_prediction` and `write_alert` and the stream's `DataQuality` check, which nothing calls;
sensor values and degradation curves of the generator; the loader's parsing of columns; the
rebuilding of readings by the autoencoder; histories the drift tools keep for their own reports.
A pipeline that starts while the database is down never gets a pool (`clients` in
`PredictionFlow`): it is modelled, and what it promises then is nothing.

## 7. Possible extensions

The finest grain left is inside the libraries (the pool, the Kafka client's fetcher), which
the models take at the level of their documented calls. Larger instances of `StreamProcessor`
(two crashes) and `MCComponents` (three machines, three feature messages) fit in memory, not in a short run.
