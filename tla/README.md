# A verification project for DataWise OS integration

TLA+ modules, TLC runs and machine-checked proofs about the ingestion pipeline in `src/`:
gates that read upstream systems, the Airflow DAGs that run them, the InfluxDB series they fill, the
Orion-LD entities they keep up to date, and the client that reads both.

The question the project asks is the one `src/plugins/datagates/core/windows.py` opens with: can a
reading be lost? It is asked along the way a reading takes.

* A *gate* asks an upstream for a window: does its answer hold the window (`GateFetch`), however
  the upstream pages, cuts and fails? The polled and mirrored sources have questions of their own: is
  a point's stamp honest (`Polling`), is a file whole (`RemoteDrop`), does a message survive the
  handover (`MqttSpool`)?
* The *pipeline* stores it: two independently scheduled, independently retried tasks share two stores
  and no lock. The code defends itself with a watermark that moves last, a backwards walk that moves
  its cursor only over what it wrote, writes that are keyed by time, and summaries that are compared
  before they are replaced (`Pipeline`). On the way a guard refuses impossible counter readings
  (`CounterGuard`).
* The *registration* of the entities it updates runs whenever an operator likes (`Registry`).
* The *reader* computes ages, statistics and consumption from what is stored (`Consumer`).

## 1. The system

| Component | Code | State it keeps | Operations | Interacts with |
|---|---|---|---|---|
| Run DAG | `dags/factory.py` `build_run_dag` | `lastIngestedAt` of the Device in Orion-LD (the *watermark*) | `load_devices`, `ingest` (every scheduled run, 2 retries), `refresh_status` | gate, write path, Orion |
| Cursor backfill DAG | `dags/factory.py` `build_backfill_dag` | `backfillCursorAt`, `backfillEmptyStreak`, `backfillDoneAt` in Orion | `load_devices`, `backfill` (every 30 minutes or by hand, 1 retry, optional dry run) | gate, write path, Orion; starts from the run DAG's watermark |
| Stateless backfill DAG | same function, `backfill_mode: stateless` | none | a manual pass over `[start_date, end_date)` | gate, write path |
| Shared write path | `dags/factory.py` `_write`, `core/influx_writer.py`, `core/measurement_summary.py`, `core/orion_registry.py` | points in InfluxDB, `lastReadingAt`/`lastReadingValue` of each summary entity | guard, `write_many` in batches, `refresh_summaries`, `patch_summary_if_newer` (a GET, then a POST) | called by both tasks of a Device, concurrently |
| Windows | `core/windows.py` | none | `windows`, `keep_while_walking_back` | both DAGs |
| Counter guard | `core/counter_guard.py` | none of its own; the newest stored value comes in as `last_known` | `guard_counter_samples`, `guard_samples_by_property` | write path |
| Init DAG | `dags/factory.py` `build_init_dag`, `core/entities.py` | Device and summary entities, bucket, seeds | `discover`, `upsert_entity`, `ensure_bucket`, `ensure_measurement`; by hand, any number at a time | Orion, InfluxDB; beside the run DAG |
| Orion registry | `core/orion_registry.py` | none; a client of the broker | entity upsert, batch upsert, listing, the patches above | everything |
| HTTP client | `core/httpclient.py` | last request time | attempts, back-off, `Retry-After`, minimum interval | every HTTP gate |
| MQTT spool | `scripts/mqtt_spool.py`, `gates/mqtt.py` | `.part` and `.jsonl` files of each device | append, rotate by rename, drain and unlink | a daemon and a run task, through a directory |
| Polling gates | `gates/polling.py` and modbus, bacnet, s7, snmp | none | one aligned sample per run, field by field, by datagram or in one request | run DAG (rolling branch) |
| File drops | `gates/file_drop.py`, `remote_drop.py`, csv, excel, xml | mirrored files | list, compare sizes, transfer, delete on the server; parse, filter | run DAG; every Device's task mirrors the same directory |
| Paging gates | zabbix, ngsi_ld, influx_source, thingsboard, entsoe | none | window splitting, paging, position filling | run and backfill DAGs |
| Request/response gates | http_json, http_csv, http_xml, open_meteo, nordpool, prometheus, sql, ngsi_v2, obix, opcua | none | one request per window, property or day | run and backfill DAGs |
| Gate registry and configuration | `gates/registry.py`, `core/settings.py`, `dags/datagates_dags.py` | `gates.yaml` | load, validate, resolve and build gates | the DAG bag, the command line, the verification script |
| Command line, verification script, client | `cli.py`, `scripts/verify_platform.py`, `clients/python` | none | `check`; sections on loading, model, bridge, freshness; ages, statistics, consumption | read Orion and InfluxDB while everything else goes on |
| Parsing helpers | `core/{timeparse,fieldmap,cadence,binary,xmlrows,vocab}.py` | none | conversions | gates, tools |
| Deployment | compose, proxy, entrypoints | none | | |

### What makes it hard

* **Two writers, no lock.** The run and the backfill of a Device write the same series and the same
  summary entity. Check and update of a summary are two requests.
* **Stale documents.** `load_devices` is a task of its own. Every attempt of `ingest` and `backfill`,
  retries included, works from the document it returned, not from what Orion holds by then.
* **Batches that fail beside batches that succeed.** `write_many` swallows the exception and counts 0.
* **Requests that fail and are applied anyway**, when a timeout strikes: writes to InfluxDB, and the POST
  of `upsert_entity`, whose retry then meets its own entity.
* **Death anywhere**: between the InfluxDB write and the patch that acknowledges it, after both and
  before Airflow records success, between the Devices and the summaries of an init run, in the midst of a
  file transfer.
* **Boundaries.** Windows are `(a, b]` by contract of `Gate.fetch`, but upstreams include or exclude
  either end, answer by calendar day, and cut at a number of rows; the next page begins one
  millisecond after the last row of the one before.
* **Late and revised readings**, for which `rewrite_lookback` reads a span again.
* **Upstreams that publish while they are being read**, between two pages of one answer.
* **One task per Device in one directory.** All mirror the same files; one empties what another is
  writing or parsing. The size alone says whether a file is up to date.
* **A directory as a queue.** The subscriber appends and renames, tasks glob, read and unlink; either
  may die between two of these calls.
* **A batch judged by what follows and by what went before**: the guard looks ahead to the end of its
  batch, and its last, undecided reading is the level the next batch is judged by.
* **A count carried across runs**: three empty windows in a row end the walk, however many runs,
  retries and dry runs lie between them.
* **A retry that is not a repetition.** A polled value cannot be read again as it was; the retry's
  sample has another value, another instant and, if the delay exceeds the alignment, another slot.
* **Configurations of different age**: init runs of the old and the new `gates.yaml` write entity by
  entity, side by side.

### What makes each part correct

| Part | Property |
|---|---|
| Run DAG | The watermark never passes a reading that is not stored; it never moves back; every reading above its reach arrives eventually; revised readings replace old ones |
| Cursor backfill | Nothing is missing between the cursor and the watermark; `done` above the floor only where enough windows were empty; the walk finishes; a dry run persists nothing |
| Stateless backfill | A pass that met no fault leaves no gap between its windows |
| Summaries | A summary names a reading that exists, and the newest one when nobody is writing |
| Counter guard | Every sample is accepted or rejected, never both; none is rejected unless the old track returns; a rise and a reset lose nothing; a foreign reading changes nothing |
| MQTT spool | A message the subscriber took never vanishes between two processes; it is read once, stored for its own device, and handed over however quiet its topic falls |
| Gates and HTTP client | What an answer lacks of its window is what a limit cut, what was not asked for or what could not be read; what is cut is later than what is answered, ties of its newest instant apart; every call ends |
| Init DAG | After a run that met no competitor the broker has what is configured; running it again takes back nothing a run has stored; no summary without its Device |
| Verification script, command line | No false alarm after a registration that holds, no gap missed; a gate that `check` approves is the one that runs |
| File drops | A task nobody interferes with returns every row; with one task at a time, the mirror has what the server had when a file was deleted there, unless an upload overtook the transfer; the mirror catches up |
| Polling | A stamp is close to the instant of reading, and in its order; a summary names a stored reading; a healthy field is never reported stale |
| Client | Statistics over chunks are exact; the periods of a counter add up to what it counted |

## 2. Modules

```
Source ── WritePath ─┬─ RunDag ───────────┐
                     ├─ BackfillDag ──────┼─ Pipeline ── PipelineInv ─┬─ MCPipeline   (TLC)
                     └─ StatelessBackfill ┘                           └─ PipelineProofs ── MarkProofs (TLAPS)

HttpClient ── Gates ── GateFetch ─┬─ MCGateFetch          GateConfig ── Registry ─┬─ MCRegistry
        FetchContract <· refines ·┴─ GateFetchProofs                              └─ RegistryProofs

Polling ── Consumer ─┬─ MCConsumer                        RemoteDrop ─┬─ MCRemoteDrop
                     └─ PollingProofs                                 └─ RemoteDropProofs

MqttSpool ─┬─ MCMqttSpool                                 CounterGuard ─┬─ MCCounterGuard
           └─ MqttSpoolProofs                                           └─ CounterGuardProofs
```

The pieces meet at two interfaces. `FetchContract` says what the DAGs may rely on when they call
`Gate.fetch`; `GateFetch` implements it for the gates without limits, and `Source` and the `..Fetch`
actions of the pipeline assume it. Storing is where `MqttSpool` (`Store`), `RemoteDrop` (an answer) and
`CounterGuard` (the choice `WritePath` leaves open) meet the core; these are not composed with it.
`Polling` contains the rolling branch of the run DAG.

| Module | Models | State | Actions |
|---|---|---|---|
| `Source` | The upstream, known through `Gate.fetch` (`gates/base.py`), and the clock | `clock`; `source[r]`, the version the upstream serves of reading `r`, 0 if none | `Publish` (a reading appears or is revised), `Tick` |
| `WritePath` | `_write` and what it calls | `stored` (InfluxDB), `lastReadingAt` (summaries); per task its position `pc` and the local variables of `_write` | `WriteBatch`, `WriteBatchFails`, `EndBatches`, `SummaryGet`, `SummaryPatch`, `EndWrite`: one request each |
| `RunDag` | `load_devices` and `ingest` of the run DAG | `watermark`; the task's document, its `now`, its window | `RunLoad`, `RunBegin`, `RunFetch` (one window), `RunFetched`, the write path, `RunAdvance`, `RunFinish`, `RunFails` |
| `BackfillDag` | the cursor walk | `cursor`, `emptyStreak`, `doneAt`; the task's document and locals | `BackfillLoad`, `BackfillSkip`, `BackfillBegin`, `BackfillFetch` (one iteration), `BackfillReachesFloor`, `BackfillLoopEnds`, the write path, `BackfillWritten`, `BackfillSave`, `BackfillFinish`, `BackfillFails` |
| `StatelessBackfill` | the stateless pass | the parameters of the pass and its window | `PassLoad`, `PassBegin`, `PassFetch`, the write path, `PassWritten`, `PassEnds`, `PassFinish`, `PassFails` |
| `Pipeline` | one Device with both its DAGs | all of the above | `Upstream`, `Time`, `Run`, `Backfill`; the specification, its fairness and its properties |
| `PipelineInv` | the inductive invariant | | |
| `MqttSpool` | `scripts/mqtt_spool.py` and `MqttGate.spooled` | the subscriber's process, its open files and the message it is routing; the files, `.part` or finished; of each Device's task the files it has listed, read and holds | `Start`, `Receive`, `Append`, `Timer`, `Stop`, `Rotate`, `Stopped`, `Crash`; `List`, `Read`, `Unlink`, `AllRead`, `Store`, `StoreFails`, `FileMissing`, `TaskDies` |
| `CounterGuard` | the loop of `guard_counter_samples`, batch after batch | the batch, the level (`floor`), accepted and rejected samples, resets; the newest value on record | `Begin`, one action for each branch of the loop (`Unreadable`, `First`, `Rise`, `Flat`, `Fall`), `Return` |
| `HttpClient` | `HttpClient.get` and the request loops of the gates that have their own | the attempt in progress, seconds since the last request, the pause before the next | `Call`, `Send` (one attempt and its outcome), `Pass` (a second) |
| `Gates` | nineteen kinds of windowed gates, as records: what one request covers, which bounds, how the answer is cut or paged, what the limit counts (`wide`), filtering, failures, request policy | | |
| `GateFetch` | `fetch` of any of them, request by request | the gate, what its upstream has published, the call's window, requests to come, rows so far, the answer | `Publish`, `Begin`, `Ask`, `TryAgain`, `Answer`, `Fail`, `Return`, `Wait` |
| `FetchContract` | what the DAGs may rely on | what is published, owed and answered | `Publish`, `Begin`, `Return`, `Raise` |
| `GateConfig` | `load_config`, `datagates_dags`, the loading of the verification script, `check` of the command line | the contents of `gates.yaml` | `EditFile` |
| `Registry` | `register` and `upsert_entity`, the broker, the run DAG's effect on it, the verdict of `verify_platform.py` | what is configured, the entities and summaries in the broker, the bucket; each init run's plan, work left and attempt; loaded documents | `EditEntry`, `Edit`; `Trigger`, `Create`, `AppendAttrs`, `Break`, `Seed`, `Finish` of an init run; `Load`, `Ingest`, `NothingNew` |
| `RemoteDrop` | `prepare` and `fetch` of the file gates, the partner's server, paramiko and ftplib as far as they are used | the server's and the local directory; of each task the listing, the file in transfer and its offset, the files to parse and the rows | `Upload`, `Withdraw`; `Begin`, `Look`, `Open`, `Write` (one row), `Close`, `Remove`; `Parse`, `Read`, `Return`; `Break`, `NextRun` |
| `Polling` | `PollingGate.fetch`, three ways of `read`, the rolling branch of `ingest`; `cadence.py` | schedule, clock, the field values, the attempt and what it has read, points, summaries | `Tick`, `Reset` (a counter), `Run`, `Retry`, `Unreachable`, `Read`, `Sample`, `Store`, `Mark` |
| `Consumer` | the client library and the freshness section of the script, on top of `Polling` | none: operators on what is stored | the specification and its properties |
| `MC...` | instances for TLC | | |
| `...Proofs` | the proofs | | |

### Correspondence with the code

*Time and data.* An instant is a natural number; one unit is whatever resolution makes two readings
distinct, 0 is the epoch, which the code uses for "none" (`if last_ms`, `doc.get("cursor") or ...`). A
reading is an identity: one `controlledProperty` at one instant. Its value is abstracted to a version
number, enough to tell a revision from what it replaced. InfluxDB is a map from readings to
versions because a point is keyed by measurement, tags and time: writing it twice overwrites it.

*Steps.* A step is one request to InfluxDB, Orion or an upstream, or a stretch of Python without one. Whatever one
task knows between two steps is in its own variables (`samples`, `written`, `seen`, `runDoc`,
`bfCursor`, ...), and a process that dies loses them all (`Forget`). What survives is `stored`,
`lastReadingAt`, `watermark`, `cursor`, `emptyStreak`, `doneAt`, and the document, which Airflow keeps
with the task instance.

*Faults.* `MaxFaults` bounds how many calls fail or tasks die in a behaviour. A task may fail at any
point, including after its last request and before Airflow records its success (`pc = "finished"`).
A failed batch may have been applied or not. A failed summary GET counts as "no summary yet", a
failed summary POST is swallowed; both as in the code. In `GateFetch` and `Registry` nothing bounds
the failures but the attempts the code makes.

*The spool.* A file is its Device and the ordinal of its opening; in the code its name is the prefix
and the instant, to the microsecond. The file system is a map from files to `free`, `part`,
`finished` or `gone`: `open(..., "a")`, `os.replace` and `os.unlink` are the transitions, and each is a
step. Whether a write also rotates, because the file has become old or large, is left open.
`Globbed[d]` are the Devices whose files `<prefix of d>-*.jsonl` matches, which is more than `{d}` when
one prefix continues another with a dash or two ids are cleaned to the same prefix. A rolling gate's
`ingest` is `List` to `Store`, with `_write` in one step.

*The guard loop.* An iteration is a step. Samples are known by their position in the sorted batch,
values are naturals and `TOLERANCE` is one too; a value that is no number is `NoValue`. What a batch
is judged by is the newest value on record or, for a backfill and when Orion does not answer,
nothing. After a batch the newest accepted value is on record, or is not: the write failed, or the
summary is newer. *In `WritePath` the guard* is abstracted to its effect on the pipeline: for a gate
with cumulative properties any subset of a batch may be rejected.

*Gates.* The gates differ in a few decisions, which are the fields of the records in `Gates`; the
control they share is `GateFetch`. A request is the properties it asks for, its span and its page; the
rows the upstream has for it are computed from what is published *when it is answered*, so that
publishing between two pages is seen. A limit counts what the upstream counts: rows with all properties of an
instant (`wide`: the wide layout of `sql`, QuantumLeap's common index, pages of `http_json`), or readings one by one (Zabbix
items, the long layout of `sql`), and then it may fall between two readings of one instant. The order in which the requests of one call are made is left
open. A request fails after the attempts of its policy; what that costs the call is `skips`.

*Registration.* An entry of the configuration is a Device's properties and optional attributes. A POST or an
append may be applied and its answer lost (the second disjunct of `Create` and `AppendAttrs`); then
`Transient` begins again at the POST, as the decorator on `upsert_entity` does. An init run works from
the configuration its worker parsed when it began. The run DAG is one step per task here: what
matters is which attributes it writes.

*Files.* A file is a sequence of rows and a transfer writes row by row at the task's own offset, so
that two tasks writing one file, or a reader beside a writer, see what a file system would show them,
holes included. `listdir_attr` gives sizes with the names, FTP asks for each later; paramiko compares
sizes after a transfer, ftplib does not.

*Polling.* A tick is a minute; a value is read at a minute and stamped when the last field has been read.
A schedule is the minute field of a cron expression. *The client's* functions are operators of
the state in which they are called.

*History variables.* No action's guard reads them, and no other variable depends on them: `base`
(the reach of the attempt that set the first watermark), `rejected` and `dropped` (what the
guard refused; what was in a batch that failed beside one that was written), `lost` (messages in
memory when a fault struck), `judgedBy` (the level each sample was judged by), `owed` and `withheld`
(what a call of `fetch` must answer; what it will not), `current` and `settled` (init runs without a
competitor; that one has ended), `deleted` (what the server had under a name when the gate removed it), `overtaken`, `ambiguous`, `alone`, `crowded` (in `RemoteDrop`), `trouble`
(fields that missed a reading).

*Alternatives marked `\* mutation`*, such as `KeepBelowCursor` next to `KeepAtCursor`, are not used by
the specification. Each states one plausible mistake in the code (there, the strict comparison that
the comment in `build_backfill_dag` reports as an earlier bug); substituting it for the definition
beside it makes the run named in `PROJECT.json` fail, which shows that the property can fail.

### Assumptions

| Assumption | Where | Why |
|---|---|---|
| No reading is stamped 0; readings are finite in number | `SourceAssumption` | the epoch means "none" |
| A reading appears at its instant or up to `MaxLate` later, never before it | `Publish` of `Source` | a sample stamped in the future moves the watermark beyond the clock: listed as a hazard, not modelled |
| `HistoryStart <= Floor` | `PipelineAssumption` | `floor_iso` defaults to `history_start` and the two meet |
| `RunSpan + MaxLate < LiveLookback + RewriteLookback` | `PipelineAssumption` | all attempts of one run lie within three execution timeouts of 30 minutes and two retry delays of 5 minutes; the default `live_lookback` is longer. Without it the retry of a first run would leave a gap behind a watermark its earlier attempt had set |
| `SourceSettles`: `MaxLate < RewriteLookback`; or `MaxLate = 0` and no two readings share an instant | the theorems on the pipeline | with `rewrite_lookback` 0 the run drops everything at or below its watermark, so whatever appears there later is lost. This is the contract a gate author accepts by leaving `rewrite_lookback` at 0 |
| A message reaches the subscriber once, while it is up and connected | `Receive` | the module's docstring says what is published meanwhile is lost; redelivery under QoS 1 would store the same message again |
| The gates are of the kinds there are: paging by instant goes property by property, by readings and not by rows, and its requests begin after the last instant answered, types and days are not paged by number, an answer that can be used is not retried; a Device has a property | `KindsAssumption`, `GateFetchAssumption` | it admits every record of `Gates`, and any other combination of their features |
| An upstream does not delete or move a reading during a call; rows come in the order of their instants, those of one instant in a fixed order; a wide gate's upstream has one row per instant | `GateFetch` | upstreams are external; for `sql` the order and the limit are in the query its operator writes. ThingsBoard has one row per key and instant, so "after the last instant" skips none |
| A listing of Devices shows all there are or, where they are more than the limit, any so many of them | `Listed` in `Registry` | the code asks once, with `limit=1000` and no page; which ones a broker then shows is its own affair |
| A gate's Devices are of one `TypeOf` each, whatever the configuration | `Registry` | `entity_type` is a Device's, and no gate changes it |
| Two versions of a file differ in size, and none is uploaded during its own transfer | `ambiguous` and `overtaken` in `RemoteDrop` | the code cannot tell them apart; such files are set apart, and only those; `ReceivedAlone` sets apart no more than uploads during a transfer |
| A file's versions are sequences of rows; what stands for no file is neither a name nor a file | `RemoteDropAssumption` | model values |
| A gate has finitely many Devices; the entries of `gates.yaml` are records of the four things that matter | `RegistryAssumption`, `FilesAssumption` | the script counts Devices |
| The minute field of a schedule is a step, one minute, a list or a range of minutes of the hour | `SchedulesAssumption` | what `cadence` tells apart |
| A sample of a rolling gate is taken within `Duration` of the attempt's beginning | `Tick` in `Polling` | `execution_timeout`; it is a parameter of the theorems, not a number |

## 3. What the runs check

Sizes are distinct states. `Spec` of the pipeline has no fairness, `FairSpec` adds it.

| Run | Question | Properties | Bounds |
|---|---|---|---|
| `cursor` | Do watermark and cursor stay honest when the run and the walk of a Device interleave and one thing goes wrong? | `IInv`, `WatermarkCovers`, `BackfillCovers`, `DoneIsJustified`, `SummaryIsCurrent` | 4 instants, history of any shape, 2 ticks, batches of one point, windows of 1, 2 windows a run, 2 empty windows to stop, 1 fault; 970,640 states |
| `rewrite` | Do late and revised readings of two properties at one instant land, and do watermark and summaries stay sound? | `RevisionsLand`, `SummaryIsBacked`, `WatermarkMonotone` | 3 readings, two of them at one instant and one that moves the watermark past the re-read span, 2 versions, lateness 1, re-read span 2, 2 faults; 968,472 states |
| `stateless` | Does a stateless pass leave a gap between two windows? | `PassCovers` | 2 readings, windows of 1, a guard that rejects anything, 1 fault |
| `liveness` | Does everything arrive, and does the walk finish? | `EveryReadingArrives`, `BackfillCompletes` | 3 instants, 1 fault, any number of dry runs; 140,000 states |
| `summary_race` | May a summary move back? | `SummaryMonotone`: violated | no faults |
| `spool_handover` | Does a message survive the handover, is it read once, and does the last one on a topic arrive? | `SpoolInv`, `HandoverIsSafe`, `ReadOnce`, `Arrives` | 3 Devices, two of which take files from each other, a message for one and one for two of them, 2 files each, 1 fault; 109,035 states |
| `guard_batches` | Does the guard refuse what it should and nothing else, and for how long does a foreign reading on record mislead it? | `GuardInv`, `RejectedReturned`, `GenuineKept`, `LoneIntruderRejected`, `MisledOnce` | every batch of up to 4 values of 0..3 or unreadable, against every value on record, tolerance 1, look-ahead 2; 32,809 states |
| `gates` | Does the answer of every windowed gate hold its window, whatever its upstream does meanwhile? | `FetchInv`, `Accounted`, `WatermarkSafe`, `PagingAdvances`, `FetchEnds`, `ImplementsContract` | 19 gates, 2 properties, 3 instants in days of 2, two windows, one row an answer, 2 pages, up to 3 readings before the call and one during it, 2 attempts; 419,433 states |
| `registry` | Is what is configured registered, is nothing taken back, and do the tools say so? | `RegistryInv`, `RegistrationHolds`, `InitKeepsState`, `VerifyIsRight`, `CheckAgreesWithDags` | 2 Devices of different types, of which a listing shows one, one with two configurations that differ in an attribute, 2 init runs at a time, 1 edit, 2 attempts a request, any of which is lost before or after it takes effect; 512,407 states |
| `drop` | Is a mirrored file whole when it is parsed, and does the mirror catch up? | `DropInv`, `AnswerIsWhole`, `ReceivedAlone`, `EventuallyMirrored` | 2 tasks, 2 files (one of them unreadable; of the other a first version, a longer one and one of equal size), 2 uploads, 1 fault, no retries, SFTP, FTP and a plain drop, with and without deletion; 493,519 states |
| `half_parsed` | Does a broken transfer leave anything half-parsed? | `NothingHalfParsed`: violated | the same with 1 retry |
| `polling` | Are stamps honest, ages backed, healthy fields fresh, statistics exact, and does consumption add up? | `StampIsHonest`, `PollingInv`, `HealthyIsFresh`, `StatsAreExact`, `ConsumptionAdds` | 2 fields, one a counter, 4 schedules, 3 ways of reading, alignment 2, attempts and retry delay of 1 minute, 7 minutes, 1 fault and any number of refused connections, 1 reset of the counter; chunks of 2 series; 1,716,307 states |

*Why the bounds are enough.* In the pipeline the interesting cases are: more points than a batch (batch size 1 with
several readings), more windows than one per fetch and per run, an empty window between two full
ones, a reading exactly on every window boundary (windows of length 1 over consecutive instants), a
retry after each step, and a second run from a later watermark. Each occurs in `cursor`; `rewrite`
adds a second fault, a second version and a shared instant, which need a smaller clock.
`EmptyThreshold` is 2 where the code's default is 3: 2 is the least value for which "consecutive"
means anything. The theorems below remove the bounds for every safety property of these runs.

In `MqttSpool`, with two files a Device the subscriber writes one while a task
drains the other; two Devices with overlapping prefixes and one apart show both sides of the
handover in one run. In `CounterGuard`, batches of four
values with a look-ahead of two have a decided case, an undecided one and what follows either.

In `GateFetch`, with one row an answer every reading is on the border of a page, and two pages are fewer than
the readings there can be, so paging ends early, in time and at its limit; a window that begins at 0 and one
inside the horizon have readings on either border and beyond it; days of two instants reach
beyond a window at both ends; with two properties at one instant an answer is cut between them, if the limit counts readings, or kept together, if it counts rows; and
one reading published during the call moves the others to later pages. In `Registry`, two runs and
one edit are what it takes for plans of different age to overlap; two attempts, for a retry that meets
what it has created itself; with one property a Device, one that changes its properties is left to the
theorems; with listings of one Device, one configured Device is at the limit and two are beyond it. In `RemoteDrop`, two tasks are what it takes to share a file, a version of
two rows to break off half way, two uploads to correct a file that has been received; without retries a failed task
leaves its work to the other one and to the next run, which begin as a retry would. In `Polling`, a horizon of
7 holds two slots of every schedule and a run that its retry delays into the next. The theorems remove these bounds too, for every
safety property.

*Fairness.* Airflow schedules the run DAG for ever, one run at a time (`max_active_runs=1`), and a
task that has started goes on or fails: `WF_vars(Run)` and `WF_vars(Backfill /\ pc["backfill"] # "idle")`.
The scheduled run of the cursor walk is not starved by runs people trigger, which may be dry:
`SF_vars(ScheduledBackfill)`; weak fairness would not do, because a dry run in progress disables it
again and again. Nothing is assumed of the upstream or of the clock. In `MqttSpool` a subscriber that
runs finishes routing a message, rotates when its timer is due, and finishes rotating
(`WF_vars` of `Append`, `Timer` and `Rotate`: one loop of one process), and the run task of each Device
is scheduled and ends (`WF_vars(Gate(d))`). Nobody need start or stop the subscriber, and no message
need arrive. In `GateFetch` the task that called `fetch` goes on, seconds of a pause included
(`WF_vars(FetchStep)`); nobody need call it, nothing need be published, and attempts may fail or succeed as they
like. In `RemoteDrop` runs are scheduled for ever (`WF_vars(NextRun)`) and each task goes on
(`WF_vars(Sync(t) \/ Fetch(t))`); nothing is asked of the partner. `Registry` and `Polling` have safety
properties only and no fairness.

`AgeIsBacked` is proved and no run of its own asks for it: it is a part of `PollingInv`.

*Deadlock* is checked in every run but `registry` and `polling`, where the bound on edits and the bound on
the clock end behaviours.

*Refinement.* `ImplementsContract` in `gates`: under the mapping `Contract`, a gate that meets the contract
in full (`MeetsContract`: no limit, nothing passed over, no type left unasked) implements `FetchContract`,
its liveness included; for the other gates the mapping is a system that never makes a call, and what they lack is stated by
`Accounted` and `WatermarkSafe`. Kinds that do: `http_json` without paging, `http_csv`, `http_xml`, `thingsboard`,
`prometheus`, `nordpool`, `influx_source` with InfluxQL. `entsoe`
and Flux, which exclude the end of the window, meet it but for the reading at that end.

## 4. Where code and documentation disagree

Each is a short counterexample of a run above.

1. **A summary can move back** (`summary_race`). `patch_summary_if_newer` compares and then posts
   unconditionally. `core/orion_registry.py:362` calls the refresh order-independent, `README.md:45`
   says summaries only move forward. With a cursor backfill of a single property without a guard the race is harmless,
   because a walk only begins below a watermark the live run has already set: that is where `SummaryIsCurrent` is
   checked, and `CurrentSafety` and `ForwardSafety` prove it of that case. With two properties the walk can find
   readings of one whose summary the live run has not set yet, and the race is the same as with a pass.
2. **A broken transfer is parsed** (`half_parsed`). Every Device's task mirrors into the same directory, and
   `_wanted` compares names and sizes. Two tasks transfer one file; one of them breaks off after it has
   emptied it, the other goes on at its own offset. The file has the size announced and a hole, is never fetched
   again, and a later task parses it. `gates/remote_drop.py:35` says a transfer that fails leaves nothing half-parsed.

Other remarks, met while modelling. The properties are stated so that they hold beside them.

* **A failed batch is lost.** The watermark is patched to the newest of *all* samples
  as soon as *one* batch was written. `core/windows.py:24` puts the choice the other way round. All
  that `WatermarkCovers` and `BackfillCovers` promise is therefore "stored, refused by the guard, or
  in a batch that failed beside another".
* **A backfill can undo a revision.** Pass and walk alike write what they fetched, whatever the live run stored
  meanwhile; `docs/adding-a-gate.md:109` promises that revisions land. `RevisionsLand` is therefore stated, checked and
  proved for a Device without a backfill only: composed with either kind it fails without any fault.
* **A pass skips its own start.** Its windows are open at the bottom, the first one
  included; `docs/adding-a-gate.md:111` and `core/windows.py:34` write a closed bracket.
* **Neighbouring prefixes.** The glob of device `meter` matches the files of
  `meter-2`. Its task reads and unlinks them and passes their messages over, so they are gone.
  (And a task that finds a listed file gone dies with what it has already read and unlinked.)
  `scripts/mqtt_spool.py:29` names that outcome as what one file set per device avoids.
* **A failed write loses the file.** A spool file is unlinked before anything is
  written, and a failed write ends the run as a success. `gates/mqtt.py:204` calls the handover
  exactly-once; it is at most once.
* **Zabbix does not split a window** whose answer reaches the limit, although `gates/zabbix.py:46` says so. What is cut
  is later than the newest row answered (`WatermarkSafe`), so a run of the run DAG that asks for one window leaves it to the next run.
  Where a run asks for several, the watermark follows the last of them, and what was cut from those
  before is passed over; in a walk likewise. *Ties are lost in the run DAG too*: the limit counts readings, so it may fall between two items of one instant, and where `rewrite_lookback` is 0 the second is never kept: `history.get` asks from the
  second after, and `dags/factory.py:143` keeps only what is later than the watermark. The same goes for the long layout of
  `sql`. `WatermarkSafe` sets these ties apart (`SplitsInstants`), and nothing else. Gates whose rows
  hold all properties of an instant have none, as the run shows: count their readings one by one (`RowOfEach`) and it fails.
* **NGSI-LD does not page.** `gates/ngsi_ld.py:45` says the gate pages by `lastN` over the window. It makes one request;
  `lastN` keeps the newest instances of each attribute, so the oldest of a full window are passed over. (`Accounted` lists
  them as withheld; `WatermarkSafe` does not speak of this gate.)
* **A retry of a polling gate adds a point.** `gates/polling.py:19` says timestamps are aligned so that a retry overwrites the point
  written before. A retry comes `retry_delay` later, 5 minutes by default, and with the default `align_s` of a minute its slot is another
  one. `StampIsHonest` and `ConsumptionAdds` say that the second point does no harm.
* **Deletion after download** removes what has the name by then. A file uploaded anew during its own transfer is deleted
  unread. And with the tasks of several Devices at once a file may be lost though nobody uploaded it anew: one opens, and so empties, the local copy
  after another has received it and deleted the original, and its own request finds nothing. `gates/remote_drop.py:35` calls the local directory
  the record of what was received. `ReceivedAlone` sets both cases apart (`overtaken`, `crowded`), and nothing else.
* **The verification script counts Devices.** One that is no longer configured, which nothing removes from the broker, stands in for
  one that was never registered.
* **Range schedules look stale.** `cadence` takes a range of minutes for an interval of one minute, so a
  healthy gate that pauses outside its range is reported. So is one whose `align_s` is long beside its schedule: the
  age is counted from the slot a reading is stamped with, and the tolerance knows nothing of the alignment (`Timely`).

## 5. What is proved

By TLAPS, for every value of the constants that satisfies the assumptions.

`PipelineProofs.tla`: any finite set of readings, any windows, batches, retries and number of faults, with or
without a guard, in every backfill mode.

| Theorem | Statement |
|---|---|
| `TypeCorrect` | `Spec => []TypeOK` |
| `InductiveInvariant` | `SourceSettles => (Spec => []IInv)` |
| `WatermarkSafety` | `SourceSettles => (Spec => []WatermarkCovers)` |
| `BackfillSafety` | `SourceSettles => (Spec => []BackfillCovers)` |

`MarkProofs.tla`, on the same specification: what is left in Orion-LD and in InfluxDB for others to read. Of the
upstream nothing is assumed but what a theorem states.

| Theorem | Statement |
|---|---|
| `WatermarkAdvances` | `Spec => WatermarkMonotone` |
| `BackingSafety` | `Spec => []SummaryIsBacked` |
| `DoneSafety` | `Spec => []DoneIsJustified` |
| `PassSafety` | `Spec => []PassCovers` |
| `RevisionSafety` | `BackfillMode = "none" /\ MaxLate < RewriteLookback => (Spec => []RevisionsLand)` |
| `CurrentSafety` | `OneSummary => (Spec => []SummaryIsCurrent)` |
| `ForwardSafety` | `OneSummary /\ MaxFaults = 0 => (Spec => SummaryMonotone)` |

`MqttSpoolProofs.tla`: any Devices, messages, routing, overlap of prefixes, number of files and
faults.

| Theorem | Statement |
|---|---|
| `SpoolInvariant` | `Spec => []SpoolInv` |
| `HandoverSafety` | `Spec => []HandoverIsSafe` |
| `ReadOnceSafety` | `Spec => []ReadOnce` |

`CounterGuardProofs.tla`: batches of any length, any look-ahead and tolerance.

| Theorem | Statement |
|---|---|
| `GuardInvariant` | `Spec => []GuardInv` |
| `RejectionSafety` | `Spec => []RejectedReturned` |
| `GenuineSafety` | `Spec => []GenuineKept` |
| `ForeignSafety` | `Confirm >= 2 => (Spec => []LoneIntruderRejected)` |
| `MisledSafety` | `Spec => []MisledOnce` |

`GateFetchProofs.tla`: any properties, windows, limits, pages, days, attempts, readings before and during a
call, and gates of the kinds `KindsAssumption` admits.

| Theorem | Statement |
|---|---|
| `GateInvariant` | `Spec => []FetchInv` |
| `AccountedSafety` | `Spec => []Accounted` |
| `WatermarkSafety` | `Spec => []WatermarkSafe` |
| `AdvanceSafety` | `Spec => PagingAdvances` |
| `ContractSafety` | `Spec => Contract!Init /\ [][Contract!Next]_(Contract!vars)`: the refinement, without its liveness |

`RegistryProofs.tla`: any Devices, properties, attributes, configurations, edits, attempts and number of init runs at a
time.

| Theorem | Statement |
|---|---|
| `RegistryInvariant` | `Spec => []RegistryInv` |
| `RegistrationSafety` | `Spec => []RegistrationHolds` |
| `SummarySafety` | `Spec => []SummaryHasDevice` |
| `StateSafety` | `Spec => InitKeepsState` |
| `VerifySafety` | `Spec => []VerifyIsRight` |
| `CheckSafety` | `Spec => []CheckAgreesWithDags` |

`RemoteDropProofs.tla`: any number of tasks, files and versions, any protocol, options, retries, uploads and failures.

| Theorem | Statement |
|---|---|
| `DropInvariant` | `Spec => []DropInv` |
| `WholeSafety` | `Spec => []AnswerIsWhole` |
| `ReceivedSafety` | `Spec => []ReceivedAlone` |

`PollingProofs.tla`: any fields, readers, schedules, alignment, durations, delays, horizon and faults, any batches and
sizes of chunks.

| Theorem | Statement |
|---|---|
| `PollingInvariant` | `Spec => []PollingInv` |
| `StampSafety` | `Spec => []StampIsHonest` |
| `AgeSafety` | `Spec => []AgeIsBacked` |
| `FreshSafety` | `Timely => (Spec => []HealthyIsFresh)` |
| `StatsSafety` | `Spec => []StatsAreExact` |
| `ConsumptionSafety` | `Spec => []ConsumptionAdds` |

Five of these theorems have a hypothesis on the constants that the run in question meets (`summary_race` apart, which
exhibits what `ForwardSafety` excludes). None is there for the proof's sake: TLC violates the property where it fails.

| Hypothesis | Without it |
|---|---|
| `RevisionSafety`: no backfill, and a re-read span longer than the upstream's lateness | what is revised after the span has passed it is not fetched again; a pass may write an older version over a newer |
| `OneSummary`: no backfill, or a cursor walk with one property and no guard | two tasks race for a summary, and the older reading wins (section 4) |
| `ForwardSafety`: no faults | a GET of the walk that fails counts as "no summary yet", and the POST that follows is of an older reading |
| `Confirm >= 2` | a low foreign sample is its own confirmation |
| `Timely`: for a gap between two runs and for an attempt that holds one up, that span, an attempt and the alignment together are within the interval times the tolerance | a field stored by every run is reported stale now and then. The schedules, the alignment and the tolerance of the run `polling` satisfy it |

**The pipeline.** `WatermarkCovers` alone is not inductive: `RunAdvance` moves the watermark to the newest
sample the task holds, so one must know that the task holds *every* settled reading up to it, and
that each is stored. `IInv` (in `PipelineInv.tla`) says so, part by part:

* `PublishedInv`: nothing is read or published before its instant, so a watermark is never ahead of
  the clock.
* `TaskInv(t)`: the write path accounts for every sample. Once the batches are over and something was
  written, each accepted reading is stored or in `dropped`. This is what lets `written # 0` stand
  for "everything was handled".
* `WatermarkInv`, `RunDocInv`: where the watermark and the first reach `base` lie, and that a task's
  document is an earlier watermark, never a later one, however often it is retried.
* `RunFetchInv`: an attempt has every reading that was settled when it began, from its start to the
  window it has reached. With `RewriteLookback = 0` the filter at the document's watermark is covered
  by the earlier watermark; otherwise `start` lies below `Settled`.
* `RunRetryInv`: the retry of a run that found no watermark, after an attempt that set one and then
  died. Its reach is relative to a later clock; the assumption on `RunSpan` keeps it from leaving a gap.
* `CursorInv`, `WalkInv`: above the cursor, and above the place the walk is at, everything up to `base`
  is kept. `BackfillCovers` follows from that and `WatermarkCovers`.

The proof has one lemma per action, under it one step for each part of `IInv` the action can
disturb; the actions that leave a part's variables alone are handled once by frame lemmas.

**The spool.** That nothing vanishes for any Device, what the code's documentation claims, fails for
Devices whose prefixes overlap. `HandoverIsSafe` is the same for the Devices `Apart`: their
glob matches nobody else's files, and nobody else's glob matches theirs, whatever the others do to each other. It says
where a message may be, and each step moves it from one of these places to the next; but `Unlink`
deletes a file, which is sound only if the task that deletes it holds all of it. `GlobInv` says that a
task only touches files its glob matches and nobody writes to, `TaskInv` that a file the task of a
Device apart has listed is still there, and that it holds all of the one it is about to unlink.
`HandleInv` says that what the subscriber has open is a `.part` file of its Device, so no listed file
is ever appended to. `OnceInv` adds, as long as there was no fault, that a message of such a Device is
in one place only, from which `ReadOnce` follows.

**The guard.** `RejectedReturned` speaks of the level a sample was judged by, which
`floor` no longer is a step later, hence `judgedBy`. `Partition` says that what is accepted and
rejected are disjoint and together the samples before `i`; with it a step that judges `i..n-1`
disturbs nothing that was judged, and each branch has only to show that what it rejects is followed,
within the look-ahead, by a sample on the old track.

`GenuineKept` and `LoneIntruderRejected` speak of a whole batch with a known history, so their invariants
(`RisingInv`, `ReplacedInv`, `ForeignInv`, together `KeptInv`) say how far the loop has got with it. In all three the
loop is *on track* (`OnTrack(S)`) as long as what it has met is in `S`: the level is the value of a sample of `S` or the
one on record, and every sample of `S` to come is at or above it. A replaced meter leaves the track for good at sample
`q`, and the readings after `q` are too low to bring it back, so nothing is condemned; a foreign sample at `p` leaves it
for one step, and the next sample, one of `S`, is back on it within the look-ahead if that is at least two.

`MisledOnce` says what a foreign reading does that came last in its batch, where nothing follows by which to judge it, and
so became the value on record. If the meter's readings rise, the level leaves that value once: `MisledInv` has the loop
either where it began, with nothing refused and no reset, or `Cleared`, at a level no reading to come is below. The one
step between them records a reset, or refuses the readings too low that are followed, within the look-ahead, by one that
is not: fewer than `Confirm`, because that one is a reading of the meter too. So the damage ends with the batch: its newest reading is stored.

**Fetch.** `Accounted` speaks of the moment an answer is returned. `FetchInv` carries it through the call: each
reading owed is among the rows, is withheld, or some request still to come *awaits* it. Three facts
make it inductive.

* `PartsCover`: the first requests together await everything in the window, by property, by type, by
  calendar day.
* `RankGrows`: publishing never lowers the rank of a reading among the rows of a request, so a
  reading that was on page *k* or later still is. (It may be pushed to a later page, which is why a
  page may be answered twice over but never skipped.)
* `AnswerLeaves`: what an answer leaves of what its request awaited is on a later page and the page was full
  (`PageLeaves`), is above the last instant answered (`AfterLeaves`, where one property has one reading per
  instant), is of the other type, or is withheld. `PageLeaves` needs that the rows of a full page are exactly those of its
  ranks, by a bijection between ranks and rows (`RankBijection`, `RankSlice`).

For `ContractSafety`, `Whole` adds that such a gate withholds nothing.

`WatermarkSafe` compares what is missing with what was answered, and at the moment of the answer the requests are gone.
`OrderInv` has two cases. A gate that cuts off (`CutInv`) asks for one span at a time, for the Device as a whole
(`OneSpan`), each page starts no later than the rank of whatever is still owed (`Pages`), and whatever is owed and not yet
among the rows is later than every row answered, or, where the limit counts readings, of the same instant (`InOrder`). Ranks are
those of the upstream's rows (`RowRank`): of a wide gate all readings of an instant have one rank, so they are on one page.
A page takes the next ranks, so `InOrder` survives it, and publishing moves ranks up only. Every other gate that keeps
order withholds nothing at all (`FullInv`), and `FetchInv` says that then it has all it owes.

`PagingAdvances` is the safety half of `FetchEnds`: how many requests one may lead to (`Chain`) is less for the next than
for the one answered, so each call has a bound it comes closer to with every answer; that the answers come is fairness. It is
plain for pages. Where the next request begins after the last instant answered, it needs that the rows answered lie after
the beginning of their own request (`AfterMoves`): a gate that asked for instants from, and including, its beginning would
ask for the same page for ever, hence the condition on `g.low` in `KindsAssumption`. `thingsboard` adds one millisecond.

**Registration.** `RegistrationHolds` speaks of the moment after the last run. `Work` says of each init run, at any moment,
that what is left to do belongs to its plan and that what it has done is in the broker, in the
sense that it exists: nothing is ever removed. That what it did is still *as configured* needs more: a
competitor may overwrite it. `OnePlan` says that while a run is current, or one has ended and nothing was
edited, every active run has the plan that is configured; so whoever writes, writes the same
(`CurrentInv`). `CreatedGrows` and `AppendedGrows` are the two lemmas about the broker on which the
steps of init runs rest, and from which `StateSafety` follows too.

The verification script *counts*: so many Devices configured, so many found. `VerifyIsRight` needs that equal counts
mean equal sets, which is so for finite sets one of which contains the other; what is found is among what is configured
when no Device was retired (`ProbedConfigured`), the condition the property states. `NothingAlleged` then follows from
`RegistrationHolds`, `NothingMissed` from the counts alone. Both hold with listings cut off at a limit: a listing as long as
the whole is the whole (`ListedPart`), and if one listing shows everything then every listing does (`ListedWhole`), the run
DAG's included; beyond the limit the script finds fewer than configured and says so, however wholly they are registered. `CheckAgreesWithDags` compares two rules for picking the
entry of a key, the first of all and the last that is enabled and can be built: a file that `load_config` accepts has one entry of each key (`OnlyEntry`).

**The mirror.** `DropInv` says why a task may skip a file by its size: such a file is *told* (`Told`) by it. Either each of
its rows is in place, still to come from a task that writes the file at its own offset, or not begun (`Rewritten`), so that equal sizes and
no writer mean equal contents; or the sizes differ and nobody writes. This holds for several tasks at one file, but
not if one of them breaks off while another writes (the counterexample of section 4), nor for versions of equal size: hence `NoMixture` and
`ambiguous`, which the properties state too. For a task that meets no other (`alone`), `AloneInv` says that the server is
as it was listed, and `ProgressInv` that what is no longer on its list is in the mirror (`Brought`), and what is no
longer to be parsed is in its answer (`Parsed`); at the end both lists are empty, which is `AnswerIsWhole`. For
`ReceivedAlone`, `LoneInv` says that the mirror has just the rows transferred so far, and that what is being transferred is
what the server still has, unless it was overtaken; so what is removed there is what is complete here.

**The marks.** `ingest` compares its newest sample with the watermark in its *document*, which a retry keeps
from the load: after an attempt that patched the watermark and then died the document is behind. `MarkInv` says why the
watermark does not go back all the same. It stands at a published reading; an attempt whose document is behind either
starts past that reading, and so does all it fetches, or fetches the reading again once its windows pass it, so
its newest sample is no older. No attempt ends before the watermark, because only its own last step moves
it. Readings are never withdrawn upstream; of an upstream that withdraws them this would not hold.

For `SummaryIsBacked`, `SummaryInv` adds that while a task has a summary to refresh, everything it accepted is
stored or in `dropped`: `EndBatches` establishes it, the other task's steps only store more, and the
point `SummaryPatch` advertises is one of the accepted.

*Done.* `DoneIsJustified` wants enough windows in a row to have been empty. `StreakInv` carries the claim with the
count: as many windows above the cursor as the streak says hold no reading, for the streak in Orion-LD, in the task's
document and in its variables alike (`SavedInv`), since a retry or a dry run may continue from any of them. A window
found empty stays so, because the walk is below `base`, and what lies there has settled.
*Gaps of a pass.* `PassInv`: what a pass has come past and was settled is kept, or among the samples it is writing
(`AccountInv` says that these are accounted for when the batches are over).
*Revisions.* `LandInv`: an attempt that has come past a settled reading holds its latest version (`FreshSamples`), and
what a retry will read from a stale document begins early enough to do so (`FreshRetry`).
*The newest reading.* `CurrentInv`: a stored reading is at most its summary's instant, or is due, that is, among what the
run DAG has accepted and not refreshed; what the run's GET returned is what the summary still says, because
the walk changes none: everything it accepts lies below the watermark (`BehindInv`), and the watermark below the summary.
`ForwardSafety` is the same invariant read for a step.

**Polling.** That the points of a series are in the order of their readings needs that what an attempt is about
to store is newer than all there is. `PollingInv` says: while an attempt reads or stores, everything in the
store was read and stamped before it began, what it has read was read since, and the stamp is at or after
every stamp there is. A retry restores it, as it begins again from nothing. `AgeIsBacked` needs that what an attempt marks, it has
stored: a write that is not answered marks nothing.

`HealthyIsFresh` bounds an age, the time since the slot a summary names. `FreshInv` bounds it for each field that no run
has missed, by what the state of the task allows: while it is idle and no run waits, no minute since that slot was due,
and `RunComes` says one comes within `Gap`; while an attempt is under way, its beginning is within that bound or
within an attempt's length of it, if a run was held up; and it ends within `Duration`. `Timely` turns the sum into the
tolerance of the script.

`StatsAreExact`: the chunks of a batch are all of it (`ChunksCover`); a figure's rows are those of the series that
have one (`RowsAre`); a finite set of integers has a largest and a smallest element (`ExtremesOf`, by counting ranks).
What `Total` adds up is the same sum on both sides.

`ConsumptionAdds` compares a sum of differences with a difference of instants, since a counter counts one a minute.
`CountInv` says what a point tells: its instant less its value is when the counter was last at zero (`Zero`), and of two points
in a row that is either the same, or lies after the first of them (`Follows`): a reset in between. A retry's second point, a
lost write and a reset that no point saw leave this as it is. So the charge of a period is at most the time between the last
points of two periods, and just that if their zeros agree (`AmountBound`): where the counter fell, `consumption` has no amount, and
the time between is not negative. The amounts then telescope
(`AmountsAddUp`) by induction on the number of periods. The provers cannot instantiate an induction theorem, but the
principle for one set needs no operator: a set of numbers that has 0 and with each its successor has them all (`Induct`, from the
well-foundedness of the order on the naturals). `SumLess` is the fact about a sum that it needs: any element may be taken out of it first.

*Only model-checked*: liveness (`EveryReadingArrives`, `BackfillCompletes`, `Arrives`, `FetchEnds`,
`EventuallyMirrored`, the fairness of `FetchContract` in `ImplementsContract`), which the prover does not reach. Every
invariant and every action property of a passing run is a theorem.

## 6. Not modelled

* `refresh_status`, which copies a flag of the broker, and `batch_upsert_entities`, which nothing calls.
* Several Devices in the pipeline: they share nothing but the broker and the bucket. Their tasks do meet in the spool,
  in the mirror and in the registration, where they are modelled.
* Readings below a watermark that `rewrite_lookback` does not reach, and samples
  stamped in the future: outside `SourceSettles`, and lost by the code.
* A window in which the guard refuses everything and at which the walk stops for ever; how the instants of a
  batch relate to that of the value on record, which matters when `rewrite_lookback` re-reads old
  samples. Each needs the guard composed with the write path and the walk. (How far a foreign reading that a batch left
  on record misleads the next one is `MisledOnce`, of a meter whose readings rise.) Several properties in one batch are judged
  independently (`guard_samples_by_property`).
* MQTT: collect mode; messages published while the subscriber is down; a message redelivered; two
  messages of one Device that share a one-second `received` stamp.
* Gates: the translation of rows into samples, `entsoe`'s filling of repeated positions, the aggregation of
  `influx_source`, forecasts of `open_meteo`, the rolling variant of `obix`, `ngsi_v2` without history. The minimum
  interval is a condition of every attempt (`Throttled`) and per client: requests of the tasks of several Devices are not spaced, and nothing is claimed of them.
* Nord Pool's delivery days are days of Central European Time; here days begin at a multiple of `DayLength`, as windows need
  not. The end of a stateless pass is at most the present, while the code accepts a later one, for which there are no readings.
  Where a counter falls, the query discards the fall (`core/counter_guard.py:27`) and `consumption` has no row for the period; `Amount` counts 0, the same sum.
* Registration: the limit of 1000 on the script's listing of summaries, which is of all gates together; sentinels (`ensure_measurement`), which are written to a field readers exclude; buildings, which no
  gate has; expansion of environment variables in the configuration.
* `stats_many` is five queries at one instant here. In the code they run in parallel, and a point stored between them may
  be in one figure and not in another.
* The client's other queries (series, plots, rolling statistics), the command line's other commands and the script's
  other sections: they pass on what they find. Decoding of registers and datagrams, vocabularies, XML rows, parsing of
  times and field maps: pure conversions of one value or row. The deployment.

## 7. Plan

| Order | Module | What | State |
|---|---|---|---|
| 1 | `Source` to `Pipeline` | the core | done: four passing runs, all their safety properties proved |
| 2 | `MqttSpool` | subscriber, rotation, draining tasks, crashes of either, prefixes that overlap | done, proved |
| 3 | `CounterGuard` | the guard as a loop over a batch, with memory across batches | done, proved; left: its composition with the write path and the walk |
| 4 | `HttpClient`, `Gates`, `GateFetch` | requests, paging, limits, failures; the contract the DAGs rely on | done; all safety properties and the refinement proved |
| 5 | `GateConfig`, `Registry` | the init DAG with lost answers and competitors, beside the run DAG and edits; the tools' verdict | done, proved |
| 6 | `RemoteDrop` | mirrored files, transfers that overlap and break | done, proved |
| 7 | `Polling`, `Consumer` | alignment against retries, the rolling branch; the client | done, proved |
| 8 | pure algorithms | ENTSO-E position filling, topic matching, field maps: reference definitions over bounded inputs | open |
| 9 | proofs | `SummaryIsCurrent` per property, with the walk beside several | open |
