# A formal model of insights-behavioral-spec

The repository is a behave test harness for the services behind Insights
Advisor. It starts the services as processes, feeds them through Kafka, S3,
PostgreSQL and REST, and compares what comes out. Its features run one after the
other in one Python thread, but against processes, brokers and databases that
live on between scenarios. What is hard about it is **isolation**: whatever a
step, a service or a hook does, the next scenario must start from the state its
author assumed, and a step that passes must have seen what it says it saw. The
model is about that.

## The parts of the system

| Part (source) | State | Operations | Hard behaviour | Correct when |
|---|---|---|---|---|
| Hooks (`features/environment.py`) | the behave context, layer by layer | `before_feature`, `before_scenario`, `after_scenario`, `prepare_db` | a hook that raises, a process that ignores SIGTERM, a lock held by the session of the steps | a scenario leaves nothing running and nothing stored; hooks end |
| Extractor steps (`steps/ccx_messaging.py`) | `context.services`, cleanups, `os.environ` | start (with and without compression), observe, read log | exit at any moment, exit codes nobody polled, pipes nobody drains | one consumer per service at a time |
| Kafka helpers (`src/kafka_util.py`, `steps/kafka_steps.py`) | topics of the broker | create, delete, send, consume | asynchronous deletion, swallowed errors, stale messages | a step consumes the message of its own scenario |
| Database steps (`steps/common_db.py`, `common_aggregator.py`, `cleaner_storage.py`) | `context.connection`, its transaction, the tables | create, probe, insert, count, drop | transactions left open, partial failure, two sessions of one thread | no step leaves half its work, no hook waits for a step |
| Cleaner and exporter (`steps/cleaner_main.py`, `exporter_*.py`, `src/process_output.py`) | exit code and output of the last binary | run, compare | exit codes | a run step fails when the binary does |
| HTTP services (`steps/ccx_data_engineering_service.py`, `ccx_inference_service.py`, `common_http.py`) | uvicorn processes, their ports, cleanups | start, check, stop | nobody waits for the exit, start steps that raise, ports that are still taken | a passed check means the service runs; nothing is leaked |
| Service log (`mocks/service-log`, steps of `notification_service.py`) | `log_storage` | publish, list, query, delete; purge and count | a thread pool on one list, abandoned requests | deletes hit their log, counts are exact |
| Notification service and database (`steps/notification_*.py`, `disabled_rules.py`) | reports, reported rows, toggles and acks over two connections | populate, run, count | stale events and rows, two transactions, a step that fails between its rows | what a check finds is what the last run did |
| Aggregator and DVO writer (`steps/insights_results_aggregator.py`, `dvo_writer.py`) | background processes, cleanups | start, terminate, migrate | two migrations at a time, a start that fails after Popen | one process of a service runs in a scenario; none is left unsignalled |
| Requests and their checks (`steps/insights_results_aggregator_mock.py`, `insights_results_aggregator.py`, `common_http.py`) | `context.response` | send, compare | a server that hangs or is another one, lists that are looked up in one direction | checks that pass together are exact |
| Parquet factory (`steps/parquet_factory.py`) | one process and a `Timer` | run with a timeout | the timer races the exit | a run that ends in time is neither killed nor said to have timed out; its logs and objects are its own |
| Minio, exporter to S3, Pushgateway (`src/minio.py`, `steps/exporter_s3.py`, `steps/pushgateway*.py`) | a bucket, metrics | create, clean, compare | remote calls that fail in between; numbers as text | a scenario's bucket holds its own objects |
| Other mocks (`mocks/`) | a flag of the RHOBS mock, otherwise none | answer | the flag outlives its scenario | every scenario finds the flag off |
| Launchers (`*_tests.sh`, `tools/test_runner_common.sh`) | mocks in the background, exit traps | start, trap | mocks that are not up yet | every mock is stopped |
| Features without steps | none | none | none | nothing to check |

The parts meet in three places: the context (steps add cleanups and attributes,
hooks use them), the operating system (processes and ports outlive a scenario)
and the stores (tables, topics and the mock's list outlive a process).
`PROJECT.json` lists every part with its status, and every hazard at its line.

External, and modelled only as far as the repository uses it: behave (hooks are
called even after failed steps, cleanups run last in first out, a raised hook
does not stop the run), subprocess and `threading.Timer`, psycopg2 and PostgreSQL
locks, uvicorn and FastAPI's thread pool, the Kafka broker (it completes the
deletion of a topic later) and kcat, S3, the services under test.

## The modules

**ConsumerSlots** is the abstract specification of what `after_scenario`
promises: a slot per service, joined only when free, and a scenario closed only
with all slots free.

**ExtractorLifecycle** is the detailed one. `services` is `context.services`,
`cleanups` the registered `process.terminate`, `proc` what the operating system
knows, `reaped` whether the Popen object knows the exit code. `BeginScenario`,
`StartService`, `ServiceIsRunning` and `StepFails` are the steps; `HookRaises`,
`HookTerminate`, `HookWaitReturns`, `HookKill` and `HookReturns` are the lines of
`after_scenario`, one blocking point per action; `RunCleanup` and `PopContext`
are behave's end of a scenario. `Exit` is the environment. A start step with
`service not started` in front is how the features use it, so a scenario starts
a service once.

**ScenarioDatabase** holds the session of the steps (`conn`, `locks`), the
committed database (`created`, `stored`) and the step being run (`script`,
`todo`, `batch`). A scenario is a sequence of database steps, given by the
constant `Scripts`; each action is one statement with the commit or rollback that
follows it at once. `PrepareDrop`, `PrepareCommit` and `PrepareFails` are
`prepare_db`. A SELECT takes a table lock and leaves the transaction open, a
`DROP TABLE` of the other session waits for it.

**HttpServices** holds the processes, their ports, who was signalled and what is
registered for cleanup. `StartService` is Popen; `CheckAnswered`,
`CheckTimesOut` and `CheckRefused` are the outcomes of one turn of
`check_service_started`; `Register` is what a start step does when it passed.
Who answers a check is any process that serves the port.

**ServiceLog** holds the mock's list, the handler each thread runs with the index
its loop has reached, and the steps of a scenario. `publish_log`, `Collect`,
`Collected`, `Find` and `Pop` are the atomic pieces of the handlers; `PurgeNext`
and `Count` are the steps. The notification service (`Post`, `GiveUp`) and any
other client (`Query`) are external. **LogStore** is the abstract specification: a
set of logs, stored, listed and deleted by handlers that take effect at once.
ServiceLog implements it with the mock's list and behave's answer as sets: a publish
takes effect when its log is appended, a list when its loop has ended, a delete when
it pops; a turn of a loop, a request and a query of another client are not seen.

**KafkaTopic** is one topic: `DeleteTopic` and `CreateTopic` swallow their
errors, a deletion that was accepted leaves the topic `"doomed"` until
`DeletionCompletes`. `Asked` is what kcat is asked for and `GetEvents` what is found
of it: nobody looks at kcat's exit code, so when it fails the step goes on with the
messages it has read so far, or with none. The module has no `Next`; two of the
modules that follow extend it and give each of its operators a step of a feature.

**NotificationScenario** is the notification service's features: the background
(`BeginScenario`, `EmptyTopic`, `SetUpTables`), the steps that write rows, the runs
of the service and the checks. `db` is what both databases have committed and
`work` what the open transaction sees; a step that writes rows is `BeginRows`, one
`ExecuteRow` for each row and `CommitRows`, and `RowFails` may end it anywhere
(`db` stays, the connection is dropped with the scenario). `RunService` is the
program under test: any events, and for each type of events rows in `reported` or
none. A row of `reported` has its cluster, its event type and the time `notified_at`
by which the latest one is looked for (`LatestReported`): the k-th run of a scenario
writes at time k, and a prepared row has any of the times `NotifiedAt`, before, at or
after a run, as feature files prepare rows of 1990, of ten seconds ago and of 2990.
`run` and `claim` are history: what the last run did and in what topic (empty, used,
or deleted since), and what the check that just passed has said about it. Rows and
events carry the scenario and the step they come from.

**S3Bucket** is the bucket, one action for each request `minio.py` sends, and the
predicates the checks ask of it. **ParquetFactory** composes it with KafkaTopic:
`pc` is behave, `timer` the thread of `threading.Timer`, `factory` the process.
`StartFactory` is Popen and `timer.start`; `CommunicateReturns` and `AskTimer` are
the rest of the step, between which the timer's thread (`TimerFires`, `TimerKills`,
`TimerEnds`) and the program (`FactoryReads`, `FactoryStores`, `FactoryCommits`,
`FactoryExits`) go on. `AskTimer` is `is_alive`: what it sees is the timer's thread,
and not whether the process was killed.

**BackgroundService** is the aggregator and the DVO writer as processes: `Start`,
`Started` and `StartFails` are the start step before and after the three seconds
it sleeps, `Terminate`, `WaitTimesOut` and `WaitReturns` the termination step,
`RunCleanup` and `EndScenario` behave's end of a scenario. A process is a pair of
its service and a number and is used again once nobody knows it, so that scenarios
need no bound. **RestSteps** adds the requests, each with the status codes its step
accepts, the key its answer has, and whether it gives up a silent service;
`Answered`, `ConnectionFails` and `TimesOut` are what may come of one, and the
`Check*` definitions one check each. **AggregatorSession** closes both with the tools that
are run to their end and the migrations, and has the next-state relation.

`MC*` modules extend a specification for TLC; `*_proofs` modules hold the proofs.
Definitions that begin with the comment "Mutant" are variants of the definition
below them, with a plausible bug; no specification uses them. They show that the
properties can fail.

## The runs

| Run | Instance | Shows |
|---|---|---|
| `extractor_lifecycle` | 3 processes, 36 thousand states | one consumer per service, nothing outstanding between scenarios, a raised hook leaks nothing, ConsumerSlots is implemented, teardown ends |
| `scenario_database` | 2 tables, 2 records, 6 scenario shapes, 10 thousand states | only a failed scenario can hang the hook, scenarios start empty, a failed INSERT step leaves nothing, scenarios end |
| `hook_hangs` | same | a violation: after a failed scenario `prepare_db` may wait for ever |
| `exit_code` | same | a violation: `return_code=0` accepts every exit code |
| `http_services` | 3 processes, 2 ports, 2 attempts, 293 thousand states | a check on a free port is sound, only processes nobody answered for are leaked, a stopped mock is silent, start and stop steps end |
| `stale_answer` | same | a violation: a process of an earlier scenario answers the check |
| `service_log` | 2 threads, 2 clusters, 3 logs, 314 thousand states | a delete pops its log, a count is exact, LogStore is implemented, scenarios end |
| `notification_scenario` | 2 scenarios of 4 steps after the background, 2 rows a step, 1 cluster, 2 event types, 2 rules, 2 toggles, 1 ack, 1.7 million states | rows are committed as the table says or not at all, the service reads rows of its scenario only; which events, and which latest row, a check that passed can have found |
| `parquet_factory` | 2 scenarios of 4 steps, 1 partition, 2 messages, 1 file, 2 rows, 310 thousand states | no run outlives its step, a verdict is wrong only after the time was up, bucket and logs are the scenario's own, runs end |
| `verdict` | same | a violation: a run that was killed is said to have finished |
| `aggregator_session` | 1 service with 2 processes, lists of 2 items, 1 DVO migration at a time, scenarios without a bound, 100 thousand states | one process runs in a scenario and none is left unsignalled, counting and looking up together are exact, terminations end |
| `migrations` | same | a violation: the DVO migration runs beside the OCP migration |

The bounds. Three processes are both services of one scenario and another start
in a later one; scenarios themselves are not bounded. Two tables and two records
are a table a step is at and one it is not, a record inserted and one that is
not. The scenario shapes are those of the feature files: a state in which any
step of any shape has failed is followed by every shape. Two attempts are one
that goes on and one that raises. Two threads are the request of behave and one
left over from an earlier scenario or of another client; three logs are two in
one scenario and one in the next.

Two scenarios of the notification service and of Parquet Factory are one that
leaves something behind and one that meets it; four steps are what a feature needs
to write rows (or fill the topic), run, run again and check. `MaxScenarios` and
`MaxSteps` are guards of the model and no limits of the code, and with both used up
a behaviour stops: these two runs do not check for deadlock. Two rows a step are one
that is executed and one that fails. Toggles are interchangeable, and so are the two
event types, so TLC may permute each. A run of the service sends nothing or two events
that differ (`MaxEvents`): of two, any check may ask for none, one or both, and kcat may
find none, one or both. A prepared row has the time 1, which is that of the first run
and before that of the second: the later row, the earlier row and a tie all happen, and
a tie may be decided for the prepared row, as a date after the run would be; the proof
below is for any times. Two messages
are one that is committed and one that is not; the partitions do not interact. One
service of BackgroundService is enough because two share nothing but the stack of
cleanups, which holds two processes already when a service was started again; the
proof below is for any number of services. Two items and lists of up to two are a
list that repeats itself and one that does not.

### The disagreements

- **The hook may hang** (`HookNeverHangs`). The counting steps of
  `cleaner_storage.py` leave a transaction open. If such a step or one after it
  fails, `prepare_db` runs `DROP TABLE` in a second session and waits for a lock
  that only the same thread could release. `HangNeedsFailedStep` shows that a
  scenario that passes never hangs.
- **Exit codes** (`RunStepsExpectExitZero`). `if return_code:` skips the check
  for the value 0 the steps pass.
- **Stale answers** (`AnswerMeansStarted`). Any response passes the check, also
  one of a process an earlier scenario left behind. `CheckSoundOnFreePort` shows
  that it is sound when the port was free.
- **Verdicts** (`FinishedGracefully`). "Make sure Parquet Factory finished gracefully"
  asks whether the timer's thread is alive. Every run that is killed passes through a
  time in which the process is gone and the thread has not ended: `communicate` may
  return and the run be said to have finished. A run that finishes while the timer
  fires may be said to have timed out. `WrongVerdictNeedsTimeout` shows that this takes
  a run whose time is up: one that ends before is judged as what it is.
- **Migrations** (`DvoMigratesFirst`). The comment says that the DVO migrations run
  first; the step does not wait for them, and looks at the output of the second
  process only.

## Fairness

- behave goes on with what it has begun (`WF` of the teardown, of the harness
  actions and of `Progress`): it is a single thread that waits for nothing but
  what the guards say. It need not begin another scenario.
- A process that was sent SIGKILL exits. Nothing is assumed of an extractor that
  was sent SIGTERM; uvicorn exits on SIGTERM, which the stop steps rely on.
- A binary a database step runs comes to its end: the steps wait for it without
  a timeout.
- The thread of `threading.Timer` runs and its `kill` is obeyed; Parquet Factory
  itself may hang for ever. `communicate` returns when the process is gone.
- `wait(timeout=10)` is over some time. Nothing is assumed of the aggregator: it may
  ignore SIGTERM and may never answer. No request is assumed to end: those to the mock
  have no timeout, and that of the others bounds each wait for bytes, not the request.
- Each thread of the mock runs. A request of behave is strongly fair, because
  the pool serves waiting requests in order and other clients may take a free
  thread first.

## The proofs

All are for any number of processes, tables, records, scripts, ports and
attempts, from the named assumptions of the modules alone: `NoProc` is no process,
`NoThread` no thread and `None` no cluster, `Attempts` is positive, there is an id,
`Scripts` are sequences of steps, a process of BackgroundService is a pair of its
service and a number, `Runs` are sequences of events, the empty one among them, `P0`
is a partition, the bounds and the times of prepared rows are numbers, and the
clusters, reports, event types, times, toggles and acks of the tables of feature files
are finite. Two assumptions on `Scripts` say what the
scenarios of the cleaner and exporter features have in common: after a step that only
reads comes one that ends the transaction (`ReadsAssumption`), and a step inserts into
a table that an earlier step has found empty, once (`InsertsAssumption`). TLC
evaluates all of them on the instances above.

- **ExtractorLifecycle_proofs**: `TypeCorrect`, `OneConsumer`, `NothingCarriedOver`,
  `HookErrorIsHarmless`, `SlotsImplemented`. None is inductive: that nothing is
  carried over depends on the hook finding every process. `IInv` says that a
  process not yet waited for is the one `context.services` names for its service
  (`Registered`), and that the loop has waited for what it has passed
  (`LoopProgress`). `OneConsumer` follows from `Registered`, because two live
  processes of a service would be the same entry. `SlotsImplemented` maps each
  action to a step of ConsumerSlots or a stutter.
- **ScenarioDatabase_proofs**: `TypeCorrect`, `StartEmpty`, `HangsOnlyAfterFailure`,
  `FailedInsertIsUndone`. The hook commits one step before the context is dropped,
  which `EmptyAfterHook` adds. That the hook does not hang after a scenario that
  passed speaks of the end of the scenario only, so `LockInv` follows the locks to it:
  between the steps the session holds none, or a step that releases it is still to
  come (`LocksReleased`); a loop that ends a transaction at each table holds none
  after its first (`LoopReleases`). That a failed INSERT step leaves nothing is true
  because its records are rolled back and its table was empty before: `InsertInv`
  follows that from the step that found the table empty (`LoopFound`) over all that
  does not insert into it (`InsertsFind`), and a table that does not exist has no
  records (`RecordsHaveTable`).
- **HttpServices_proofs**: `TypeCorrect`, `CheckSound`, `NoAnsweredLeak`,
  `StopSilences`. `IInv` follows a process from Popen to its cleanup: on a port
  that was free it stays alone (`OwnPort`), so only it can answer (`OwnAnswer`);
  an answered process stays registered until it is signalled (`Answered`).
- **ServiceLog_proofs**: `TypeCorrect`, `PopHits`, `CountExact`,
  `LogStoreImplemented`. The index a delete
  has found stays right only because a publisher appends and because no second delete
  is at work: `OneDelete` says that a delete is the request behave waits for, and
  `NotWaiting` that behave waits for none where it could start another. That a count
  is exact follows a log from its id to the answer: ids are unique in the list and on
  their way to it (`OwnIds`); a log that is published belongs to the scenario or to a
  request that was given up (`Published`); a list has collected the logs of the
  cluster before its index, once each (`Collecting`); while the purge goes on, a log
  of the cluster is still to be deleted or was given up, and afterwards it is
  acknowledged or was given up (`Left`); what was acknowledged is in the list
  (`Acked`). `LogStoreImplemented` maps each step to one of the store or a stutter.
  That a list answers as if at once is `Collecting` at the end of its loop: a log
  appended meanwhile is at an index still to come. That a delete removes one log from
  the list and the same from the answer needs that the logs behave still holds are in
  the list (`Held`), whose ids are distinct.
- **AggregatorSession_proofs**: `TypeCorrect`, `OneRunning`, `AllSignalled`, `Exact`.
  A running process of the scenario is the one `context` names for its service, or has
  just been started by a step that found none running (`Stored`, `Breathing`); a
  running process was signalled or has a cleanup (`Registered`), and between scenarios
  no cleanup is left (`Emptied`); a termination waits for a process (`Awaited`). What
  the checks have passed is true of the response that is still there (`Counted`,
  `LookedUp`), and as many distinct rows as the list is long leave room for no other:
  this is where the theorems about cardinality are used.
- **NotificationScenario_proofs**: `TypeCorrect`, `Pending`, `OwnScenario`,
  `LatestRow`, `EventsFound`, `Committed`. Rows are of the scenario because its background
  truncates two tables and recreates the database of the others when a step names it
  (`OwnRows`, `OwnKeys`). What is committed is the effect of every row, because each
  row that was executed has had its own and no later row of the step takes it away
  (`Done`). The row found for what the last run has reported on is not an older one
  because the row of that run is in the table (`Wrote`), rows of runs have the number
  of their run as their time, which no run has exceeded (`Times`), and the table holds
  rows of the scenario only: what is left is a prepared row that is not older. A topic
  that nobody has emptied since ends with the events of the run, and holds nothing else
  if it was empty before (`Sent`, `EndsWith`); what is asked for is then a suffix of
  what was sent (`AskedOfRun`), and what is found a prefix of that (`FoundOfRun`,
  `EventsClaim`). The type that is not plain is the number a count step read, at
  most `MaxReported`: a step adds at most `MaxRows` rows or one for each cluster and
  event type, and
  `Sizes` counts the rows a step has still to insert as if they were there, so that
  the bound holds between any two rows of a step.
- **ParquetFactory_proofs**: `TypeCorrect`, `NoneOutlives`, `WrongOnlyAfterTimeout`,
  `OwnBucket`, `OwnLogs`. The program has ended before behave leaves the step, and one
  that was killed was killed by a timer that has fired and is not cancelled any more
  (`End`); a bucket
  that is not there is empty (`Storage`); a line is written while its step runs, about
  a message of the scenario if the topic was emptied (`Written`).

TLC finds each of these invariants true on the instances above.

Only model-checked: liveness under fairness (`TeardownEnds`, `ScenarioEnds` of the
database and of the service log, `StepsComeToAnEnd`, `RunEnds`, `TerminateEnds`),
which is out of the prover's reach. Every invariant and every other
property of the passing runs is a theorem. `HangNeedsFailedStep` and
`FailedInsertLeavesNothing` hold for the scenarios of the feature files, which is what
the two assumptions on `Scripts` say, and not for every script: one that passes and
ends with a SELECT would hang the hook.

## What is left out

Abstracted where it is modelled:

- Formatting, output comparison, schema validation, CSV and version parsing: pure
  functions, covered by the unit tests beside them. An output is the set of phrases
  that were found in it, an object in S3 the set of its rows.
- Requests the mock turns away. An answer to a request holds a list only with
  status 200, and `context.response` is forgotten while the next request is under
  way, when no step can look at it. Of the checks of a list only the latest number
  and the latest rows are kept.
- The text kcat writes about an error: it is no event, and a message it may be mixed
  into is not read as another one.
- What a run of the notification service deletes: its clean-up removes old rows, a
  run of the model only adds rows.
- Time itself: a timeout may fire at any moment its process has not finished.
- A scenario that starts an extractor twice, or two services on one port: no
  feature does.
- The DELETE of a topic and of its records is one step of the broker; messages
  produced to a topic that is being deleted are lost with it.

Not modelled:

- What an extractor writes to its pipes and reads from Kafka
  (`message_in_buffer`, `consume_event`, `consume_message_from_topic`), its consumer
  group and the population of archives. `PROJECT.json` lists the hazards.
- Migrations of the notification database, and what a migration leaves behind.
- What a query of the service log mock matches: a missing parameter equals a missing
  field (`service_log.py:216`), a comparison for a unit test.
- The end of a request to a service that trickles or hangs: nothing in the code
  bounds it, so there is nothing to show.
- The notification writer, the content service, the smart proxy, the renderer:
  single requests or runs whose output is compared.
- The RHOBS mock's flag, the Pushgateway's comparison of numbers as text, the
  launchers' exit traps: small, and without interleavings.
- The features of user interfaces, which have no steps here.

## The plan

The order was: processes, the database and its hook, ports, the service log; then
topics, the notification databases, the bucket and the timer of Parquet Factory,
the background services, the requests and the migrations. All of these are there.
Left are, in this order:

1. The pipe of an extractor: buffered lines, `select`, and a writer that blocks.
2. Consumer groups of the extractors (`CDP_GROUP_ID`) on KafkaTopic.
3. An abstract specification of the ports of HttpServices, as ConsumerSlots is one of
   the extractors and LogStore one of the mock, and the proof that it is implemented.
