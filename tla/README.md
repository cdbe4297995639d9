# Verification of the notification service

TLA+ models of the notification service: its API, its worker and its campaign
scheduler. TLC checks them on small instances, and TLAPS proves every safety
invariant and every action property of the passing runs for all instances. Paths
below are relative to the package `src/notifications/` of the repository.

## 1. The system

| Component | State | Operations | Talks to |
|---|---|---|---|
| API publisher (`common/kafka.py`) | `_producer`, `_enabled` | `start` (10 attempts, then degraded mode for good), `publish_job` (swallows errors), `stop` | outbox topic |
| API events (`notifications_api/`) | handlers in flight | `receive_event`, `handle_event`, `_map_event_to_jobs` | publisher |
| API templates (`notifications_api/`) | `templates` table | list, create, read, update | Postgres |
| Kafka consumer (`worker/consumer`) | consumer position, message in hand | `start`, `_handle_message`, `_commit_message` | outbox topic, processor, DLQ |
| Job processor (`worker/processor`) | `existing`, `attempts` of a job | skip, expiry, `send_after`, claim, retries | repository, provider, DLQ |
| Delivery repository (`worker/repositories`) | `notification_delivery` | `get_by_job_id`, `try_claim_job`, `save_status` | Postgres |
| DLQ publisher (`worker/dlq`) | none | `publish_job`, `publish_raw` | DLQ topic |
| Worker process (`worker/main.py`) | tasks, pool, producer | start, signal, cleanup | all of the above |
| Contacts, templates, senders (`worker/auth`, ...) | none | one call each per attempt | auth service, Postgres, SMTP |
| Campaign scheduler (`campaign_scheduler/`) | tick snapshot; `campaigns` table | `_process_tick`, `_process_campaign`, `is_campaign_due`, `mark_campaign_triggered` | API, Postgres |
| Health files (`common/health_files.py`) | `/tmp/ready`, `/tmp/heartbeat` | `mark_ready`, `clear_ready`, `heartbeat_loop` | the container's healthcheck |
| Initialisation (`kafka_init.py`, `db_init.py`) | topics, tables | `wait_for_kafka`, `create_topics`, `create_all` | Kafka, Postgres, compose |
| Configuration (`common/config.py`) | settings | `retry_delays_seconds` | everybody |

An event is posted to the API, which makes a job of it and appends it to the
outbox topic. A worker of the consumer group reads the message, looks up the
delivery row, skips finished jobs, expires late ones, waits for `send_after`,
claims the row, and tries to deliver up to `max_attempts` times. It writes the
row after every attempt and publishes to the DLQ after the last one. Then it
commits the offset. The scheduler posts `campaign_triggered` events for campaigns
that are due. The API answers these with 501 at this commit, so a deployed
scheduler meets only the refused case of its model.

What is hard: the delivery row, the DLQ record, the provider's acceptance and
the committed offset are four separate effects, with a crash, a failing call or
a rebalance possible between any two. The attempt count is a snapshot. `commit()`
takes the position of whatever is assigned now. The scheduler has the same gap
between its POST and its UPDATE, and the API between its answer and its send. An
update of a template reads, changes and commits while others do the same and
while attempts read the row. Services start, fail and stop against a Kafka and a
Postgres that come and go.
`PROJECT.json` lists the hazards with their lines.

What makes the parts correct:

- worker: nothing is committed that nobody dealt with; SENT and FAILED rows tell
  the truth; the budget holds although the counter is a snapshot; a finished
  job stays finished; the partition is never blocked and no row stays open;
- scheduler: no run is recorded that was not accepted; limits and slots hold up
  to the failures that occurred; one refused campaign does not starve the others;
- API: at most one job per post; every start ends, in service or degraded;
- templates: one row per key, no update lost without an overlap, and every
  attempt sends a text that was current while it ran;
- deployment: no traffic without the schema and the topics that could be had; ready files do not lie; stops
  close everything; an accepted event is settled unless something failed.

## 2. Modules

| Module | Models |
|---|---|
| `DeliveryRepository` | the row and the SQL statements as functions on it, and `_should_skip` |
| `DeliveryContract` | the abstract life of a job: what the worker fleet promises |
| `Worker` | several workers, one partition, the table, the DLQ, the provider |
| `WorkerProperties` | the worker's properties, and its refinement of the contract |
| `Ordering` | `InOrder`: what `ORDER BY`, or a filter over a list, returns |
| `Templates` | the templates table and the template routes, a session per request |
| `AttemptSend` | `_attempt_send` and its retries, over `Templates` |
| `AttemptProperties` | the properties of both |
| `CampaignScheduler` | the scheduler, the `campaigns` table, operators; with its properties |
| `Environment` | Kafka and Postgres: up or down, bounded outages; the topics the broker has |
| `NotificationApi` | the API process, the publisher, event handlers; with its properties |
| `WorkerProcess` | `app()` of one worker: startup, health files, signals, cleanup; with its properties |
| `Initialisation` | `kafka_init` and `db_init` as compose runs them |
| `Pipeline` | the deployment: the four modules above and `DeliveryContract` over the outbox |
| `MCWorker`, `MCAttempts`, `MCScheduler`, `MCPipeline` | values for the constants |
| `WorkerProofs`, `ContractProofs`, `SingleFlightProofs` | theorems about `WorkerProperties` |
| `OrderingProofs` | the lemma that the lists of the other proofs rest on |
| `SchedulerProofs` | theorems about `CampaignScheduler` |
| `TemplateProofs`, `AttemptProofs` | theorems about `AttemptProperties` |
| `PipelineProofs` | theorems about `Pipeline` |

Definitions named "Mutant of X" are deliberately wrong variants of `X`. Each one
shows that some property would notice that mistake.

### Worker

`pc[w]` is the await at which worker `w`'s consumer task stands. A step runs from
one await to the next, so every place where another worker, a crash or a fault can
come in between is a state.

| `pc` | Await in the code | Actions |
|---|---|---|
| `poll` | `async for msg` | `Poll`, `PollFails` |
| `publish_raw` | `_dlq.publish_raw` | `PublishRaw(Fails)` |
| `get_existing` | `get_by_job_id` | `GetExistingFails`, `SkipFinal`, `FindExpired`, `DeferSend`, `GoClaim` |
| `mark_expired` | `save_status` in `mark_expired` | `MarkExpired(Fails)` |
| `send_after` | `asyncio.sleep` in `wait_send_after_if_needed` | `WakeAtSendAfter` |
| `claim_insert`, `claim_update` | the two statements of `try_claim_job` | `ClaimInsert`, `ClaimConflict`, `ClaimUpdate`, `ClaimRefused`, `Claim...Fails` |
| `attempt` | `_attempt_send` | `BudgetSpent`, `AttemptOk`, `AttemptFails`, `AttemptAckLost` |
| `mark_sent`, `mark_failure` | `save_status` | `MarkSent(Fails)`, `MarkFailure(Fails)` |
| `retry_sleep` | `asyncio.sleep(delay)` | `RetryWake` |
| `dlq_final`, `dlq_unhandled` | `publish_job` after the last attempt / after an exception | `DlqFinal(Fails)`, `DlqUnhandled(Fails)` |
| `commit` | `consumer.commit()` | `Commit`, `CommitNothing`, `CommitFails` |
| `down`, `stopped` | no process / the consumer task has ended | `Start`, `Crash` |

A call that raises may have taken effect: the `...Fails` actions allow both. A
handler whose partition was taken away runs on, as in aiokafka. Its `commit()`
then commits nothing or raises. If the partition came back to the same worker,
`commit()` commits the position that the new assignment started from.

The abstractions:

- the clock is one counter for all hosts and Postgres; the row is read in the same
  step as the expiry check after it;
- `_attempt_send` is three outcomes: accepted, failed, accepted but reported as
  failed. `AttemptSend` opens them up;
- a retry delay has any length here; `job_id`s are the messages themselves, so an equal
  message in the log is a redelivery or a duplicate;
- `sends` and `orphans` are history: how often the provider accepted a job, and the
  jobs with a row over which a handler died.

### Campaign scheduler

`pc` is again the await: `load` (`get_active_campaigns`), `campaign` (the POST),
`mark` (`mark_campaign_triggered`), `sleep`. `batch` holds the snapshots of the rows
that the tick still has to process, and `tickNow` the time the tick took before the
load. A cron expression is the set of times it fires at; an invalid one is the
empty set. `Refused` are the campaigns whose event the API refuses.

### Templates and attempts

`at[r]` is the statement a template request waits for: `insert` (`create`),
`commit` (an update that has read its row), `refresh`. The session of an update
writes the columns that differ from what it read, so `CommitUpdate` applies `Dirty`
to the row as it is by then. A list request is a client that reads page after page.
`created_at` is the time at which the creating transaction began, so rows may
become visible out of order.

`step[j]` is the await of an attempt: `contacts`, `template`, `send`, or the retry
`sleep`; rendering and the choice of the channel happen in the step of the SELECT
before them. `Raised` is the `except` branch of `attempt_with_retries`. Texts are
values; `Fits` lists the pairs of job and text that `str.format` accepts. `raw` is
the setting `RETRY_DELAYS_SECONDS_RAW` as its comma-separated parts: numbers,
blanks, or junk.

### The contract

`DeliveryContract` knows a stage per job (`new`, `open`, `expired`, `orphaned`,
`settled`) and the jobs that are committed. `StageOf` in `WorkerProperties` is the
refinement mapping: accepted or dead-lettered is `settled`; otherwise the row and
the handlers decide. A row without an outcome, a handler or a dead worker would
map to no stage at all, so `ImplementsContract` says that no step of any
interleaving gets a job there. `Pipeline` uses the same contract in the place of
the worker's inner life.

### API, worker process, initialisation

`apiProcess` is the lifespan hook's state; `producer` and `enabled` are the fields
of the publisher. Handlers of different events run concurrently. Publishing is
their only await. One handler per event is in flight. A client posts again after
it lost its answer, and the API makes another job of that.

`phase` is the await of `app()`, from the settings check to the last `close`.
`open` are the connections it holds, `ready` and `beat` the two files as the
healthcheck reads them. They stay in the container when the process ends; so does
`ready` after a kill, until the next process clears it. `consumer` is the consumer
task: running, ended (a logged Kafka error), or raised (any other error, met again
when `app()` awaits the task). How one of the two ends while running is what
module `Worker` is about.

The scripts wait, list, create and fail; `restarted` counts the restarts that
compose grants `kafka_init`. Topic creation may be partial in two ways: the broker
goes away and the script fails, or the broker's answer refuses a topic and the
script, which does not look at the answer, succeeds (`refused` is the history of
these). `db_init`, like the startup of the worker, retries the kinds of errors
it names up to the last attempt and ends at once on any other: `DbWaits` and
`TryAgain` leave open which kind it is.

`Pipeline` composes these by conjoining each step with an unchanged rest. API and
worker launch when both scripts have succeeded. The consumer joins its group, and a
group without a committed offset starts at the end of the topic: the jobs enqueued
by then are `skipped`. A broker may create a topic when it is first used
(`CreateOnUse`); while the outbox does not exist, sends fail and no consumer joins.

## 3. Runs

| Run | Instance | Shows |
|---|---|---|
| `worker_faults` | 2 workers, 2 jobs (one with `send_after` 3 and `expires_at` 1), 2 messages, 2 ticks, every fault, 2 crashes or rebalances | `TypeOK`, `NoLossWithoutOrphan`, `FailedReachesDlq`, `SentWasAccepted`, `ClaimLeavesBudget`, `CommittedNeverRewinds`, `FinishedStaysFinished`, `ImplementsContract` |
| `single_flight` | the same jobs with 3 messages and 4 ticks, without "rebalance" and "db" | `AttemptsNeverRegress`, `SendsWithinBudget` |
| `fresh_group` | no committed offset, `max_attempts` 0, a message that does not parse, a null record, every fault | `CommitLeavesTrace` |
| `worker_live` | databases and providers that may fail for ever | `EveryMessageCommitted`, `OpenRowsSettle` |
| `scheduler` | 3 campaigns (refused, limited, rare), 2 crashes or lost calls, 1 edit | `TypeOK`, `RunsWereAccepted`, `TriggersWithinLimit`, `OncePerSlot`, `FirstRunHappens` |
| `attempts` | 2 creates of one key, 2 updates of one row, a read, a paging client; 2 jobs; 3 attempts, 1 auth failure each, five values of the delay setting | `TypeOK`, `OneTemplatePerKey`, `SoleWriterWins`, `UpdateTakesEffect`, `PagingMissesNothing`, `SentCurrentTemplate`, `MadeUpOnlyInOutage`, `DelayAsConfigured` |
| `pipeline` | 2 events (valid, poor payload), each posted up to twice; topics refused or not; Kafka, Postgres, topics and tables there or not at the start; 1 outage, 1 end of the API process, 2 mishaps of the worker | `TypeOK`, `OneJobPerPost`, `ReadyIsCurrent`, `HealthyEndsWithProcess`, `StopClosesAll`, `TrafficNeedsSchema`, `AcceptedIsSettled`, `StopsAndStartsEnd`, `KafkaInitEnds`, `ApiStartupEnds` |

Five runs show where the code and its documentation disagree; their properties
state the documentation, and TLC finds each one violated.

| Run | Documentation | Code |
|---|---|---|
| `lost_after_crash` | "processing can resume after failures without manual intervention" (`docs/DELIVERY_SEMANTICS.md`) | a redelivery within 300 s of the claim is refused and committed |
| `expired_delivered` | "if the expiration time is reached, the job is marked as expired and is not delivered" (same) | the expiry is checked only before the wait, the claim and the retries |
| `sent_overwritten` | "idempotency ensuring safe parallel processing" (`docs/WORKER_DESIGN.md`) | RETRYING rows are claimable while their handler lives, and the upsert is unconditional |
| `consumer_stops` | "Processing resumes automatically once Kafka is available again." (`docs/OPERATIONS.md`) | a Kafka error ends the consumer task, the process stays |
| `api_unqueued` | "returns the number of enqueued jobs" (`handle_event`) | errors and degraded mode are swallowed and counted as enqueued |

Four more disagreements are in the models without a run of their own; the properties
exempt them or allow them openly:

- A crash between the write of FAILED and the publish to the DLQ: the redelivery is
  skipped as final, though jobs that exhausted their attempts "are published to a Dead
  Letter Queue" (`docs/DELIVERY_SEMANTICS.md`). `FailedReachesDlq` exempts a job that a
  worker died over; `CrashedJobsResume`, which does not, fails here too.
- An EXPIRED row is skipped only at `max_attempts`. Below it a redelivery expires the
  job and saves the row, with a new `updated_at`, once more, though "if a terminal
  delivery state already exists, the job is skipped" (same).
- A new consumer group never reads what was enqueued before its first assignment,
  though nothing failed and the delivery is "at-least-once" (same).
- `create_topics` drops the error codes in the broker's answer and succeeds without a
  topic, though it should "create outbox and DLQ topics if they do not exist" (its
  docstring).

**Bounds.** Two workers are enough for every pair of handlers of one job. With
`max_attempts` 2 there is a first, a retried and a last attempt. Two disruptions
allow a crash of the worker that took over from a crashed one. The clock
starts at 1, so that the job `late` is alive at the first tick and has expired at
the second. A claim becomes stale within the bound: one tick after it
in `worker_faults` (`StaleAfter` 0, two ticks), two ticks after it in
`single_flight` and `worker_live` (`StaleAfter` 1, four and three ticks). In
`fresh_group` claims do not become stale.
`MaxLog`, `MaxNow`, `MaxDisruptions`, `MaxEdits`, `MaxOutages`, `MaxPosts`,
`MaxRestarts`, `MaxMishaps`, `MaxAuthFailures` and `Mixes` are bounds of the models
and not of the code.

`Mixes` names the sets of requests and jobs that run side by side in `attempts`:
two creates with a read and a paging client, two updates with a paging client, two
updates with a job, and so on - every pair of operations on one row or key that can
disturb each other, without the product of all of them. Three attempts give delay
lists that are shorter and longer than the retries. In `pipeline`, two tries of
each retry loop distinguish a first from a last one. Kafka and Postgres may each be
down at the start, so that one later outage is a second one. Two mishaps allow a
kill and a relaunch, or a consumer that dies and a stop that finds it dead.

**What the pipeline shows.** `AcceptedIsSettled` has one exception that needs no
failure: with no committed offset, whatever the API accepted before the worker's
first assignment is never read. API and worker start side by side, and
`auto_offset_reset` is left at its default. The exception reappears after every
crash until a first commit. `TrafficNeedsSchema` rests on both `depends_on`
conditions, and on `kafka_init` asking for exactly the topics that are missing when
it runs again; it exempts the topics the broker refused. `HealthyEndsWithProcess`
names the two cases in which the healthcheck accepts a worker that is down: it was killed less than 20 s ago, or
its successor refused its settings, which is checked before `clear_ready`.

**What the faults decide.** The two `single_flight` properties fail when a rebalance
takes the partition from a live handler (`sent_overwritten` shows one way), and
`SendsWithinBudget` also with database errors. They are promises of the persisted
attempt count while one handler at a time has a job. `FinishedStaysFinished` is
checked with rebalances and every other fault: a job has finished when its row is
terminal and no handler of it has gone past its claim, and from then on the claim
and the skip keep it so, whichever statement of `try_claim_job` a late handler
stands at. It lets an EXPIRED row be saved again as EXPIRED. `PagingMissesNothing`
takes the times of creation to be distinct: `ORDER BY created_at` has no
tie-breaker, and rows of one instant may change places between two pages.

**Fairness.** `worker_live` assumes that a deployed worker starts, that a free
partition is assigned, that the clock moves and that a ready task runs. These
come from the container, the coordinator and the event loop. Nothing is assumed
of producers, providers or the database: calls may fail for ever, since every
failing path ends in a bounded number of steps. The broker answers in that run;
`consumer_stops` shows what happens if it does not. The scheduler is restarted by
its container (`restart: unless-stopped`), which justifies `WF(Start)`. In `pipeline`, scripts, startup
loops and cleanups go on (the event loop runs them), compose starts the worker once
it may, a live consumer joins its group, and it takes and settles what it reads,
which `worker_live` shows of the worker itself. Kafka and Postgres owe nothing:
they may stay down for ever.

**Deadlock** is checked in `scheduler`, which never stops. The worker and the API
may wait for ever for a message or a request, and in `attempts` all requests and
jobs come to an end.

## 4. Proofs

Every theorem holds for all values of the constants that satisfy the `ASSUME`s of
the modules, and under every fault, unless a table names a hypothesis. The inductive
invariants of the worker, the scheduler, the templates and the attempts were also
confirmed by TLC on the instances of the runs.

### Worker

`WorkerProofs` covers any workers and jobs, any times and any budget:

| Theorem | Statement | Hypotheses |
|---|---|---|
| `TypeCorrect` | `Spec => []TypeOK` | |
| `OffsetsMonotonic` | `Spec => CommittedNeverRewinds` | |
| `SentAccepted` | `Spec => []SentWasAccepted` | |
| `BudgetKept` | `Spec => []ClaimLeavesBudget` | `MaxAttempts > 0` |
| `FailedIsDeadLettered` | `Spec => []FailedReachesDlq` | `MaxAttempts > 0` |
| `NoLoss` | `Spec => []NoLossWithoutOrphan` | `MaxAttempts > 0`, `FreshGroup = FALSE` |

All use `WorkerAssumption` and `RepositoryAssumption`, which say only that the
constants have their types. `MaxAttempts > 0` is needed because the settings do
not exclude 0, and with 0 a claimed job is committed without an outcome.
`FreshGroup = FALSE` is needed because a new group skips what was published
before its first assignment.

`NoLossWithoutOrphan` is not inductive: whether a commit is harmless depends on
what was handed out before it. The inductive invariant `IInv` adds, backwards
from the commit:

- `PositionHandled`: everything below the owner's position is handled, except
  perhaps the message the owner has in hand;
- `CommitHandled`: a worker about to commit has a handled job;
- `RowsHandled`: a job with a row is handled - this is what the skip and the
  refused claim rely on;
- `HasRow`, `WithinBudget`, `Accepted`: what the retry loop relies on (the claimed
  row exists, an attempt is left, SENT follows an acceptance);
- `OffsetsOrdered`, `Typed`.

"Handled" means settled (accepted, dead-lettered or expired), or with a row and in
the hands of a worker, or with a row and orphaned. `HandledStep` shows that this
never ends; the other lemmas follow one conjunct each through all actions.

`ContractProofs` builds on it:

| Theorem | Statement | Hypotheses |
|---|---|---|
| `ImplementsDelivery` | `Spec => ImplementsContract` | `MaxAttempts > 0`, `FreshGroup = FALSE` |
| `CommitsTraced` | `Spec => CommitLeavesTrace` | |

The refinement maps initial states to the contract's initial state and, under
`IInv`, every step to one step of the contract or to a stutter (`ContractStep`). A
step that moves the committed offset is an `Ack` of the messages below it
(`AckSteps`). Any other step works on one job only (`Frame`, `StageKept`), and the
stage of that job moves along an edge of the contract (`StageMoves`, `JobMoves`).
The hypotheses are those of `NoLoss`, for the same two reasons. `CommitsTraced`
needs neither, as it has an invariant of its own: `CommitTraced` says that a
handled message has a row or a DLQ record, and `PositionTraced` that so has
everything handed out since the committed offset, except perhaps the message in
hand.

`SingleFlightProofs` is about what one row goes through:

| Theorem | Statement | Hypotheses |
|---|---|---|
| `FinishedStays` | `Spec => FinishedStaysFinished` | |
| `AttemptsMonotonic` | `Spec => AttemptsNeverRegress` | no `"rebalance"` |
| `SendsBounded` | `Spec => []SendsWithinBudget` | no `"rebalance"`, no `"db"` |

`FinishedStays` needs of the rows only that FAILED stands at `max_attempts`
(`RowsConsistent`), where `_should_skip` sees it. A handler gets past the claim only
over a row that is not terminal (`AttemptingEntered`), and to `mark_expired` only
over one that is not SENT or FAILED (`MarkExpiredEntered`).

The other two are false with rebalances, and the last one also with database errors:
such an error loses counts but never takes one back, so `AttemptsMonotonic` holds
although the `single_flight` run leaves "db" out. Their inductive invariant has two
layers. `SnapshotInv` needs no rebalances: only the owner of the partition handles a
message (`SoleHandler`), and its `attempts` are the row's, or one more while a result
is to be written (`Snapshot`). `FlightInv` adds what needs a database that answers:
the counts stay within the limit (`WithinLimit`), and every acceptance is a counted
attempt, one that is still to be counted, or lost in a crash (`SendsCounted`).

### Campaign scheduler

`SchedulerProofs` covers any campaigns, cron sets, limits, refusals and edits:

| Theorem | Statement |
|---|---|
| `SchedulerTypes` | `Spec => []TypeOK` |
| `RunsAccepted` | `Spec => []RunsWereAccepted` |
| `TriggersLimited` | `Spec => []TriggersWithinLimit` |
| `SlotsTriggerOnce` | `Spec => []OncePerSlot` |

None is inductive: the tick decides on snapshots while the rows are edited. `SchedInv`
adds that what is left of the tick holds each campaign once and that its snapshots
agree with the rows on what the scheduler alone writes (`BatchFresh`), that a
campaign is marked only if it was due (`MarksDue`), that nothing was triggered in the
future (`TimesPassed`), and three balances between accepted events, slots, recorded runs, the
event still to be recorded and the disruptions (`RunsBelow`, `RunsAbove`,
`RunsUseSlots`), with `RunsWithinLimit` for the recorded runs alone. A step either
keeps a campaign's counts, loses its update, or is one half of a recorded run
(`CountsMove`). The proofs use that campaign ids are a primary key.

### Templates and attempts

`TemplateProofs` covers any concurrent requests, and `AttemptProofs` any jobs,
templates and delay settings beside them:

| Theorem | Statement |
|---|---|
| `KeysNameOneTemplate` | `Spec => []OneTemplatePerKey` |
| `UpdatesTakeEffect` | `Spec => []UpdateTakesEffect` |
| `SoleWritersWin` | `Spec => []SoleWriterWins` |
| `PagesMissNothing` | `Spec => []PagingMissesNothing` |
| `AttemptsTyped` | `Spec => []TypeOK` |
| `DelaysFollowSetting` | `Spec => []DelayAsConfigured` |
| `OutagesBoundMadeUp` | `Spec => []MadeUpOnlyInOutage` |
| `CurrentTemplateSent` | `Spec => []SentCurrentTemplate` |

`TableInv` is the invariant of the table: the last version in `hist` is the row
(`HistMatches`), keys are unique (`KeysUnique`), a request that was answered has
written what it says (`RequestFlow`, `CreatedRows`), and what an update has loaded is
the version at which it read (`UpdatesRead`). `Growth` says that the table only
grows. Three properties need more: `FieldsTook` and `SoleFields` follow each given
field through the session that writes only the columns that changed; paging needs
`PagesSoFar`, by which a page in the order of `created_at DESC` can be displaced only by
newer rows (`Timestamps`, `StoredFinite`). `TemplatesAssumption` says that the rows at
the start obey the unique key, have distinct times of creation before the clock's, and
have nobody's fresh id.

`AttemptInv` says where an attempt stands (`AttemptFlow`: its count is within the
limit, a sleep was given the configured delay), that deliveries to made-up addresses
are covered by failed auth calls (`OutagesCover`), and that a message in hand shows a
version that was current since the attempt began (`MessagesCurrent`). `Moves` are the
four ways in which an attempt moves. `NumbersKept` and `DelayChosen` say what the
parsing of the setting yields for every list of parts. `AttemptAssumption` says that the
made-up address is nobody's contact.

`OrderingProofs` has no listed theorem. Its lemma `InOrderLists` says that `InOrder`
lists each element of a finite set once and ascending. `InOrder` is a choice of such
a list, since what a recursive sort returns could not be proved.

### Deployment

`PipelineProofs` covers any events, retry limits and bounds:

| Theorem | Statement |
|---|---|
| `DeploymentTyped` | `Spec => []TypeOK` |
| `JobPerPost` | `Spec => []OneJobPerPost` |
| `SchemaFirst` | `Spec => []TrafficNeedsSchema` |
| `ReadyCurrent` | `Spec => []ReadyIsCurrent` |
| `HealthEnds` | `Spec => []HealthyEndsWithProcess` |
| `StopCloses` | `Spec => []StopClosesAll` |

They use the type assumptions of the modules and nothing else. `StepCases` splits a
step of the deployment into what each module sees of it, so that each component has
an invariant and a step lemma of its own. `ProcessInv` says which connections are
open, and whether a ready file can exist, at each phase. `SchemaInv` says what each
await of the scripts knows of topics and tables, and that only launched services
run; topics are created by the scripts or on use and never go (`TopicStep`). `EventInv` counts a handler that is publishing as a job to come. `ApiInv` adds
that `start()` begins with an enabled publisher that holds nothing.

### Only model-checked

The liveness properties: `EveryMessageCommitted`, `OpenRowsSettle`, `FirstRunHappens`,
`AcceptedIsSettled`, `StopsAndStartsEnd`, `KafkaInitEnds` and `ApiStartupEnds`. They need fairness, hence `ENABLED`, which the prover does not
handle. The five properties of the documentation are refuted by TLC's
counterexamples and need no proof.

## 5. Not modelled

- Most of the configuration: settings are constants, DSN strings and logging are
  left out, and which payloads are valid is given by a constant.
- Several partitions: the repository creates one. Clock skew between hosts.
- The scheduler inside the pipeline: the API answers its events with 501 at this
  commit, so it adds refused posts and nothing else to the deployment.
- Several API processes and several workers in the pipeline; `Worker` has several
  workers, and the API keeps no state that processes share.
- Writes of health files that fail, and the `/health` route, which has no state.

## 6. Plan

Done, in this order: repository and worker with their faults, the worker's
properties and first proofs, scheduler, API; then the contract and its refinement,
templates and attempts, worker process, initialisation and the pipeline, and the
proofs about the pipeline; then the proofs of the refinement, of the single-flight
properties, and of the scheduler, the templates and the attempts.

Next: what a handler does between poll and commit as a decreasing measure, the part
of the liveness argument that is safety; and shorter proofs where one lemma can
serve two modules.
