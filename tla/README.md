# A verification project for the CAROP command center

CAROP watches the order flows of a retailer, diagnoses incidents, repairs them
with runbooks and replays the transactions that failed. It is a set of Python
(FastAPI) services around PostgreSQL, Kafka and Redis. This directory holds TLA+
models of the parts whose correctness depends on order, failure and concurrency,
TLC configurations that check them on small instances, and TLAPS proofs for every
value of the constants.

    tlc -config recovery_one_worker.cfg MCRecoveryQueue.tla
    tlapm RecoveryProofs.tla

Paths below are relative to `src/backend/`; services are in `services/<name>/app/`.

## 1. The system

| component | state | operations | talks to |
|---|---|---|---|
| transaction-monitor | `transaction_events`, `incidents`, the TPS window | ingest an event, create an incident, TPS | publishes `carop.transaction.events`, `carop.anomaly.detected` |
| orchestrator | Kafka offsets of its group, the handler's place | for each anomaly: diagnose, then queue for replay | diagnostic-engine, replay-engine (HTTP) |
| diagnostic-engine | `diagnostics`, `incidents.status`, `.root_cause` | diagnose | publishes `carop.rca.completed` |
| sre-agent | Kafka offsets, `automation_actions`, `incident_history`, `audit_logs`, `runbooks`, `incident_patterns`, Redis cache | consume RCA events, analyze, execute a runbook, verify, toggle a runbook | automation-engine, runbook-executor, dashboard-service, transaction-monitor, incident-service (HTTP) |
| automation-engine | `runbook_executions`, `incidents.status` | execute | publishes `carop.automation.requested` |
| incident-service | `incidents` | create, list, patch | - |
| replay-engine | `recovery_queue` | queue, replay, list | publishes `carop.recovery.queued`, `.replayed` |
| runbook-executor | YAML files, `runbook_executions`, whether its Kubernetes client is configured | run the actions of a runbook | the Kubernetes API, `ansible` |
| api-gateway, security | buckets in memory, counters in Redis | limit the rate, check roles | - |
| dashboard-service | none (reads the tables and the TPS window) | summary | - |
| frontend | none | render | dashboard-service |
| shared library | sessions, the producer | `get_db`, `init_db`, `publish`, TPS | all |

How they interact: by HTTP (httpx, 20 s timeouts), by Kafka messages published
*after* the COMMIT of what they tell (`publish` returns False on failure and no
caller looks), and through shared tables: four services write `incidents`.

What is hard, and what makes each part correct:

* **Async handlers with synchronous database sections.** A handler is `async def`
  and its section between SELECT and COMMIT has no `await`: within one uvicorn
  process sections are serial, across processes and services they are not. The
  recovery queue must not replay a row twice; a row of `incidents` updated from
  stale copies must stay consistent.
* **Consumption with `enable_auto_commit`.** Offsets of fetched records are committed
  whether or not they were handled, and nothing catches a handler's exception.
  Losses and redeliveries must be bounded by the failures that happened.
* **Actions before records.** sre-agent calls other services, then writes what it
  did. Records must be truthful and reports must rest on verification.
* **A cache in front of the catalog.** A decision cached for 300 s must not outlive
  the admin's switch for longer than that, nor may one replica's cache writes undo what
  another's toggle deleted.
* **Windows over time, in two kinds of store.** A rate limiter and the TPS window
  count in Redis or in the memory of a process, and choose when they start. Boundaries,
  trimming, expiry and lost counters must not let more through, forget recent events
  or count old ones.
* **Pages made of several queries**, between which the tables change: the numbers of
  one page must belong together.
* **Processes that start at once** against a database that is not up yet: none may
  give up too soon, and none may serve without its tables.
* **A runbook is a list of actions** on the outside world, followed by one COMMIT: a
  failed action must not hide the others, and what is stored must have happened.
* **Crashes** between a COMMIT and its message, or between an action and its record.

`PROJECT.json` lists all components, and under `hazards` each place where one of
these bites.

## 2. The modules

### RecoveryQueue (`replay-engine/main.py`) and RecoveryContract

`queue` is the table `recovery_queue` in insertion order, `clock` the `created_at`
values handed out. Each HTTP request has a program counter `pc`: one step for its SELECT
(`QueueLookup`, `ReplaySelect`, or an answer at once: `QueueAlready`, `ReplayMissing`),
one for its COMMIT (`QueueCommit`, which is `QueueInsert` or, against the unique key,
`QueueConflict`; `ReplayCommit`), one for its message (`Publish`, `PublishFails`).
`Free(w)` is the single thread of worker `w`. `UpdateRow` writes `retry_count` from the
value the SELECT loaded, as the ORM does. Failures: the database refuses (`DbRefuses`)
or loses the acknowledgement of a COMMIT (`DbLosesAck`), the broker is away, a process
dies.

`RecoveryContract` is the promise: a key goes from absent to queued to replayed,
and one request replays it. The table is mapped onto it by `StatusOf` and
`ReplayersOf`.

### EventConsumer (orchestrator `run`, sre-agent `consume_diagnostic_events`)

The two services share one loop. `position` is the fetch position of the client,
`cursor` the next record to hand over, `committed` the group's offset. A batch is
fetched whole (`Fetch`), its records handled one by one (`Begin`, `Return`), and
`stop_event` is looked at between batches only (`Close`). `AutoCommit` commits
`position` at any time. `Raise` ends the task while the process lives on. The Kafka
client is external and modelled from this use. A group has one member and the topic
one partition: rebalances are left out.

`DeliveryContract` is what this amounts to for whoever relies on the records being
handled, without offsets: each record becomes pending, and is settled for good as
handled or lost, oldest first. A `Fail` may lose some of the oldest that wait, all of
one batch; a `Skip` loses all that wait, and happens only while no offset is committed
and after a failure (`auto_offset_reset="latest"`). `FateOf` reads the fate of a record
off the offsets. Redelivery is no part of it: `RedeliveryBounded` counts that.

### IncidentLifecycle (transaction-monitor, diagnostic-engine, automation-engine, incident-service)

`incidents` is the shared table. A request of a service that loads a row keeps it in
`seen`, and its COMMIT writes the columns whose assigned value differs from the one
*loaded* (`Written`), which is how SQLAlchemy builds its UPDATE. So two services may
each overwrite what the other wrote, column by column. Each service has `Replicas`
processes; `Free(s)` says that one of them is not between a SELECT and its COMMIT, and
`Crash(s)` takes the requests of one with it. `topic` holds who published
what; a failed transaction is announced twice, as an event and as an anomaly.

`IncidentContract` is what a reader of the table may rely on, as if one service wrote
it and each write were a single step: incidents are only added, a cause once known stays
known, "resolved" comes with its time (`Revise`). The one trace of the races that it
admits is that a writer may leave the status another has set since: its UPDATE names the
column only if it differs from the copy it loaded.

### RunbookDecision (sre-agent `decision_engine.py` and the catalog's PATCH)

`cache` is `sre:pattern:<key>` in Redis with the age of each entry, `off` tells for
how many ticks a runbook has been disabled. `Hit`, `Miss`, `Lookup`, `LookupFallback`,
`Store` are `select_runbook`, step by step, with the gate of `process_incident` at the
end; `ToggleLoad`, `ToggleCommit`, `ToggleDelete`, `Audit` are the toggle; `Start` and
`Seed` the start-up, where the connection to Redis is tried once and for all. A tick is
300/TTL seconds.

A section of one replica is cut into its database and Redis calls, so that those of
others fall between. Five variables are history: `held` tells for how long a selection
has had what it read from the catalog, which its entry keeps; `overtaken` are the
replicas whose section read what a toggle has changed since; `kept` are the keys whose
entry a toggle failed to delete or an overtaken selection stored; `unclear` are the
runbooks whose latest toggle was cut short or met another; `late` is the longest that a
runbook which passed the gate had been off, less `held` of the selection that decided.

### Remediation (sre-agent `process_incident`, `runbook_executor.py`, `verification_engine.py`)

Jobs come from the consumer, one at a time, and from two APIs, beside it. A job goes
through `Decide`, `Automate`, `Run`, `Record`, `Verify`, perhaps a second round with
the fallback, `Close`, `Report`; each awaited call is one step, with what it may
answer. `performed` is what automation-engine really did, which the agent cannot see:
a timeout may or may not have had an effect. An exception ends a job (`End`), and
the consumer task too when the job came from it.

### RateLimit (api-gateway middleware, sre-agent `security.py`)

For one key. A process counts in memory, over the last minute (`AllowLocal`,
`RefuseLocal`; `bucket` is what it remembers of `passed`), or in Redis, per minute of
the clock (`AllowShared`, `RefuseShared`; `counter` per slot). The gateway is the case
`Backends = {"memory"}`; sre-agent tries Redis once, at `Start`. A verdict is one step:
the middleware awaits nothing before it, and INCR is atomic. `Unanswered` is an
INCR whose reply is lost, or a failing EXPIRE, which nothing catches (500).

### TpsWindow (`tps.py`, used by transaction-monitor and dashboard-service)

For one application. `zset` and `expiry` are `carop:tps:<app>` in Redis, `deque` the
memory of each process. A recorder's request takes one step per call to Redis (`Add`,
`Trim`, `Expire`) or one in memory (`RecordLocal`), then its `Commit`; it may `Fail`
before any of them. `Status` is the row a snapshot shows. `lost` (history) are events
Redis lost in a restart, or that went with the key in the moment between `Add` and
`Expire`.

### DashboardSummary (dashboard-service `dashboard_summary`, extends TpsWindow)

`rows` and `ok` are the committed events and the successful ones among them; a page
(`Call`, `CountTotal`, `CountSuccess`, `Show`) takes one step per query, so that commits
fall between them (READ COMMITTED), and keeps in `since`, `total` and `success` what the
handler has in its locals. `between` (history) are the rows that were committed after
the first count and before the second. The recorders' steps are those of TpsWindow, each
with what it does to the table (`Arrives`, `Commits`, `Fails`).

### ClosedLoop (orchestrator `_handle_anomaly`, with EventConsumer and RecoveryQueue)

The way of a failed transaction into the recovery queue. It composes the consumer
(`Consumer == INSTANCE EventConsumer`) and the queue (EXTENDS RecoveryQueue): what
EventConsumer takes as one step, a record's handling, becomes `HandlerBegins`,
`Diagnose`, `SendPost`, `HandlerReturns`, and the requests of RecoveryQueue arrive when
the handler has sent them. `step` is the await the handler is at, `sent` the request it
waits for, `source` the record a request was sent for, `diagnoses` how often an
incident was diagnosed. `HandlerRaises` is a timeout or a broken connection:
replay-engine goes on with a request whose client is gone, and the record may come
again beside it.

### Startup and RunbookExecutor (`db.py` `init_db`; `runbook-executor/main.py`, `runbook_engine.py`)

`boot` is the place of each process of all services on its way from `down` to
`serving`, `attempt` its turn of the loop in `init_db`, `excuse` why its last start
failed, `missed` the attempts of that start that did not reach the database, `raced` the
starts it lost to the creation of the tables. `Managed` are the processes that Kubernetes
restarts. `Create` wins the race for the tables, `CreateRaced` gets the IntegrityError
that is swallowed, `CreateTooLate` the ProgrammingError that is not, `Outage` the
OperationalError that is tried again two seconds later.

RunbookExecutor adds the requests of one of these services. A runbook is a sequence of
actions of four types, `k8s`, `ansible`, `note` (the types that are only written down)
and `bad` (what raises whatever the world does). `Result` appends what one action gave;
`performed` is what it did outside, of which a failure says nothing. `Save` stores all
results in one COMMIT; `cut` are the requests whose COMMIT the database was away for. The
handler awaits nothing, so `Free(p)` is the whole process.

### MC and Proofs modules

`MC<M>` instantiates `M` for TLC (symmetry, the seeded patterns); `<M>Proofs` proves
theorems about `M`. Operators commented `Mutant:` are plausible bugs: put in place of
the operator they stand before, each breaks a property, which shows that the property
depends on that code.

## 3. The runs

| run | what it shows |
|---|---|
| `recovery_one_worker` | One process of replay-engine, as docker-compose runs it, under every failure: no row is replayed twice (`ReplayedAtMostOnce`), `retry_count` is exact (`RetryCountExact`), rows go oldest first (`OldestReplayedFirst`), messages follow commits (`MessagesFollowCommits`), and the table implements the contract (`ImplementsContract`). |
| `recovery_double_replay` | *violation*: two processes replay the same row; the UPDATE does not ask for `status = 'queued'`. |
| `closed_loop` | orchestrator and two processes of replay-engine, each of which may die: there is one row per key although records come again and requests race, so that COMMITs meet the unique key (`OneRowPerKey`), a record whose handler returned has its row unless replay-engine answered 500 (`HandledMeansQueued`), an incident is diagnosed at most once more per crash or missed commit (`DiagnosesBounded`), and every record is settled in the end (`EveryAnomalySettled`). |
| `consumer_faults` | A record is handled at most once more per crash or missed commit (`RedeliveryBounded`), one batch at most is lost per exception or crash (`LossBounded`), without those nothing is lost or repeated across shutdowns and restarts (`CleanRunsLoseNothing`), records are settled in the order of the topic and for good (`ImplementsDelivery`), and every one is settled in the end (`EveryEventSettled`). |
| `consumer_dies` | *violation*: one exception and no later record is ever handled. |
| `incidents_safety` | Four services of two processes each on one table: a diagnosis is never erased (`DiagnosedHasRootCause`), messages follow commits (`EventsFollowCommits`), and to a reader each write is one step of the contract (`ImplementsIncidentContract`), so that no interleaving of stale copies forgets a cause or parts "resolved" from its time. |
| `governance` | Two replicas, as Kubernetes deploys them, that interleave, crash and lose Redis: between toggles a cached decision for a pattern with its own runbook agrees with the catalog, except an entry that a toggle failed to delete or that the other replica stored with what it had read before (`DefaultEntriesFresh`); no selection lets a runbook pass the gate that has been off for more than TTL plus the time its decision was held before setex (`StaleAtMostTTL`); hits do not renew stale decisions (`StaleEntriesExpire`); seeding, by both at once too, does not undo a toggle (`SeedingKeepsCatalog`); the latest audit row of a runbook tells its state, unless its latest toggle was cut short or overlapped another (`AuditTellsCatalog`). |
| `remediation_faults` | A recorded success was performed (`SuccessesHappened`), an incident is given up only after the secondary runbook (`EscalatedBeforeGivingUp`), a closed one was verified (`ClosedWasVerified`), an unrecorded action is the last of a job cut short (`UnrecordedEndsJob`), and every job comes to its report, an exception or a crash (`EveryJobReported`). |
| `remediation_disabled` | *violation*: the secondary runbook is started although it is disabled. |
| `ratelimit` | Two processes, each in memory or in Redis: a process in memory lets at most the limit through in any minute (`LocalLimit`), the processes in Redis together in a minute of the clock, plus once more for each loss of Redis (`SharedLimit`), and a refusal has its cause (`RefusalJustified`). |
| `tps` | Two recorders and a dashboard, in Redis or in memory: committed events of the window are counted (`NothingForgotten`), the two counts of a page's success rate differ from those of one moment by exactly the payments committed between them, so that this is the only way for the rate to pass 100 % (`CountsDifferByCommits`), and the two halves of a page agree (`HalvesAgree`). |
| `runbooks` | Two processes start at once while the database comes and goes: who serves has its tables (`ServingHasTables`), a process gives the database up after its own 20 attempts, no sooner and no later (`GivesUpAfterAttempts`), the creation of the tables by another costs a process one start at most (`RaceLostOnce`), every start comes to an end, and what Kubernetes restarts serves in the end (`EveryStartEnds`). What runbook-executor stores of a run is complete (`StoredRunsComplete`) and true (`StoredSuccessesHappened`), and what it did without storing it belongs to a run cut short (`UnstoredWasCutShort`). |

A type invariant that is proved for every value of the constants is not checked again
by a run; the same goes for `MemoryBounded` of TpsWindow and for `ResolvedHasTimestamp`,
which `ImplementsIncidentContract` implies.

**Bounds.** Recovery: four requests on one process, two transactions, two flow types:
two requests suffice to race, the third and fourth queue a second row or come late; the
violation needs two processes, one transaction, three requests. Closed loop: two records
about one transaction in one batch, three requests, so that a record can come again
after a crash while its first request is still under way, two processes of
replay-engine, one fault of each kind. Consumer: four records, batches of two, so that a
batch can be cut in the middle, and each of four faults twice. Incidents: four requests
that choose their operation freely on a table that starts empty, so that a row is
created and then written by three others, two of which may be processes of one service.
Governance: two replicas, one pattern with its own runbook and the fallback, TTL two
ticks, two toggles, so that toggles overlap each other and a selection, and a decision
held for up to two ticks before its setex (later ones are beyond the run); keys without
a row, and several keys of one runbook, are covered by the theorems only. Remediation:
two jobs of any kind on one incident. Rate limits: two requests per minute of two ticks,
two minutes, so that a bucket fills, slides and meets the boundary of the clock; three
counted requests per minute, one of them over the limit; one loss of Redis. TPS: window
of two ticks, one of grace, time to three, so that a key may expire while a later event
is young; two events, pages that count one tick back. Runbooks: two processes, of which
Kubernetes restarts one, two attempts, and as many outages as make a start fail; one
crash; two requests for a runbook of `k8s`, `note` or one of `bad`, `ansible`. Requests,
transactions, processes and jobs are interchangeable and reduced by symmetry, except
where liveness is checked. Deadlock is not checked where the finitely many requests,
records or jobs are used up, or time ends, in the end.

**Fairness.** `WF(Consume)` in EventConsumer: the event loop runs the task and the
handler's HTTP calls time out. `WF(Restart)`: Kubernetes restarts a container that
ended. The manifests give this to sre-agent only (`infra/k8s/base/core-services.yaml`
deploys api-gateway, dashboard-service, sre-agent and redis); for orchestrator, in the
closed loop, it is an assumption about whoever operates it, since docker-compose has no
restart policy. Without it nothing eventual holds after a crash. Neither shutdown,
commits nor new records are fair. ClosedLoop says the same of a handler in several
steps: the event loop goes on with consumer and handler (`WF(Handler \/ ConsumerStep)`),
a call whose answer will never come times out after 20 s (`WF(Unanswered /\
HandlerRaises)`), and replay-engine goes on with a request that reached it
(`WF(Underway(r) /\ Serve(r))`); a call that is answered need not raise. `WF(Tick)` in
RunbookDecision: time passes, and Redis expires keys; nothing else is assumed.
`WF(Proceed(j))` in Remediation: every awaited call returns or times out (httpx, 20 s)
and the event loop goes on with the job. `WF(GetsOn(p))` in RunbookExecutor: a process
gets on with its start; `WF(Starts(p))`, that it is started again, only for those of
`Managed`, the Deployments of `core-services.yaml`. runbook-executor is not among them.
Nothing is assumed of the actions of a runbook: neither `subprocess.run` nor the client
of Kubernetes is given a timeout.

## 4. The proofs

All hold for any number of requests, processes, records and any set of faults.
Assumptions are the named `ASSUME`s of the modules, which the runs evaluate.

* **RecoveryProofs, the queue.** `TableInv` = types, `Phases` (which program counters go
  with which `item`), `Announced` and `OneRowPerKey`. `Phases` is needed to know that
  the row a COMMIT writes is there. It gives `TypeCorrect`, `DeduplicationCorrect`
  and `AnnouncementsCorrect` for any number of processes. `SerialInv` says for a
  single process that a request between SELECT and COMMIT holds the oldest queued row
  and its current counter, and is the only one there; with it follow `NoDoubleReplay`,
  `RetriesCounted`, `OldestFirst` and `Refinement`. These assume `SingleWorker`;
  `recovery_double_replay` shows that they must. For any number of processes
  `ReplaysStay` adds what remains true of a row that two of them replay: it keeps its
  place and key and is never queued again.
* **RecoveryProofs, the closed loop.** Every step of the loop is a step of the queue or
  leaves it alone (`LoopRunsTheQueue`), and a step of the consumer or leaves it alone
  (`LoopRunsTheConsumer`): the detailed handler implements the one that EventConsumer
  abstracts, and the theorems about both modules hold of the composition
  (`LoopDeduplicates`, `LoopImplementsContract` for one process of replay-engine,
  `LoopDelivers`). `HandlerInv` says that the diagnoses of a record, with
  the one in progress, are at most its attempts, which RedeliveryIsBounded bounds
  (`HandlerTypeCorrect`, `DiagnosesAreBounded`). `QueueingsServed`: a request of the
  handler that is done put its key into the table, found it there, or answered 500
  (`HandledRecordsAreQueued`).
* **EventConsumerProofs.** `ConsumerInv` = types, the order
  `committed <= position <= logEnd`, `cursor <= position` (`OffsetsOrdered`), the
  attempts of a record against its place relative to the offsets and the failures so
  far (`AttemptsInv`), and what orderly runs keep (`CleanInv`): `ConsumerTypeCorrect`,
  `RedeliveryIsBounded`, `OrderlyRunsAreExact`. `LossIsBounded` adds that a step loses
  at most the rest of a batch, a set of at most `BatchSize` records, and counts it
  against the failure that struck. `DeliveryRefinement` needs more, since the offsets a
  fate is read off move forward before the handler runs and back when the process ends:
  `SettledInv` says that what the loop has passed unhandled is below the *committed*
  offset, and what a start skipped below every later place, so that no lost record comes
  back; with it each action is one step of the contract or none (`ProduceIsArrive`,
  `ReturnIsHandle`, `StartIsSkip`, `CommitIsAnchor`, `FailingIsFail`, `LoopIsStutter`).
  That the records a failure costs are the oldest and of one batch follows from
  `BatchBounded`.
* **IncidentLifecycleProofs.** `IncidentInv` = types, `ResolvedHasTimestamp`, and for
  each request `RequestInv`: what it loaded is an older version of its row (`Loaded`),
  its diagnosis gave the row a cause (`Diagnosis`), its place fits what it committed
  (`Publishing`). That `resolved_at` and `root_cause` are never cleared is what makes
  stale copies harmless, and is proved of each kind of update (`DiagnosedMayReplace`,
  `AutomatedMayReplace`, `PatchedMayReplace`). The step proof has one lemma per action
  and one saying that other requests are left alone. None of it rests on how many
  processes a service has, so `Replicas` is any number: `IncidentTypeCorrect`,
  `ResolutionIsStamped`, `RootCauseIsKept`, `AnnouncementsFollowCommits`.
  `IncidentRefinement`: a COMMIT from a stale copy tells readers one `Revise` of the
  current row (`DiagnosedIsTold`, `AutomatedIsTold`, `PatchedIsTold`), an insertion is a
  `Report`, and all else a stutter, a COMMIT without effect included.
* **RateLimitProofs.** `LimitInv` = types; `LocalInv`: a process remembers all its
  requests of the last minute, in order, so the `Limit + 1` latest are a minute apart
  (`OneMore`, by the cardinality of an interval); `SharedInv`: the requests of the
  current minute are the latest `Capped` ones, or `Limit` more per loss of Redis, and
  minutes to come have no counts; `RefusalInv`: counts up to the limit stand for
  requests let through or unanswered. They give `LimiterTypeCorrect`,
  `LocalLimitHolds`, `SharedLimitHolds`, `RefusalsJustified`. Order of minutes rests
  on `DivMonotone`.
* **TpsWindowProofs.** `WindowInv` = types, `Kept(i)` for committed events (Redis has
  them while they are young, and the key expires later than they do) and
  `RecorderInv`: an event between `Add` and `Expire` is only `Safe`, since the expiry
  it relies on is not set yet. `Keeping` shows that no step of any process breaks
  either. Results: `WindowTypeCorrect`, `NothingIsForgotten`, `MemoryIsBounded`.
  Every step of the pages is a step of the window or a stutter
  (`WindowUnderPages`), so all of this holds beside them. `PagesInv` adds that
  the total is a set of rows younger than `since`, and which rows are in the total, which
  in `between`. It gives `SummaryTypeCorrect` and `CountsDiffer`; with what Redis keeps
  (`Kept`) it gives `PagesAgree`.
* **RunbookDecisionProofs.** All of it holds for any number of replicas.
  `FreshInv`: a cached decision that contradicts the catalog is one a toggle is about to
  delete or is in `kept`, and a selection whose choice contradicts it is `overtaken`, so
  that what it stores will be in `kept` (`DecisionsAreFresh`). `StaleInv`: the runbook of
  a cached decision has been off for at most the age of the entry plus what it was held
  plus one, and that of a decision not stored yet for at most what it is held plus one
  (`StalenessIsBounded`); plus one because `off` counts from one, 0 being enabled.
  `AuditInv`: unless it is `unclear`, at most one toggle of a runbook is on its way to the
  audit row and asks for what the catalog says, and if none is, the latest row tells it
  (`AuditIsTrue`). `DecisionTypeCorrect` and `CatalogIsKept` need the types only.
* **RemediationProofs.** An invariant per job, in the way of IncidentLifecycleProofs:
  which checks, answers and records go with the job's place and round, and that every
  performed action is recorded or the one in hand. Other jobs are left alone. Results,
  for any number of jobs and any catalog: `RemediationTypeCorrect`, `RecordsAreTrue`,
  `EscalationComesFirst`, `ClosingFollowsVerification`, `NothingAfterUnrecorded`.
* **RunbookExecutorProofs.** `ExecutorInv` = `StartupInv` (types, tables;
  `AttemptsMissed`: the attempts of a start before the one it is at are those it missed,
  and a start that failed for an outage missed them all; `RaceOver`: who lost the race
  once finds the tables and does not create them again), types, and three statements
  about requests. `RunsInStep`: the results in hand, and the rows stored, fit the
  request's place in its runbook. `SuccessesHappened`: a result that tells a success of
  `k8s` or `ansible` is in `performed`. `EffectsHaveResults`: what was performed has a
  result, so that it can only be missing from the rows while the request is at it or was
  cut short. The step proof has one lemma per action and one saying that a step of one
  request leaves the others alone. Results, for any number of processes, attempts,
  requests and any runbooks: `ExecutorTypeCorrect`, `ServersHaveTables`,
  `AttemptsAreMade`, `RacesAreLostOnce`, `RunsAreStoredWhole`, `StoredSuccessesAreReal`,
  `UnstoredWorkIsExcused`.

Only model-checked: the five liveness properties (`EveryEventSettled`,
`EveryAnomalySettled`, `EveryJobReported`, `StaleEntriesExpire`, `EveryStartEnds`),
whose fairness and ENABLED are out of the prover's reach. Every invariant and every
action or refinement property of the runs is a theorem.

## 5. What the models show of the code beyond the runs

Worth a maintainer's attention, seen while modelling and not refuted by a run of their
own: an incident whose publication fails is never announced, since `publish` returns
False and no caller looks (`transaction-monitor/main.py:107`, against
`docs/architecture.md:100`); a transaction that fails again after its replay is answered
`already_queued` (`replay-engine/main.py:48`); a late diagnosis puts a resolved incident
back to `diagnosed` (`diagnostic-engine/main.py:64`); a decision cached for the fallback
survives the fallback's own toggle (`decision_engine.py:169`); with two replicas of
sre-agent, as in `infra/k8s/base/core-services.yaml`, a decision read before a toggle
may be stored after it (`decision_engine.py:145`), and is then used for up to a TTL from
its setex; two toggles of one runbook at once may lose an UPDATE, when the value loaded
is the one asked for, and leave an audit row that is wrong; a crash after the COMMIT of
a toggle leaves it without audit row (`sre-agent/main.py:286`, against
`docs/sre-agent.md:49`: "Audit logging for every automated action and governance
change."); the gate bounds selections only: neither the secondary runbook nor a runbook
named to the execute API passes it (`sre-agent/main.py:124`, `:231`); a 403 for a
disabled runbook is raised in the consumer task and ends it (`sre-agent/main.py:110`); a
report may say `resolved` although incident-service refused to close the incident
(`verification_engine.py:62`), and verification may rest on one of its two checks
(`verification_engine.py:55`); a dashboard that misses Redis when it starts shows every
application as dropped from then on, and a transaction-monitor that misses it records
where nobody looks (`tps.py:68`); the first event after a long silence may vanish with
the key it was added to (`tps.py:96`); once connected, a failing Redis turns every
request of sre-agent and every ingested event into a 500 (`security.py:44`,
`tps.py:94`); requests that were refused or never answered use up the rest of a minute's
limit only, but a client may pass twice the limit around a full minute, and a gateway or
agent in memory grants the limit per process; of two processes that create the tables at
once the later may meet an "already exists", a ProgrammingError, which ends it, although
the comment says that such races are swallowed (`db.py:181`: "Retry until DB is
reachable and swallow concurrent create-table races."; only where something starts it
again, which docker-compose does not, does it then find its tables, and `RaceLostOnce`
admits the failed start for that reason); runbook-executor answers `completed` even if
every action failed (`runbook-executor/main.py:73`), and stores a success for actions it
only writes down (`runbook_engine.py:112` and below); a runbook blocks its process,
health check included, for as long as ansible takes (`runbook_engine.py:107`); the
success rate of the dashboard exceeds 100 % when a payment is committed between its two
counts (`dashboard-service/main.py:53`), a rate the payments never had; and one
`latency_ms` of an inventory event that is not a number makes the summary a 500 for a
minute (`dashboard-service/main.py:70`).

## 6. What is not modelled

Authentication, configuration and the frontend have no state that
histories could spoil, and the other numbers of the dashboard are single queries.
Rebalances of a consumer group with several members, the
producer's start and stop and the connection pool are left
out of the models above. The inference of service and error type from a root cause is
abstracted to the choice of a runbook. The outcome of an action outside, in Kubernetes or by
ansible, is a free choice of success and effect.

Small deviations, which no property depends on: in Remediation an error answer of
automation-engine is taken to be without effect, although it may answer 500 after its
COMMIT, and an exception inside `select_runbook` is left out (RunbookDecision has it as
`StoreFails`); RateLimit reads the clock at the INCR, `security.py:42` a moment before it;
RunbookExecutor has no malformed YAML file and no action that is not a mapping, which raise
outside the `try` of the engine (the runbooks in `infra/ansible/playbooks` are well-formed).

## 7. Plan

What is left, in this order:

1. Consumer groups of two members: rebalances in EventConsumer, under which a record
   may be handled by two members at once; the closed loop over it.
2. RootCause (`_infer_service_error_type`): a pure function, checked against the
   causes diagnostic-engine produces.
3. sre-agent's consumer composed with Remediation as orchestrator's is with
   RecoveryQueue: a record redelivered while its first job still runs.
