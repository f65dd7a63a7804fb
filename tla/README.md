# Formal verification of the data-analysis service

TLA+ models of the data dashboard and statistics service in this repository, checked by
TLC on small instances and proved with TLAPS where a theorem says so. Paths below are
relative to the root of the repository; `aggregation/x.go` abbreviates
`internal/aggregation/x.go` and so on.

## 1. The system

The service mirrors data of other subsystems (contracts, customers and opportunities,
projects, settlement) into its own MySQL tables and serves dashboards from them. Three
kinds of process share that database: `cmd/dashboard-api` (HTTP), any number of
`cmd/aggregation-worker`, and `cmd/alert-worker`. They never talk to each other directly;
every interaction is a row, a row lock or a named lock of the database. All processes
consult a licence whose verdict may change at any moment.

### Components, their state and operations

| component | state | operations | correct when |
|---|---|---|---|
| sync queue and leases (`aggregation/queue_lease.go`) | `sync_job`: status, active_key, lease owner, generation, expiry | claim, heartbeat, fenced write, finish, pause, takeover | one open job per source; only the last claimant publishes; a finished job stays finished; every open job ends |
| worker passes (`aggregation/worker.go`) | none of its own | one pass after another: sources, import report, queue, dashboards | a failing channel does not stop the others |
| source lock (`aggregation/source_lock.go`) | named lock of a database session | non-blocking acquire, release | one worker per tenant and source |
| scheduled rounds (`aggregation/aggregation.go`) | `sync_source`: status, last run, last success | lock, mark RUNNING, run, mark the result | the watermark never goes back, whoever writes it |
| overlap guard and precompute (`aggregation/sync_run.go`) | `sync_run` | begin, count the overlaps, skip, finish | facts are computed only from what the round was to copy |
| legacy recovery (`aggregation/legacy_recovery.go`) | `sync_job_recovery_audit` | preview, recover all or none | legacy rows move only with an audit record, workers stopped |
| project projection (`aggregation/project.go`, `apisync.go`, `project_stream.go`) | `project_projection_state`, `..._stage`, `dim_project` | begin, reclaim, stage, publish, fail | readers see one whole verified snapshot; a superseded attempt writes nothing |
| guarded upserts (`aggregation/aggregation.go`) | `dim_contract`, `dim_customer`, `dim_opportunity` | versioned upsert, source scan | an older source row never overwrites a newer one |
| dashboards by API, business, conversion, approval (`apisync.go`, `business.go`, `conversion.go`, `contract_approval.go`) | snapshot tables | read, replace | each snapshot is replaced atomically |
| contract import report (`aggregation/import_report.go`, `internal/importreport`) | `contract_import_report_run`, `..._status`, `contract_import_history` | take a generation, fetch, read the facts, publish, fail; status and history pages | a verification that is shown was made; what is reported is current; the last run wins |
| audit outbox (`internal/auditoutbox`) | `bi_audit_outbox` | append in the business transaction, claim, deliver, mark, purge, count | no event is lost; a reported event stays reported; failures stop at the limit |
| platform audit reporter (`internal/platformaudit`) | HTTP client | report | a redelivery is recognised as such |
| required-audit middleware (`internal/middleware`) | buffered response | report, then release the response | no success is shown without its audit event |
| shutdown (`internal/shutdown`) | tracked goroutines | go, stop, wait | every tracked goroutine is waited for |
| alert worker and alert pages (`internal/alertworker`, `internal/modules/alerts`) | `alert_item` | evaluate, upsert, reconcile, acknowledge, close | an alert closes after the configured misses; what a person closed stays closed |
| administration (`internal/modules/admin`) | `sync_job`, `alert_rule` and its versions | trigger a source, list, replace, delete rules | a repeated trigger makes no second job; no edit is lost; alerts keep their rule |
| OIDC sessions (`internal/oidc`, `internal/sessiongovernance`) | `oidc_session`, login transactions, verdict cache | login, authenticate, touch, refresh, revoke, back-channel logout | a revoked or expired session is never used again |
| embed bridge (`internal/embedbridge`) | embed records | issue, exchange, use | a token is used once, within its session |
| metric dictionary (`internal/modules/dictionary`) | `metric_definition`, `metric_definition_version` | list, create, change, enable, disable, delete | no edit is lost, the history is whole |
| standard facts, dashboard queries, migrations, licence core, catalogue, metrics, bootstrap | own tables or none | ingestion, queries, wiring | see PROJECT.json |

### Interactions and hard behaviours

- **Queue and rounds.** Both channels run in every worker, take the same named lock and
  write the same `sync_source` row and dimension tables. Only the queue has a lease; the
  named lock belongs to a database session that may end while its worker goes on.
- **Stale knowledge.** A pass lists jobs, then locks a source, then claims: the list may be
  stale at each step. A worker may stall, be replaced and wake up inside a transaction.
- **Clocks.** Leases run on the clock of the database, round watermarks on host clocks.
- **Cancellation.** Timeout, shutdown, heartbeat failure and licence lapse interrupt a run
  anywhere, each with its own way out (pause, abandon, fail).
- **Crashes.** A process that dies leaves a RUNNING row, a staged snapshot, claimed
  outbox rows, an open round record or a half-rotated refresh token behind.
- **Deliver at least once.** The outbox redelivers after crashes and timeouts.
- **Caches.** Session verdicts are cached while sessions are revoked elsewhere.

PROJECT.json lists the hazards line by line with the properties that cover them.

## 2. Plan

The modules in the order in which they were written.

| module | composes | abstract specification | status |
|---|---|---|---|
| `SyncQueue` | queue, passes, rounds, named lock, legacy recovery, `CreateSyncJob`, licence | `SyncJobs` | checked, safety and refinement proved |
| `ProjectProjection` | the transactions of an attempt and the reader of the dashboards | `ProjectView` | checked and proved |
| `AuditOutbox` | append, dispatchers, platform | - | checked, safety proved |
| `ImportReport` | runs of the report, the contract system, the two readers | - | checked and proved |
| `SyncRound` | round records, overlap guard, guarded upserts, precompute | - | checked and proved |
| `AlertLifecycle` | alert workers, alert pages, alert rules | - | checked, safety proved |
| `Portal` | `Session`, `CentralSession`, `LoginFlow`, `RequiredAudit`, `EmbedBridge` | - | checked and proved |
| `MetricCatalog` | rows, snapshots, administrators with stale pages | - | checked and proved |

What would come next: the publication of standard facts, then the dashboards by API and the
shutdown group as small modules, the advisory lock of the migrations. Every safety property
of the passing runs and both refinements are stated by a theorem; what liveness needs from
the invariants (`OpenRowsAreDue` for the outbox) could be proved for the other modules too.

## 3. The modules and the code

Every module `M` that is run has `MProps` (its properties), `MProofs` (its theorems, where
it has some) and `MCM` (values for TLC). PROJECT.json maps every definition to its lines.
Definitions whose comment begins with "Mutant of" are deliberate errors; they take no part
in any specification and only serve to show that a property can fail.

### SyncQueue, SyncJobs

State: `job` is the table `sync_job` (with the lease as the time left, `ttl`), `recovered`
the audit of legacy recovery, `source` the table `sync_source`, `dim` whose batch reached
the dimension tables of a source last, `rowLock` the row locks of open transactions, `lock`
the named locks, `wk` the local state of the worker loops, `now` the database clock,
`licensed` the verdict of the licence. `claimant` is history: the last claimant per source.

| stage (`wk.pc`) | code | actions |
|---|---|---|
| `idle` -> `round` -> `sync` | `runScheduledSources` | `StartRound`, `RoundTake`, `RoundSkip`, `RoundWrite`, `RoundFinish`, `RoundEnd` |
| `due` -> `pass` | `runLeasedQueue`: list the claimable jobs | `StartQueue`, `PassEnd`, `AbortPass` |
| `locked` | the named lock is held | `TryLock`, `SkipJob`, `Claim`, `ClaimMissed`, `ClaimError` |
| `run`, `tx` | `executeQueueJob`, `aggregationWrite` | `WriteBegin`, `WriteRefused`, `WriteCommit`, `WriteRollback`, `RunEnds`, `Renew`, `BeatFails`, `Cancel` |
| `ended` | the source has returned | `Abandon`, `Finish`, `Pause`, `FinishFails` |
| `release` | deferred release of the lock | `Release` |

`CreateJob` is the administration's trigger, `RecoverLegacy` the operator's command, and
`Crash`, `DropSession`, `LapseLicense`, `RenewLicense`, `Tick` the environment. A write
transaction is two steps, because the row lock it takes on its job is what makes the fence
hold: `WriteBegin` locks and checks the row, `WriteCommit` checks the lease again.

`SyncJobs` is the promise to whoever triggers a job: one open job per source, one runner per
job, only a runner publishes, done is done. The refinement (in `SyncQueueProps`) maps a row to its
`Phase` and the runner of a job to the owner of an unexpired lease (`Runner`).

### ProjectProjection, ProjectView

State: `state` is the row of `project_projection_state` (generation, status, published run,
snapshot and total), `stage` the staging table, `dim` the table `dim_project`, `wk` the
attempt each worker has in hand. `Begin`, `Reclaim`, `Request`, `ReadRow`, `ReadEnd`,
`Stage`, `Publish` and `Fail` are the transactions and the steps of the stream reader;
`Stumble` is any error, `Vanish` a refused failure transaction or a crash. The named lock
and the lease are left out on purpose: any number of attempts overlap, so that what is shown
rests on the generation alone. The run id and the generation of an attempt are drawn
together and are one number here. The contents of a line, its validation and its checksum
are abstracted to a line that arrives or is lost; a lost line makes the checksum wrong.

`ProjectView` is the promise to the readers of the dashboards (`scopedProject`, the operator
`Visible`): nothing or one whole snapshot, changed only by the attempt whose turn it is.

### AuditOutbox

State: `row` is the table `bi_audit_outbox`, `records` the records the platform has of an
event, `wk` the batch and the entry a dispatcher has in hand. `Append`, `Claim`, `Report`,
`MarkDelivered`, the two statements `MarkFailedRead` and `MarkFailed`, the two statements
`PurgeSelect` and `PurgeDelete`. `Report` includes the client of `internal/platformaudit`:
the platform keeps a record or not, and the answer may get lost. Time is kept relative (how
long a row waits, how old its lock, how old the `now` of a pass), so that the model needs no
last instant and liveness can be checked.

### ImportReport

State: `run` is the row of `contract_import_report_run`, `row` the credentials in
`contract_import_report_status` by item and version, `history` the page's table, `upstream`
what the contract system would answer now, `wk` the runs under way. `Begin` takes the
generation, `Fetch` and `ReadFacts` are the two reads (the second may be `NotConfigured` or
find the facts unavailable), `Publish` is the one transaction, with `Preserved` for the
credential that outlives an outage and `NewRow` for what happens to the other versions of
an item. `Superseded` and `Fail` are the late run and the failed one, `Stops` a crash.
`ReadsAPIApplied`, `ReadsFactsApplied` and `PageIsFresh` are what callers and the page see.
`matched` is history: the contents a run found equal in the source. The digest of an item
is its content; that it is computed from the raw JSON while the comparison with the facts
normalises times, and the page's age limit of 48 hours, are left out.

### SyncRound

The rounds of `runScheduledSources` in detail, where `SyncQueue` has only their marks.
State: `source` and `mirror` the version of each row there and here, `facts` the versions
the facts were computed from, `open` and `closed` the unfinished and the finished rows of
`sync_run`, `status` and `lastRun` of `sync_source`. `Start` draws the start of a round,
`BeginSyncRun` records it unless a row has that start already, `Acquire`/`Skip` take the
sources, `Read` and `Upsert` copy a batch with the guard of
`ON DUPLICATE KEY UPDATE` (`Upserted`), `UpsertLast` ends a source, `Count` is the overlap
guard, `PrecomputeSigning` and `PrecomputeConversion` the facts, `FinishSyncRun` closes the
record; each has its failure, and `Crash` and `LoseLock` hit anywhere. Starts are kept as
ages relative to the latest one, since the code only compares them. The approval channel is
the tail of the contract source with a mark of its own; its `RUNNING` mark is modelled as
not failing. The facts are kept by row: contracts stand for `fct_contract_signing`, CRM
rows for `fct_opportunity_conversion`. The settlement source is left out.

### AlertLifecycle

State: `item` is `alert_item` by contract (status, who closed it, the two counters), `rule`
and `latest` the rule and its versions, `wk` the candidates a worker has in hand, `editor`
what each administrator read. One action per call of the worker (`ListEnabledRules`,
`FindContractExpiryCandidates`, `UpsertAlerts`, `CountActiveAlerts`, `ReconcileAlerts`), of
the alert pages (`UpdateStatus`) and of the rules (`ListAlertRules`, `ReplaceAlertRules`,
`DeleteAlertRule`). Each transaction is one step, as it locks the rule row or the alert;
what is stale is what lies between them: the rule as it was listed, the candidates as they
were found. Which contracts meet the condition is any set in each round.

### Portal: Session, CentralSession, LoginFlow, RequiredAudit, EmbedBridge

One user's session, login and embed token, and the requests in flight.

| module | code | state |
|---|---|---|
| `Session` | `oidc/service.go`, `backchannel_logout.go`, `middleware/auth.go` | `row` of `da_oidc_sessions`, its row `lock`, `req` the requests, `platform`, `replay` the logout token's jti, `acked` |
| `CentralSession` | `oidc/session_governance.go`, `session_rotation.go`, `internal/sessiongovernance` | `cache`: the age of the cached verdict |
| `LoginFlow` | login and callback of `oidc/service.go`, `session_governance_http.go` | `login`, the row of `da_oidc_login_transactions`; `created` |
| `RequiredAudit` | `middleware/audit.go`, `audit_buffer.go` | - |
| `EmbedBridge` | `embedbridge/embed.go`, `session_activity.go` | `token`, the row of `da_embed_tokens`; `opened` |

A request is a slot of `req` that goes from step to step, one action per statement of the
database and per answer of a service: `Authenticate`, `ResolveAuthorizationContext`,
`PersistAuthorization` for the check of the rights; `ReadActivity`, `TouchActivity`;
`BackchannelLogout`, `CommitLogout`; with a central session service `ReadCentral`, `State`,
`StateAnswered` for the verdict and `Lock`, `Locked`, `PresentRefreshToken`,
`CommitRotation` for the two transactions that lock the row; `ReadLogin`, `DeleteLogin`,
`ConsumeCentralLogin`, `Exchange`, `CreateSession` for a callback (its session begins with the rights that
`Exchange` has fetched, which may be gone by then: `NewPlatform`); `Issue`, `Report`,
`Proxy`, `ConsumeToken`, `ProxyResource` for a dashboard. `Portal` adds `Tick` and puts
them together. A member of `Mixes` says what happens in one behaviour: in which deployment,
which requests come and what the platform does; the next-state relation is that of the code
in each of them.

### MetricCatalog

State: `row` is `metric_definition` by code, `history` the snapshots in
`metric_definition_version`, `view` what each administrator's page shows, `change` the
transaction each has open. `ListForTenant` fills a page; `Begin` is what a transaction does
before it has the row locks (that a row is absent locks nothing), `Commit` the rest, for a
single operation or a PUT of several (two, of which one adds a row); `Rollback` is a
refusal or a failure. The text of a definition is abstracted to the published one and
another; a row of migration 12, from before there were snapshots, has either, at any version
(`Legacy`).

## 4. What the runs show

| run | shows |
|---|---|
| `sync_fence` | the lease alone, with named locks that may be lost, fences replaced workers (`LateWriterNeverPublishes`, `FinishedJobNeverPublishes`), takeovers raise the generation, the open row per source is unique and never stranded, and the queue refines `SyncJobs` |
| `sync_rounds` | with live sessions the named lock keeps one worker per source; the watermark never goes back under skewed host clocks; legacy rows need an audit |
| `sync_live` | a run whose heartbeats are in time never loses its lease; every open job ends although one fault hits any step |
| `project_attempts` | overlapping, failing and dying attempts: readers see one whole snapshot, staging holds one run and is empty after an end, superseded attempts are silent, `ProjectView` is refined |
| `audit_deliver` | delivered or purged events have a record; open rows are not purged; a running lease is honoured unless a late mark gave it back; every event settles or is shelved by the race below |
| `import_publish` | a source that revises, withdraws and restores its items, two workers and a failure: a verification that is shown was made by some run for that very content; what is reported as applied is current; a page not marked stale shows one fully verified run; a late run or its failure changes nothing |
| `round_overlap` | late writers, lost locks and overlapping facts roll no row back; a channel marked SUCCESS holds what its source had when the round started; facts are computed only from a mirror that has what the round was to copy, whatever failed, was skipped or lost its lock |
| `alert_people` | workers with stale candidates never open what a person closed; no alert appears without its rule, and a rule with alerts is not deleted; two administrators lose no edit, also over a delete and a create |
| `portal_sessions` | with and without a central session service: a revoked session stays revoked, an acknowledged logout has revoked it; rights that were withdrawn, counted from the creation of the session at the earliest, and a central session that ended are noticed within the configured times, whichever answer comes late; a refresh token is presented twice only if the answer with its successor was lost; a login creates one session, an embed token opens one dashboard, where the audit is required only after its event is accepted |
| `catalog_edits` | whoever changes a metric had been shown all of its state; every state ever shown and then replaced is in the history, one per version from its first on, and the last one is the row |

Runs that end in a violation, each of one statement of the repository:

| run | statement | what the code does |
|---|---|---|
| `audit_shelved` | gorm_store.go:70-71: no audit is silently shelved | a late `MarkFailed` around the last claim, then a crash, leaves a `retry` row no claim finds |
| `alert_streak` | docs/alert-lifecycle.md:91: an OPEN alert that was missed often enough is closed | the hit counter of a contract that stays due runs out of its column's range; from then on the reconciliation of the whole rule fails in every round |

### Divergences without a run

What was met while modelling and has no run of its own:

- docs/dim-sync-concurrency.md:51-54 says that the named lock keeps one full synchronisation
  per source. Its session may end while its worker goes on (source_lock.go:62 looks at it
  again only at the release), and a second worker then runs the same source. With
  `SessionDrops = TRUE` `OneWorkerPerSource` fails; the fence of `sync_fence` still holds.
- queue_lease.go:218-219 says that queue and round write the same state. `markQueueSource`
  (:226) never sets `last_success_at`, which the round does (aggregation.go:104, :361).
- aggregation.go:321 says that a failing job is recorded and the pass goes on. A job's own
  timeout is taken for a cancellation: it pauses the job, which goes back to the head of the
  list, and ends the pass (queue_lease.go:333-338, :389). A source that always times out
  keeps the jobs behind it waiting. `EveryJobEnds` holds because faults are bounded.
- gorm_store.go:21 says that the platform removes duplicates by event_id; every report draws
  a fresh one (platformaudit/reporter.go:67), so a redelivery is a second event.
- import_report.go:61-62 says that replaced versions are WITHDRAWN; credentials of earlier
  versions stay APPLIED. `ReportedIsCurrent` says what does hold: no later one does.
- `SyncRound`: the guard stops only the later round. An earlier one may compute its facts
  from a mirror a later round is half through, although docs/dim-sync-concurrency.md
  promises not to mix generations. Of two rounds that start in the same millisecond the
  second meets the record of the first (sync_run.go:81-89), finished or not: it is not
  recorded, hence not guarded, and closes the record of the first if that is still open. So
  no property says that a later round yields to an earlier one; what the facts may be
  computed from (`FactsCoverTheRound`) does not rest on the guard.
- `AlertLifecycle`: `hit_streak` is documented as consecutive rounds but no miss resets it;
  the miss counter outlives a close by a person and hits while closed, so that one miss
  after the next acknowledgement closes the alert (migration 000028 and
  docs/alert-lifecycle.md:43-49 speak of consecutive misses); two workers count one absence
  twice; `ReconcileAlerts` does not ask whether the rule is still enabled; the close guard
  compares hits that include closed alerts with the number of active ones.
- `Portal`: a login fetches the rights (service.go:318) before the time that its session
  counts their check from (:333, :355). Rights that are taken in between are served until
  `CheckEvery` after the session was created, later than `CheckEvery` after they were taken.
  The model has this (`NewPlatform`), and `WithdrawnRightsGo` speaks of requests that come
  later than both; counted from the withdrawal alone it fails in the first request of such a
  session. `TouchActivity` writes without asking whether the session has become idle
  since it was read, and may set the time of the last activity back. A back-channel logout
  that comes between the exchange of a login and the insert of its session misses that
  session. `Logout` ignores a failing revocation, as does the cookie. Above 64 KiB a
  response leaves the audit buffer before its event is accepted, and the 503 of a rejected
  event comes after the business transaction. An embed token is not bound to the session.
- `MetricCatalog`: the limit of 500 rows is counted by create only, without a lock, and not
  for overrides of published metrics. A row that was edited before migration 13 has no
  snapshots of its earlier versions: its first change keeps the current one only
  (governance.go:214-222), so that its history begins there. Past the limit `ListForTenant` fails with
  METRIC_LIMIT_EXCEEDED for good. governance.go:315 says that changes and audit events are
  committed together; enabling, deleting and the PUT of several append none.

### Bounds

- `MCSyncQueue_*`: two workers, at most two jobs and, where it matters, two sources. A
  takeover, a late writer and a stale list need two workers; two jobs of one source are
  needed for the reuse of the slot of an ended job; `Lease = 3`, `Beat = 1` is the smallest
  pair `queueSettings` accepts. `MaxFaults` (1 or 2) bounds crashes, stalls, cancellations
  and lost sessions together: one to lose a lease, one for its successor. `MaxClock` bounds
  the timestamps told apart, not the time that passes: leases go on running down.
- `MCProjectProjection_attempts`: two workers, three generations (the one that crashed, the
  one that is superseded, the one that reclaims after both), batches of two and two batches
  of reclamation, so that a backlog of exactly the limit occurs; snapshots of two full
  batches, of one and a half, of none, and one over `MaxProjects`. The run stops when the
  generations are used up, so deadlock is not checked.
- `MCAuditOutbox_*`: two dispatchers, two events in one batch, two attempts, a lease of one
  tick, one fault. The late mark, the claim between two statements and the crash of the last
  attempt all occur. `MaxBackoff = 1` fixes the wait; no property depends on its growth.
  `MaxRecords` is where the count of records stops.
- `MCImportReport_publish`: two workers, three runs, one fault; an item with two contents of
  one version (the digest must tell them apart) and a later release, and an item that
  requires one channel only. A late run needs two, a credential kept over an outage a third.
- `MCSyncRound_overlap`: two workers, one row in each of the three scans, one change, one
  fault. A late write needs a lost lock, a changed row and two rounds. With `Stale = 1` and
  `MaxAge = 1` there are earlier, later and equal starts, and the record of a crashed round
  is too old for one round and not for another. While a round runs, those that start after
  it share one start or have its own; the theorems have no such bound.
- `MCAlertLifecycle_people`: two workers, contracts, administrators and rule ids, one human
  decision; `MaxStreak = 2` lets the counters reach their range, `MaxVersion = 3` a delete,
  a create and an edit. `MCAlertLifecycle_streak`: one worker, a counter of three.
- `MCPortal_sessions`: two requests at a time in eleven mixes, times of one or two ticks,
  which order every pair of timers the code compares. A request waits at most `Patience`
  ticks; the timeout of the central verdict is kept to the tick.
- `MCMetricCatalog_edits`: two administrators, a published and an unpublished metric, each
  without a legacy row or with one at any version, three versions, the limit at two rows.

### Fairness

- `SyncQueue`: `WF` on the steps of a worker that need no fault (goroutines are scheduled,
  the loop of `RunLoop` goes on), `WF` on the heartbeat (its ticker fires) and on the clock;
  `SF` on `RunEnds`, because a source has finitely many batches and each turn of its loop can
  be the last; `WF` on `RenewLicense`: `EveryJobEnds` speaks of jobs whose licence comes back.
  No fairness for faults, for the trigger or for the legacy recovery.
- `AuditOutbox`: `WF` on the steps of a dispatcher (the loop of `Run`) and on the clock.
  Nothing obliges the platform to accept: a refused event ends as `failed`.
- `AlertLifecycle` (`FairSpec`, for `alert_streak`): `WF` on the rounds of a worker, `SF` on
  the reconciliation, as not every round fails for want of a licence or of the database.
- The other modules have no fairness: nothing obliges a snapshot or a report to be
  published, a round to succeed, or a user to come back.

## 5. Proofs

All theorems hold for any sets of workers, jobs, sources, snapshots, items, contracts,
metrics, requests and any limits and times that satisfy the named assumptions of the modules (types of the
constants; the configuration check of `queueSettings`; one legacy row per source, which the
unique key grants; finitely many project ids, which are bounded strings; positive limits).

**SyncQueueProofs.** `TypeCorrect` goes through `NextType`, one step per action. The
invariant `Inv` adds to the types: one open job per source, no stranded job, audited legacy
rows, and that a worker whose token and generation stand in the row of its job is the last
claimant of the source (`HolderClaimedLast`). The last part is the heart: it holds although
named locks may be lost, because a claim needs an open row, a source has only one, and the
claim replaces its owner and raises its generation. It needs the uniqueness and the row
invariants to be inductive. Most actions leave owners and generations alone (`Quiet`,
`QuietStep`); the claim, renewal, leaving and the producer have lemmas of their own. From
`Inv` follow `OneHolder`, `LateWriterIsFenced`, `FinishedJobIsSilent`, `TakeoverIsFenced`
and `WatermarkRises` (`MarkStep`: only `mark` and `markQueueSource` write the run of a
source, and both compare first).

Three more invariants rest on the types or on `Inv`.
`LockIsHeld`: whoever works on a source has its named lock. It gives `NamedLockSerialises`,
under the assumption `~SessionDrops` alone: that is the promise of the named lock, and a
session that ends before its worker does break it (see the divergences above). What
holds without the assumption is `OneHolder` and `LateWriterIsFenced`.
`LeaseIsFresh`: a run that beats holds its row, and no more than two intervals of its lease
are gone; that the lease has not run out follows by `Lease >= 3 * Beat`, which
`queueSettings` enforces. The next tick could end a lease that is merely valid; a tick is
held back while a heartbeat is overdue (`InTime`, `Timely = TRUE`), hence the stronger
form. `HealthyRunIsNeverReplaced` is this.
`TransactionHolds`: within a write transaction the worker has the lock of its row and holds
it; every step of a worker that rewrites a job needs that lock
(`RewriteNeedsTheRow`). `TransactionKeepsItsLease` states it: between the two checks of
`aggregationWrite` only the clock, the licence or a cancellation can end the right to write.

`PromiseIsKept` is the refinement. `PhaseCases` and `RunnerCases` say what a row maps to;
one lemma per kind of step then names the step of `SyncJobs` it implements: a claim starts
a job, a renewal or a heartbeat stutters, finish, pause and failure leave it, a commit
publishes (the check of the lease makes the writer the runner), the producer submits, the
operator adopts, and a tick loses all the runners whose lease it ends, at once.

**ProjectProjectionProofs.** The invariant `Inv` (in `ProjectProjectionProps`, where TLC can
check it too) adds that generations are drawn one after another and never shared
(`TurnsAreDrawn`), and what the attempt with the turn has done (`HasStaging`): the staging
table is its own once it has reclaimed, and staged rows, batch and remaining lines make up
its snapshot as long as no line was lost. Without it neither `PublishedIsWhole` nor
`StagingIsBounded` is inductive. `AttemptKeepsInv` reduces a step of a worker to its own
part of the invariant; `RowsCount` counts the published rows through a bijection.
`SupersededIsSilent` and the refinement `ViewIsKept` follow action by action.

**AuditOutboxProofs.** The invariant `Inv` adds two facts to the types and to `NothingLost`.
`EntryAtHand`: the entry a dispatcher is about to mark is one of its batch, and one it takes
for accepted has a record; a record never goes away, so marking it later, after a crash or a
takeover, loses nothing. `LockedSince`: a row is not locked longer than the claim of any of
its holders is old, because a later claim locks it anew and a mark gives the lock back; so
within a lease only a row whose lock was given back can be claimed (`LeaseIsHonoured`).
`BatchKeepsInv` and `DoneKeepsInv` reduce the steps of a dispatcher to what they change.
`RowsFit` (a waiting row has no lease, one at work has one, a new one is untried) gives
`OpenRowsAreDue`, the safe half of `EveryEventSettles`: an open row waits for nothing but
time. Its exception is exactly the row of `audit_shelved`.

**ImportReportProofs.** `OwnGeneration`: runs under way have generations of their own, and
the last one that is still reading has not been given a result. `FromThePast`: nothing
stored is younger than the last run. With them the three invariants of the run are
inductive together; `Publish` is proved row by row (`NewRow` for the version that is
released, an earlier and a later one), a preserved credential keeps the match that made it.
`NewestRunWins` follows from `FromThePast`, since only the last generation publishes.

**AlertLifecycleProofs.** `RuleStands` (a rule has a version, alerts have a rule) and
`ViewsAreOld`: what an administrator read is an older version, or the rule as it is; it
survives a delete and a create because a new rule takes an id that was never used.
`ReasonsFit` ties the reason to the closed status, without which a worker could find a
manual reason on an open alert. From them `HumanClosesStand`, `AlertsKeepTheirRule`,
`EditsAreKept`.

**MetricCatalogProofs.** `VersionTells`: a page shows an older version than the row or
exactly what the row is. `RowsHaveHistory` and `CreatesAreNew` are what `HistoryIsWhole`
needs to be inductive: of the rows only a legacy one that is untouched has no history, at
whatever version it stands, and what a transaction creates it has looked for. `Commit` is proved metric by metric.

**SyncRoundProofs.** `Inv` has two parts besides the types. `Promises`: what a worker's scan
has passed is in the mirror as the source had it when the round began, or newer, and what it
holds read but not yet written is no older than that. It lasts because the guard of the
upsert (`Upserted`) never lowers a version, so that neither another round nor a worker
without its lock takes back what a scan has passed (`PromiseLasts`). `FactsAreMirrored`:
facts are no newer than the mirror they come from. Without the first `SuccessIsMirrored`
is not inductive, without the second `NeverRollsBack` is not: facts that are computed anew
come from a mirror that has only grown since. `ScanParts` and `Places` tell which rows of
the contract source are the approvals at its tail. `FactsCoverTheRound` needs a second
invariant, `Sourced`: the sources a round counts as copied, and those it computes facts of,
are covered by the mirror. A row of theirs is covered when the round has scanned it
(`ScanEnds`), and stays so because the mirror only grows (`OthersGoOn`).

**PortalProofs.** For each action a lemma says what becomes of its request
(`AuthenticateEdge`, `VerdictEdges`, `LockedEdge`, ...): its next step and phase, and whether
it keeps its rights and its lateness. `StaysOrActs` says that a request stays where it is or takes one of
these steps, `RowChanges`, `PlatformChanges`, `LockChanges`, `CacheChanges` and
`LogoutChanges` say which steps change what. Each part of `Inv` is then preserved:
`LocksHeld` (whoever is inside one of the two transactions has the lock of the row) makes
`TokensKnown` inductive: the row has the token the platform expects, unless a request is
about to store it, and that request has the lock. `RightsKnown`: rights in the row or on
their way into it are no older than their check says, or the check is still that of the
login (`Checked`); with it `LateRightsGo` follows a
request that came too late from step to step. `VerdictsAge`: a good verdict that is cached
or under way was asked for while the central session was alive, hence ages with it; with it
`LateVerdictsFail`. `LogoutKept`, `LoginSpent` and `TokenKept` say who may hold the jti, the
login and the embed token between two statements. The proofs need that slots are neither
`NoOne` nor the mark of a kept jti (`SlotsAssumption`), that a central session only ends in
a deployment that has one (`MixesAssumption`), and positive times.

Only model-checked: liveness (`EveryJobEnds`, `EveryEventSettles`), which is out of the
prover's reach. `NeverShelved` and `ClearedAlertCloses` are the two divergences and do not
hold.

## 6. Not modelled

- The SQL of the sources and of the dashboards: a source is a sequence of batches, a
  dashboard read is the operator `Visible`. Isolation is that of InnoDB: row locks and
  atomic transactions.
- Parsing, validation and formatting of external data, tokens, signatures and HTTP, beyond
  lost, refused, late and unanswered requests.
- Clock steps of the database, and clocks of dispatchers that differ: `AuditOutbox` and
  `Portal` have one clock.
- The dashboards by API and the business, conversion and settlement snapshots replace a
  table in one transaction after one read: there is no intermediate state to interleave
  with. The dashboard queries only read.
- Standard facts: one transaction publishes a whole file under an optimistic version and
  replays a batch that was published before. Left for a later version. (`Read` looks twice
  for what it may not find: a first publication between the two statements is reported as
  a damaged pointer, standardfacts/store.go:247-253.)
- Migrations, the shutdown group, configuration, metrics and wiring run once per process and
  touch none of the state above. The licence core is vendored; only its verdict, which may
  change at any time, matters here.
- Bounds of the composition: `Portal` has one session, one login and one embed token, so
  that nothing is said about two sessions of one user. After a crash no run asks whether a
  round ends: the next one takes over by the age of the record (`Stale`).
- The components listed as `not_modelled` in PROJECT.json, with their reasons.
