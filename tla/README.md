# BlackWatch, modelled in TLA+

BlackWatch collects security telemetry (CloudTrail, VPN and host agents, ECS
probes, RDS, S3, API Gateway) through *connectors*, normalises it into events,
stores them in PostgreSQL, keeps per-object status tables (projections), and
routes notifications. It is one Python process (`blackwatch/`): FastAPI request
threads, a scheduler thread, a pool of three connector workers with one timer
each, a notification worker and an investigation worker, over one database.
Agents on the watched machines (`scripts/`) send it reports over SQS. A Next.js
front end (`blackwatch-ui/`) reads the API.

This directory models the parts of that system in which threads, timers,
restarts, late or repeated messages and partial failures meet. Line numbers are
those of the repository.

## 1. Inventory

| Component | State | Operations | Talks to | What makes it correct |
|---|---|---|---|---|
| Connector operation manager `connectors/operations.py` | `_active`, `_connector_locks`, `_operation_slots`, timers, executor; rows of `connector_operations` | start, execute, record, time out, detach, reap, recover, retry all | storage, runner; called by API and scheduler | slots and locks conserved; one run at a time per connector; a verdict is final; every operation closes; retry state is the newest verdict's; the row of Retry all tells its children |
| Connector runner `connectors/runner.py` | `connectors.last_status`, `verified`, `last_run_at` | run one collection, report | provider adapters, storage | late answers write nothing; `verified` speaks of the current configuration |
| Connector scheduler `connectors/scheduler.py` | tick snapshot | repair retry metadata, start what is due, staleness checks | operation manager, storage | lost metadata comes back; failed connectors are retried |
| Connector storage `storage.py` 528-940 | the two tables | compare-and-set statements | everything above | guards are in SQL, not in the caller |
| Ingest pipeline `pipeline.py`, queue drains `connectors/aws_*_sqs.py` | `events` rows, queue messages | parse, score, insert once, notify, project | rules, notifier, projections | an event is stored once and notified at most once; a failing message comes back |
| Notification routing and delivery `notify/router.py`, `worker.py`, `channels.py` | `_last_sent`, queue, rate buckets, digest buffers | dispatch, throttle, send with retries, digest, stop | channels, `notification_log` | nothing accepted disappears silently; limits hold; what is logged is what happened |
| Notification configuration `notify/profile_service.py`, `routing_matrix.py`, `routes_view.py`, `catalog.py`, `profiles.py` | rules, channels, cards, profiles and their copies in memory | save, toggle, silence, delete, reload, report coverage | API, router | what is saved is in force, and matches what the pages say |
| Rules, noise filter, correlation, UEBA, performance alerts | rule set, mutes, windows, baselines | match, count, first-seen | pipeline | one alert per window, no alert lost |
| Hosts `hosts/`, `modules/ec2_host.py`, agent `scripts/ec2_agent.py` | `host_status`, snapshots, FIM tables; on the host windows, spool, hashes | report, heartbeat, snapshot diff, staleness | pipeline | no gap between windows; no flapping alerts; a live host is not dark |
| File integrity `scripts/fim_engine.py` | baseline database, queue of changes, recent writers | scan, inotify, audit reader, drain | host agent | the baseline absorbs no change in silence |
| VPN agent `scripts/vpn_agent.py`, `vpn/`, `modules/vpn_openvpn.py` | journal cursor, spool; client and certificate rows | follow, spool, flush, heartbeat, diff sessions | pipeline | no line is skipped by a crash |
| ECS services `services/`, `scripts/ecs_discover.py`, `ecs_probe.py` | `service_status`, `probe_targets`, `probe_agent_status`; the probe's list | discover, probe, result, heartbeat, staleness | pipeline | one alert per outage; what is watched is what should be |
| RDS `rds/`, `modules/aws_rds.py` | sessions, first-seen sources, proxy tables | events, bursts, trace a session | pipeline | as hosts; no session traced to somebody else |
| S3, API Gateway, CloudTrail, posture | bucket rows, sources, findings | scans, log lines, calls | pipeline | drift is told once; a scan that failed resolves nothing |
| Investigations `investigation_worker.py`, `investigation_flow.py` | `investigation_scans`, `investigations.status` | queue, claim, finish, analyst status | storage | every scan ends; the analyst's word is kept |
| Authentication `auth.py` | users, sessions | seed, login, touch, logout | storage | a signed-out session stays out |
| Threat intelligence `intel/` | feed rows, cache | refresh, look up | pipeline | answers are recent; a failed feed keeps its rows |
| API pages `api.py`, `coverage.py` | none of their own | lists and counters | storage | two pages do not contradict each other |
| UI, database pool, formatting, provider I/O | | | | no control of their own |

Hard behaviour: worker against timer against reaper against restart for one
operation row; late provider answers; statements that belong together but are
two transactions (row and retry metadata; event and notification; alert and
flag; profile and rule); reads made in one statement and used in another; slots
that come back on eight different paths; queues that deliver twice and out of
order; agents that die between sending and remembering; calls that never return.

The list of single hazards, each at its line, is in `PROJECT.json`.

## 2. Plan

Built, in this order: ConnectorOps with OperationLedger and its proofs;
ConnectorScheduler; IngestPipeline with its proofs; NotifyDelivery with its
proofs; the agents, projections and background jobs; settings, sessions and the
rule engine as a pure function; the pages. A component's own module says in
"Left out" what it leaves.

Left, by expected worth:

1. A timer thread that cannot start, deletion of a connector during a run, the
   webhook path, the rate limit against late retries.
2. Metric history with its hourly rollup; the remaining read endpoints.

## 3. Modules

The first sections are the core; the others follow in groups. A module's header
comment says what it abstracts, the comment before a property what the property
excepts and why.

### ConnectorOps.tla

Models `operations.py` with the storage statements it calls and the status
write of `runner.py`.

*State.* `status owner count reason old` are columns of `connector_operations`
(`old`: the row is past the 120 s stale cutoff); `meta lastBy enabled verified`
are columns of `connectors` (`lastBy` is a ghost: which operation wrote
`last_status`). `slots locked active timers` are `_operation_slots`,
`_connector_locks`, `_active` and the armed timers. `job` is where an
operation's worker (its Future) is, `closer` what the thread that timed it out
has left to do, `call` where each caller is inside
`start_connector_operation`. Operations are numbered in the order of
`requested_at`.

*Actions.*

| Code | Actions |
|---|---|
| `start_connector_operation` 271-368 | Request (guards, prune, duplicate check), AcquireSlot, AcquireLock, CreateAndSubmit, CreateFails, Register, DoneCheck |
| `_execute`, `_record_failure` 383-465 | TakeThread, Claim, Collect, Report, Record, SetRetry, Finish, Exit; ClaimFails, ReportFails, RecordFails, SetRetryFails when storage raises |
| `_timeout_operation` 468-510 from the timer | TimerFires, TimerFails, CloserSetsRetry, CloserFails, Detach |
| `reap_stale_operations` 664-693 | ReapDone, ReapStale, then the closer's steps |
| `recover_stale_operations` 636-661 | Recover, for any row past the cutoff, registered or not; then CloserSetsRetry, but no Detach |
| `start_retry_all` 513-557 | Request with kind `retry_all`, SkipItem |
| `upsert_connector`, `set_connector_enabled` | EditConfig, SetEnabled |
| process restart | Restart: memory is lost, rows stay |

One database statement is one step. Memory work between two statements which
no other thread can observe is merged into the step before it. A provider
call returns `ok` or `error`, or never. Failure categories are one value,
`"failure"`; the backoff, which saturates at the fourth retry, is the count.

Left out: the parent row of Retry all with its monitor thread (RetryBatch has
it), `timer.start()` raising, deleting a connector during a run, and the case
of a start call that sleeps past the stale cutoff inside itself (Age excludes
it).

### OperationLedger.tla

The abstract specification: each operation is requested, possibly begins, gets
exactly one verdict, and its retry metadata is then written, later or never.
No threads, slots, locks or timers.

### ConnectorScheduler.tla

Models `_loop`, `_reconcile_retry_metadata` and `_due` of `scheduler.py`, with
users and workers as the ledger's actions. A tick is ListConnectors,
ReadLatest (a second statement), one Reconcile per connector, one StartDue or
PassOver per connector, all from the one snapshot `view`. The repair write of
Reconcile is the scheduler's own and not an action of the ledger. ConnectorOps
lets `meta` change only by the manager; none of its safety properties except
RetryWriteIsNewest speaks of `meta`, and that one only of the manager's writes.
The staleness checks of the tick are separate components. An operation whose
row is not closed by a scheduled start is closed by the manager, as
OperationsClose shows.

### IngestPipeline.tla

Models the path of a queued payload: `drain` of `connectors/aws_sqs.py` (the
three other drains differ in the client only), `ingest_payload` and `_process`
of `pipeline.py`, the insert of `storage.py`, `ueba.check_event` with the two
functions of `ueba/db.py` it calls, and the liveness branch of the VPN
projection, the smallest of the eight projections that derives events.

*State.* `queue` is the provider's view of each message. `pc msg pos prev`
are a drain thread's: where it is, the message and event it is at, the row its
projection read. `rows` are the stored event_ids, `first` and `seen` the
UEBA rows of one principal and one of its values, `anomalies` the stored
anomaly events, `active` and `alert` the VPN row and the newest stored
transition event, `muted` the mute list. `sent` and `dropped` are ghosts: how
often a line reached the notifier, which lines were dropped as muted.

*Actions.*

| Code | Actions |
|---|---|
| `drain` 28-74, the queue service | Receive, VisibilityEnds, Ingested, Delete, DeleteFails |
| `ingest_payload` 128-171 | Reject, Drop, ProjectionFails, StoreDerived, StoreDerivedFails |
| `_process` 85-119, `insert_event` | Insert, InsertFails, Dispatch |
| `check_event` | FirstSeen, Upsert, Count, StoreAnomaly, UebaFails |
| `vpn_projection.project` | ProjectRead, ProjectWrite |
| mute list, process restart | Mute, Restart |

A batch is one message: messages of a batch are ingested one after the other,
and the deletion at its end is a step of its own in any case. Derived and
anomaly events carry fresh event_ids, so their insert is always new and is one
step with its notification. Telemetry and derived events are not muted here.
`dispatch` is one step that does not raise (it queues in memory); what becomes
of the notification is NotifyDelivery's.

### NotifyDelivery.tla

Models `Notifier.dispatch` and `dispatch_direct` of `notify/router.py`, which
take the same steps, and all of `notify/worker.py`.

*State.* `stage event pos now` are a dispatching thread's: where it is, its
event, the route (rule and channel) it is at, the age of its `now_ts`. `last`
is `_last_sent`, `queue` the worker's queue, `hits` `_RateLimiter._hits`,
`buffer` and `firstAt` the two dictionaries of `_DigestBuffer`, `stop` the stop
event. `wpc todo hand attempt` are the worker's: where it is, the channels
whose digest it has yet to look at, what it has taken, retries so far. `fate`
is what became of a notification; `logged` stands for sent, failed and rate
limited. Times are ages that Tick increments. Ghosts: `queuedFor` (age of the
newest notification queued under a key), `apart` (the same, when a dispatch
began), `heldFor` (age in the digest).

*Actions.*

| Code | Actions |
|---|---|
| `dispatch` 120-163, `dispatch_direct` 165-226 | Dispatch, Acked, NotAcked, Skip, Suppress, Pass, Record, Enqueue |
| `_loop` 132-142 | Loop, Stopped, Get, Empty, SendRaises |
| `_flush_digests_if_due`, `_flush_one` 214-256 | NotDue, Drain, SendDigest, DigestRaises |
| `handle_one` 146-181, `_RateLimiter`, `_DigestBuffer` | RateLimited, Hold, Allow |
| `_send_with_retry` 183-210 | Send, SendFails, Retry, GiveUp |
| `stop`, the clock, the process | Stop, Tick, Restart |

Which routes an event matches is a constant; an acknowledgement, a silence and
a disabled channel are choices (Acked, Skip), so every way the operator may
change them is covered. The throttle's read, its write and the queueing are
three steps, because other threads run in between; the worker's own structures
are touched by one thread only, and a step of it is one call.

### The agents

| Module | Code | Steps | Property |
|---|---|---|---|
| HostReports | `ec2_agent.py` 914-1290, `_project_snapshot` | a tick collects, reads the journal (journalctl may fail), builds, shrinks, sends or spools; backoff, the watchdog's kill, crash, restart; the hourly resync; reports in flight arrive late, twice or never | JournalCovered: no journal line falls between two windows. BackendCatchesUp: the backend comes to hold the host's state |
| HostCollectors | `ec2_agent.py` 305-883, `_compute_state_transitions` | one reader per kind of collector succeeds, fails, finds less than there is; processes ship only with a change of others or by the hour; the package database's check | CollectedTold: a failing collector tells nothing gone, but for three kinds named there |
| FimEngine | `fim_engine.py` 275-740, 998-1064 | scan thread and inotify thread over one path, of a size the walk may skip: stat, hash, lock, store, queue; a path or a whole scan that raises; draining, truncation, crash | ChangesComplete, BaselineCatchesUp |
| FileActors | `fim_engine.py` 742-969 | records of writers in the audit log, partial events, sweep, rotation, eviction, lookup | ActorsNamed |
| VpnAgent | `vpn_agent.py` follower and heartbeat threads | read, batch, shrink, send, spool, flush, save the cursor, restart, crash | CursorCovered: every line behind the cursor was received or is in a finished spool file |
| EcsTargets | `ecs_discover.py`, `ecs_probe.py`, `aws_ecs_probe_sqs.py` | discover, put the parameter, fetch, cache, mirror into `probe_targets` row by row | TargetsAgree |

### Projections and detectors

Each projection writes a row and returns events that the pipeline stores
afterwards, in another transaction and perhaps never; a message comes in any
order and more than once; two drains may have messages of one object in hand.
That is the common shape of these modules, and their properties say that what
was *told* (stored events) and what the *row* says agree.

| Module | Code | Property |
|---|---|---|
| HostHealth | `hosts/projection.py`, `hosts/diff.py`: conditions with their runs, the fill of a disk | HostTold |
| HostInventory | `hosts/diff.py`, `_project_snapshot`: differences of sections, processes first seen | InventoryTold |
| HostIntake | `modules/ec2_host.py`, FIM tables: what a report is taken apart into, journal lines, history, baseline, coverage | ReportsHandled |
| ServiceHealth | `services/projection.py`: hysteresis of probe results, unknown | ServiceTold |
| AgentLiveness | heartbeats, in two drains at once, against the staleness check, for probe agents and for hosts (`*/staleness.py`) | AlarmsPaired, SilenceFound |
| VpnReports | `modules/vpn_openvpn.py`, `vpn/projection.py`: sessions, two of one identity, certificate bands | ClientsAreTold |
| RdsSessions | `rds/projection.py`: sessions from two addresses, bursts of failed logins | RdsAlerted |
| RdsTrace | `modules/aws_rds.py` 190-330: the three log lines that tie a proxy port to a client, in bounded tables | SessionsTraced |
| GatewayReports | `modules/aws_api_gw.py`, `api_gateway/projection.py`, the first-seen tables of `rds/projection.py`: lines of one address, first sight, bursts | GatewayTold |
| BucketDrift | `aws_s3_drift.py`, `modules/aws_s3.py`, `s3/projection.py`: scans call by call, drift, removal | BucketsTold |
| PostureFindings | `aws_posture_drift.py`, `modules/aws_posture.py`, `posture/projection.py`: overlapping scans, reconciliation | FindingsTold |
| CloudSignals | `modules/aws_cloudtrail.py` against the checks of the scans: what a call tells, what a scan finds | ChangesSignalled |
| PerfAlerts | `perf_alerts.py`: one buffer, one throttle, several hosts | PerfHeard |
| BruteForce | `correlation.py`: the sliding window of one key | BurstsTold |

### Jobs and settings

| Module | Code | Property |
|---|---|---|
| RetryBatch | `start_retry_all`, `_monitor_aggregate`: the parent row, its children, the monitor | BatchTold |
| Investigations | `investigation_worker.py`, `investigation_flow.py`, the API's requests | CaseSettles |
| NoteSenders | `notify/channels.py` under worker, digest and test buttons: what the other end gets and what is logged | SendersTold |
| AccessPull | `aws_s3_access_pull.py` with its cursor: `last_run_at` of the first listed connector of the bucket | ObjectsPulled |
| LiveSettings | saves, toggles, silences, deletions and the copies they renew (`router.py`, `noise.py`, `rules/engine.py`, `profile_service.py`, `routing_matrix.py`, handlers of `api.py`) | SettingsInForce |
| EventMatching | `rules/engine.py`, `rules/operators.py`, and the conditions that routes, cards and profiles become; a function of an event and a rulebook, checked over all small ones against what the setting says | MatchesMeant |
| RouteViews | `routes_view.py`, `catalog.py`: a rule in the wizard's form and back; the coverage of event kinds | RoutesShown |
| LoginSessions | `auth.py`, the middleware of `main.py`, the auth endpoints | SignedOutStaysOut |
| IntelFeeds | `intel/refresher.py`, `feeds.py`, `db.py`, `enrich.py` | AnswersRecent |

### Pages

ApiPages has three parts that share no state: the pages of events (`/iam`,
`/rds`, `/storage/summary`, hosts, anomalies: one capped query, counted,
filtered and cut; PagesAgree); `/services`, two tables read one after the other
(ServicesShown); and `/connectors` with the overview's coverage, which read
different columns of a row that several hands write (ConnectorsShown).

### Proofs

ConnectorOpsProofs, IngestProofs and NotifyProofs extend the module they are
about; HealingProofs extends MCHealing with the proofs of its four parts;
PartProofs, ListProofs and StateProofs have those of the parts of MCParts, which
extends them: the parts that keep records, the lists and counters, and the
monitored states. See section 5.

### Compositions

**MCHealing** and **MCParts** run parts that share no state one at a time: a
constant variable `part` picks the one that moves, the others rest in their
initial state. A state of the run is a state of one part, so the run costs the
sum of the parts and not the product, and what holds of all its behaviours
holds of each part's. Fairness is that of the part that moves: since `part`
never changes, one fairness condition over several parts' actions is one for
each of them.

The properties of Parts are groups (StatesTold, ThresholdsTold, JobsSettle,
SettingsApply, ListsComplete, NothingOutdated, and PartsTypeOK) of guarded
conjuncts, one for each part. `PROJECT.json` lists one mutant for each group;
the other modules carry theirs as well, as an operator with the comment
"Mutant" before the definition it changes, and each was found to break its own
conjunct.

## 4. Runs

| Run | Configuration | Shows |
|---|---|---|
| OpsFaults | 1 connector, 2 callers, 2 operations, 2 slots, storage faults, restarts | TypeOK, SlotAccounting, LockDiscipline, ExclusiveRun, TerminalFinal, StatusWritesInOrder |
| OpsClean | the same without faults, with an administrator | OneOpenRow, RetryWriteIsNewest, ImplementsLedger |
| OpsLive | 1 caller, 2 operations, 1 slot, FairSpec | OperationsClose, SlotsReturn |
| OpsVerified | 1 operation, an administrator | **violated**: VerifiedMeansTested |
| SchedSkipped | 1 connector, 2 operations, faults, SchedFairSpec | **violated**: MetadataHealsDespiteSkips |
| Healing | scheduler (as before), host reports (1 line, 1 crash, spool of 1), FIM (2 changes on disk, one content too large for the walk, queue of 1), liveness (2 drains, 3 alarms), with fairness; 187 thousand states | HealingTypeOK, JournalCovered, ChangesComplete, AlarmsPaired; MetadataHeals, FailedIsRetried, BackendCatchesUp, BaselineCatchesUp, SilenceFound |
| Ingest | 2 workers, 3 messages (two overlap, one never parses), 2 failures or restarts, mutes | TypeOK, DispatchOnce, DeletedIsStored, AnomalyOnce |
| IngestLive | the same, no mutes, the principal unknown, FairSpec | MessagesLeave |
| IngestTransition | 1 worker, 2 heartbeats, 1 failure | **violated**: AlertTellsState |
| Notify | 2 dispatchers, 2 events of one fingerprint, a direct route (throttle 3, limit 1, one retry) and two digest routes with different windows (1 and 2) on one channel, senders that raise, stop, 1 restart | TypeOK, Accounted, SuppressedForQueued, Spaced, DigestOnTime, Settles |
| NotifyWorker | 1 dispatcher, no restart | **violated**: WorkerLives |
| Parts | 31 parts, 1.62 million states | PartsTypeOK, CursorCovered, StatesTold, ThresholdsTold, JobsSettle, SettingsApply, SessionsTraced, ListsComplete, NothingOutdated |

*Bounds of the core.* Every hazard of the manager is between operations of the
*same* connector (lock, status, metadata) or about the count of slots, so one
connector with two operations and two callers has them: the older operation
hangs or times out while the newer one is started, registered, run and closed.
Two slots let both run at once; the one slot of OpsLive makes the second
operation wait for the first. `MaxRetry = 1` separates "never failed" from
"failed". With more operations or connectors the state space leaves five
minutes; the theorems of section 5 cover every value. Deadlock is checked in
every run but IngestTransition, Healing and Parts, where the bounds let
everything be done. In Notify time can always pass, and Settles rather than the
absence of deadlock says that nothing hangs.

For the pipeline, the hazards are between two holders of one line: two workers
meet in one message (redelivered while the first is busy) and in two messages
that share a line, at different positions. The two lines show the same value
for the same principal, which may have been known before (`Known`), so that
each of the two can be the first sight. `MaxTrouble = 2` lets a second call
fail while the first failure is being redelivered. Workers are symmetric in
Ingest; the liveness run uses no symmetry.

For the delivery, the throttle's hazards are between two dispatches of one key
and the digest's between two notifications of one channel, so two events over
two routes each have them, in both orders of the routes; the two digest routes
share a channel, whose timer is then due by the window of whichever came first. The throttle window (3) is
longer than the blur of two stalled dispatches (2 * MaxStall), or Spaced would
say nothing; Horizon is the smallest that DeliveryAssumption allows.

*Bounds of the parts.* Nearly every part has two of whatever races (drains,
scans, requests, sessions) and one of whatever is raced for (a service, a
bucket, a row), with one or two faults, and thresholds of two or three, so that
being below, at and above one are different. Where a part starts in one of many
states (a rule, a report, a set of log lines) the run starts from all of them,
with these exceptions: in "clients" a second peer has the address of the first
or its own; in "trace" the two clients and two connections are
interchangeable, so the first is pinned to the first; in "buckets" the bucket
starts open, versioned and unencrypted, from which each setting can still be
closed, opened again and lost to calls that fail, one or several together; "gateway" takes the two status
patterns in which refusals cross the threshold with and without another fault
in between; "intake" takes the histories in which the file changes and goes, or
goes and comes back. "matching" has rulebooks of at most two detection rules,
enough for one to suppress or outrank the other. HostHealth and HostInventory
project one report of a host after the other: two at once would be
ServiceHealth's race. CHECK_DEADLOCK is FALSE in Healing and Parts because the
bounds (faults, time, messages) end.

*Fairness.* FairSpec assumes that worker steps outside the provider call,
timers, the passing of time, reaper ticks and a start call's own steps are
not starved: they are runnable threads, timers of the runtime and the
scheduler's loop. Nothing is assumed of the provider call (Collect), of a free
pool thread (TakeThread), of users or of restarts. SchedFairSpec adds weak
fairness of the tick, of backoffs running out and of operations closing, and
strong fairness of ReadLatest, Reconcile and StartDue: faults and restarts may
interrupt ticks again and again, but not every tick at the same step for ever,
and a connector that stays due finds a free slot in some tick.

HealingSpec asks the same of the other loops: the agent, the two FIM threads,
the staleness check and heartbeats go on and time passes (weak); and, strongly,
a collection that is tried in every tick succeeds in some, a report that is sent
again and again arrives at some time, and a scan or a check that starts again
and again is not interrupted at the same step for ever. Nothing is assumed of
the file, the host's state or crashes.

FairSpec of IngestPipeline assumes that threads run, that the queue service
shows undeleted messages again, and, strongly, that no message is passed over
for ever although it is visible again and again: the scheduler drains the
queue at every interval and the service hands messages out in no fixed order.
Failing calls and restarts are bounded by `MaxTrouble`, so MessagesLeave says
what happens once they stop.

LiveSpec of NotifyDelivery assumes that a dispatch under way and the worker go
on (a send has a time-out of ten seconds, a backoff ends), that time passes and
that a process told to stop ends. Nothing is assumed of the outcome of a send.

*Disagreements with the documentation*, each shown by a run:

- OpsVerified: `storage.py:564` promises that an edited connector must be
  tested again; a run already under way sets `verified` for the configuration
  it read before the edit (`runner.py:97`).
- SchedSkipped: `scheduler.py:101` calls the repair of retry metadata
  self-healing; a `skipped` row of Retry all is the newest row of its
  connector and hides the verdict whose metadata was lost.
- IngestTransition: `pipeline.py:42-44` and `160` promise that transition
  events are stored; a derived event whose insert raises is lost, because the
  redelivered reading finds the projection row already changed.
- NotifyWorker: `notify/worker.py:142` says "never crash the worker"; a digest
  is flushed outside that try block (line 134), and a sender that raises there
  (a URL without a scheme, a port that is no number) ends the only worker.

*Observations without a run of their own.* They are in the models, and the
properties except them by name:

- Pipeline: a restart between the insert and Dispatch means nobody is notified;
  two first sightings that both count before either reads raise no anomaly; a
  redelivered failed login is counted again by `correlation.py`.
- Manager: a child that answers "duplicate" is not counted by Retry all's
  parent; the parent may go from timed out back to running; the call that
  started it answers "succeeded" although children failed; a raise in
  `start_retry_all` leaves later connectors unvisited. `recover_stale_operations`
  is meant for rows "after a process restart" but closes any row that crosses
  the cutoff between the reaper's look and its own; the timer and the reaper then
  find the row closed and detach nothing, so while the provider hangs its slot
  and lock stay taken (*LeftByRecovery* in SlotsReturn).
- Investigations: `sql/038` says that a restart leaves unfinished work queued;
  a scan that was running stays so and blocks every rescan of its case.
- Posture and buckets: a finding that opens again is never announced
  (`storage.py:1988` against `posture/projection.py:5`); `describe_images`,
  `describe_trails` and `get_trail_status` that fail look like resources in
  order or out of order, not like a failed check; a bucket whose calls fail
  reads as not public, unencrypted and "Disabled".
- CloudTrail signals: risky ports behind the first fifty of a range are not
  looked at, against "True if a risky port is opened publicly"; flags are set
  for calls that AWS refused; settings given at creation or restore are mostly
  not looked at.
- Agents: `ec2_agent.py:1129` says each batch becomes its own tick, but halves
  that still do not fit are dropped; an unreadable file or a search that breaks
  off is taken for absence, against `hosts/diff.py`'s "transient collector
  failure"; the audit reader stamps a record when it reads it, evicts the first
  inserted path and may let a swept partial event displace a newer writer;
  `fim_engine.py` reads files before it takes the baseline lock. A journalctl
  that fails or times out costs the lines of its windows. A statement that raises
  in the phase of deletions of a scan that was cut skips the overflow marker,
  and the baseline has the changes already. `docs/fim.md:141` says that files over
  50 MB are skipped; the walk then reports them as deleted, and inotify hashes
  and stores them. A VPN batch over 240 KB goes out without its auth lines while
  the cursor moves on; only the next heartbeat, with its own window of lines and
  shrunk in the same way, may still bring them. Processes are shipped
  with other changes or by the hour only.
- Liveness: two drains that both read an inactive row both store "recovered".
- Projections: an address whose drain dies after the first-seen upsert is never
  told; request counters and `fim_history` rows are repeated by redelivery; a
  muted kind is not projected either, so its baseline stays behind; a login of
  an unknown user counts as two failures. A sudo command that is refused names
  itself in the line (`COMMAND=`) and is stored as `host.sudo.exec` with success,
  although `docs/ec2-agent.md:232` has `NOT in the sudoers` under
  `host.sudo.failure`: `_classify` looks for the command first. A coverage
  upsert that raises leaves the row as it was, and the report counts as handled.
- S3 access pull: the module says that `last_run_at` is written "on success"
  (`aws_s3_access_pull.py:7-8`, 55, 125) and `docs/s3-access-logs.md:53` that
  unprocessed files are picked up on the next run. `runner.py:104` writes it on
  errors too, and files left behind by the cap of 200, or not read, and older
  than the overlap are outside the next window (`passed`). `_last_run_at` says
  "THIS connector" and takes the first listed one of the bucket, so a second one
  with another prefix goes by the first one's time (`listedFirst`).
- Settings: "seeds once" rules return at any start with an empty table; a
  profile's silence is stored and shown but not in its compiled rule;
  overlapping saves can leave the list in memory stale until the next; setting a
  severity on a rule that YAML disables stores it as enabled. `api.py:455` says
  that a cleared severity falls back to the YAML's; the engine is given none until
  the next start (*ClearedSeverityLags* in SettingsInForce).
- Routes: no event has the module "aws.iam" or "aws.api_gateway" that cards, the
  wizard and the coverage page use (events say "aws.cloudtrail", "aws.api_gw"),
  so such a rule matches nothing while coverage says "fallback"; a rule for a
  severity alone is saved by the wizard with the module "__custom__".
- Senders: Discord cuts the tail a comment promises not to lose; a partial SMTP
  refusal counts as delivered; digests of one channel share one PagerDuty key;
  a digest for an unknown channel type is dropped without a log line. An SMTP
  port that is no number and, for Slack, webhooks, Teams and Discord, a URL
  without a scheme (`channels.py:451`, outside the try) raise: nothing is logged.
- Sessions: the cookie's age is set at login only, while the row slides; a
  password change ends no session, against "also invalidates all other sessions"
  (`auth.py:169`); logout clears the cookie also when the row could not be
  deleted; `prune_expired_sessions` has no caller.
- Intelligence: `_last_run` advances on failed passes; a failed lookup is cached
  as "not listed"; the age of a cached answer counts from its storing.
- Pages: every event query is cut to 1000 rows (`storage.py:130`) although
  callers ask for 2000 to 5000; the instances of `/rds` are always empty,
  because its rows are envelopes without `target_id`; "rejoin the moment they
  probe up" takes two ups; the days of an outage include those in which the
  service was not probed; the coverage page does not look at
  `scheduler_reason`, so a connector whose runs all time out is covered there
  and failing on `/connectors`.


## 5. Proofs

What is proved holds for every value of the constants that satisfies the
module's named assumption; TLC evaluates each assumption on the runs' values.
Every proof has the same shape: an invariant that is inductive, that it holds
initially, that each action keeps it, and that it implies the property.

### ConnectorOpsProofs

ConstantsAssumption: finite sets of connectors and callers, at least one slot.

| Theorem | Property |
|---|---|
| TypeCorrect | TypeOK |
| SlotsAccounted | SlotAccounting |
| LocksDisciplined | LockDiscipline |
| RunsExclusive | ExclusiveRun |
| VerdictsFinal | TerminalFinal |
| StatusOrdered | StatusWritesInOrder |
| RetryWritesNewest | RetryWriteIsNewest |
| RowsOneOpen | OneOpenRow, without storage faults, as its run checks it |
| ImplementsTheLedger | ImplementsLedger: the refinement of OperationLedger |

The argument. SlotAccounting and LockDiscipline are not inductive alone: a
release is right only because whoever pops the entry of `_active` releases,
an operation is registered only by the call that created it, for that call's
connector (*Registered*), and only closed rows are detached (*CloserClosed*).
`OpsInv` is their conjunction with *LiveHeld*: a worker that can still report
under an open row is registered or about to be. ExclusiveRun follows from
LiveHeld and LockDiscipline: two such workers of one connector would be two
holders of its lock. For the order of writes, `OrderInv` adds that rows are
created in order, that nothing but skipped items is newer than a held
operation of its connector (it still has the lock), that a verdict's retry
metadata is written while the operation is held, and that `last_status` comes
from an operation that ran. Cardinalities of the sets of slot holders are
handled by lemmas over FiniteSetTheorems.

OneOpenRow needs `RowInv`: an open row has a live worker, which holds its
connector's lock, or is orphaned by a restart; and a start call that is past
the duplicate check has seen every orphan of its connector, because a restart
also ends the calls, so that none of them goes on to create a second row. With
storage faults the property is false (a row whose closing fails stays open
while its lock comes back), hence the hypothesis ~DbFaults.

The refinement maps each step to one of the ledger's actions or to a stutter:
CreateAndSubmit to a request, Claim to a beginning, Finish, the closers' first
statement and the reaper to a verdict, the metadata writes to metadata writes.
The one thing that takes an argument is that a metadata write is one of a
verdict whose metadata nobody else writes: *OneWriter*, the worker and the
closer of an operation are never both before it, follows from the
compare-and-set of its row.

### IngestProofs

PipelineAssumption: any workers, messages, lines, overlaps, failures.

| Theorem | Property |
|---|---|
| TypeCorrect | TypeOK, and *Placed* |
| DeletedIsStoredHolds | DeletedIsStored |
| DispatchOnceHolds | DispatchOnce |
| AnomalyOnceHolds | AnomalyOnce |

*Placed* says what a worker holds at each stage; the others build on it.
DeletedIsStored needs *Behind*: everything before a worker's position is
stored or dropped, which survives other workers because rows and drops only
grow. DispatchOnce needs *OneNotice*: a line on its way to the notifier was
not sent yet, and no two workers are on the way with the same line, because
the insert was new to one of them only. AnomalyOnce needs *OneClaim*: of the
workers past the upsert at most one can still read a count of one or report,
and none after the report.

### NotifyProofs

DeliveryAssumption: any dispatchers, events, routes, windows, limits, restarts.

| Theorem | Property |
|---|---|
| TypeCorrect | TypeOK, and *Placed* |
| AccountedHolds | Accounted |
| SuppressedHolds | SuppressedForQueued |
| SpacedHolds | Spaced |
| DigestHolds | DigestOnTime |

Here *Placed* says that a dispatcher under way is at a route of its event, that
the worker holds something exactly between Get or Drain and the end of it, and
that a digest with a start time has a first notification. TypeOK alone is not
inductive: Enqueue, SendFails and Tick read the route, the retries and the
window of what these places hold. Accounted counts occurrences in three
sequences, so it rests on what Append, Tail and a single element do to a count
(OccursAppend, OccursTail, OccursOnce, over FiniteSetTheorems) and on two more
invariants. *InItsDigest*: a digest only holds notifications of its channel, or
Drain would take away what other channels count. *Untouched*: nothing was
queued yet for an event that is not dispatched, nor for the routes a dispatcher
has before it, and no two dispatchers have the same event, or Enqueue would
queue a notification that is already somewhere.

The throttle relates three ages of a key: of its record, of what was last
queued, and of the clock a dispatcher read when it began. *Vouched*: a record
stands for a notification at least as young, or for one that the dispatcher
who recorded it is about to queue; so nothing is suppressed for nothing.
*Timed*: a record is older than what was queued by at most the stall of a
dispatch, and whoever passed the throttle saw a record from before it began; so
two queued notifications of a key are a window less two stalls apart. *Held*: a
digest that holds something is timed, and nothing in it is older than its
timer.

### HealingProofs

| Theorem | Property |
|---|---|
| LivenessTypeCorrect, AlarmsHold | AlarmsPaired |
| FimTypeCorrect, ChangesHold | ChangesComplete |
| ReportsTypeCorrect, JournalHolds | JournalCovered |
| SchedTypeCorrect | SchedTypeOK |
| HealingHolds | HealingTypeOK, and the three above, in MCHealing |

*AlarmsPaired*: unless two drains had a heartbeat in hand at once (the ghost
`doubled`), *Backed* counts the recoveries that may still be stored (the
row is inactive, a heartbeat found it so, an alarm is not yet written back)
against the alarms that were; *InTurn* says who holds what as long as
heartbeats and checks have not met. MaxAlarms is only where the count of alarms
saturates; it must exceed one, or the saturated count hides what InTurn needs.

*ChangesComplete*: *HandsHeld*, a thread holds a change exactly between storing
and queueing it; *Told*, unless changes got lost or out of order a change in
hand is what the baseline holds and only one thread has one, and with none in
hand the last one queued is the baseline's, or a scan under way has its marker
to queue; a scan that raises with a marker to queue sets `lost`.

*JournalCovered*: *Paced*, from one tick to the next an interval passes at
least, but for a process that has not slept yet; *Read*, a line nobody holds
was logged after the last tick read the journal and will still be within the
window of the next. Both rest on WindowAssumption: the watchdog ends any wait
within the window, and the first backoff and an interval fit into it. The code
has 180 s for the window at the default interval of 60 s (interval + 120 s),
and the installer's WatchdogSec is 180 s; with an interval below 60 s the
window would be shorter than the watchdog's time-out and lines could fall
between two ticks. The ghost `looked` says whether a tick that had the line in
its window could read the journal; once one could, the line is safe (*Safe*).

*HealingHolds* puts them together: each part takes its own steps or rests, so
all four invariants hold in every behaviour of MCHealing. The scheduler's
snapshot keeps its type only because what a tick read as retry metadata is that
of a verdict (*Decided* only grows).

### PartProofs, ListProofs, StateProofs and MCParts

| Theorem | Module | Property |
|---|---|---|
| VpnTypeCorrect, CursorHolds | VpnAgent | CursorCovered |
| LoginTypeCorrect, SignedOutHolds | LoginSessions | SignedOutStaysOut |
| AnswersHold | IntelFeeds | AnswersRecent |
| CaseHolds | Investigations | CaseSettles |
| BatchHolds | RetryBatch | BatchTold |
| SendersHold | NoteSenders | SendersTold |
| ActorsHold | FileActors | ActorsNamed |
| TraceHolds | RdsTrace | SessionsTraced |
| SettingsHold | LiveSettings | SettingsInForce |
| RoutesHold | RouteViews | RoutesShown |
| MatchesHold | EventMatching | MatchesMeant |
| ObjectsHold | AccessPull | ObjectsPulled |
| TargetsHold | EcsTargets | TargetsAgree |
| PagesHold | ApiPages | PagesAgree |
| ServicesHold | ApiPages | ServicesShown |
| ConnectorsHold | ApiPages | ConnectorsShown |
| RdsHolds | RdsSessions | RdsAlerted |
| GatewaysHold | GatewayReports | GatewayTold |
| PerfHolds | PerfAlerts | PerfHeard |
| BurstsHold | BruteForce | BurstsTold |
| PostureHolds | PostureFindings | FindingsTold |
| ServiceHolds | ServiceHealth | ServiceTold |
| InventoryHolds | HostInventory | InventoryTold |
| CollectorsHold | HostCollectors | CollectedTold |
| HealthHolds | HostHealth | HostTold |
| IntakeHolds | HostIntake | ReportsHandled |
| ClientsHold | VpnReports | ClientsAreTold |
| SignalsHold | CloudSignals | ChangesSignalled |
| BucketsHold | BucketDrift | BucketsTold |
| JobsHold | MCParts | JobsSettle |
| SettingsApplied | MCParts | SettingsApply |
| OutdatedHold | MCParts | NothingOutdated |
| ListsHold | MCParts | ListsComplete |
| StatesHold | MCParts | StatesTold |
| ThresholdsHold | MCParts | ThresholdsTold |
| TypesHold | MCParts | PartsTypeOK |

The theorems from RdsHolds to BucketsHold state the part's type invariant as
well. What each argument turns on:

- VpnAgent, *LinesCovered*: what is before the cursor, and was neither received
  nor taken out of a batch, lies in a whole file of the spool, a batch is what was
  read after the cursor, and the file that is being written is the last and holds
  what the batch still carries.
- LoginSessions, *SeenBefore*: a session expires its lifetime after it was last
  seen, in its row and in what any request under way has read or is about to
  write; so no late write of a request can revive it. A revoked session
  has no row, or is one whose deletion did not happen (`lingers`). *SeededOnce*: the
  process that is starting saw no users only if there were none.
- IntelFeeds, *Ghosted* and *NotOlder*: the rows, what a lookup read and what
  is cached say what the feeds said since the moment the lookup asked.
- Investigations, *Minded*: the thread that claimed a scan is on it until it
  closes it, or is lost; a case not marked behind its scan's back has one to
  come.
- RetryBatch, *RowsRead*: the rows a monitor counted as closed stay as they
  were counted; *ParentSays*: the parent's verdict was that of rows read.
- NoteSenders, *Weighed*: what reached a recipient is at most what was sent
  unheard and once heard; *Merged*: an open incident has an opener.
- FileActors, *RecordsToCome* and *RecordLogged*: the records of a write come
  in order, and what is before them is in the log or was read, unless the
  writer was missed; *FinishedInOrder*: who was finished later has records
  behind; *WriterNamed*: who should be named is, or someone later is. It rests
  on ActorsAssumption, FreshFor at most SweepAfter (2 s and 5 s in the code): an
  entry would otherwise outlive the partial events that should replace it.
- RdsTrace: a table is a list without a key twice, also after it was evicted,
  put to and popped from; the reverse index has a port exactly where the table
  binds it to that connection, and what it binds was read of a line.
- LiveSettings, *HeldAsSaved*: a request holds the row as it is saved, or has
  been overtaken and knows it; *Renewed*: a copy that is not what is saved has
  been left behind, or a request that will renew it; *ProfileCompiled*: a rule
  is as its profile says, or the profile's save is half way.
- RouteViews: a rule stays one that the form can show while the form is open,
  and what is saved over it is what the form says (*SavedSelects*: the same
  rule); *CoverageAgrees* goes through the one clause on events and the others.
- EventMatching: one lemma for each kind of leaf; *JudgesSays*, a threshold is
  reached exactly if the rules put the event there.
- AccessPull, *WindowKept*: what a run that will report has not pulled, does not
  hold and did not fail on is in the window that starts when that run started,
  if the connector is the one whose time is its cursor.
- EcsTargets, *DrainMirrors*: an unmarked drain's rows are as its list has them
  as far as it got, and the rows it will switch off are those it should;
  *DrainsApart*: of two drains with different lists both are marked; *RowsFresh*:
  while the rows count as fresh, every drain under way mirrors the list that is
  in the parameter. An unmarked drain therefore meets no other list.
- ApiPages, events: no more is needed than that the events are finitely many:
  *ReadOnce* says what a read of at most so many rows keeps of the day, and the
  counters and lists follow by counting. PagesAssumption is the order of the code's
  limits: a list's cap, the query's 1000 rows, the pages' 2000 and more.
- ApiPages, services and connectors: *OutageKept* (the row keeps the start of its
  outage, unless results crossed) and *RowTold* (what the row says of how the
  latest operation went, from the end of its poll on).
- RdsSessions, *BesideSeen*: of two sessions open side by side one drain has
  yet to look, after both rows are stored, until the pair is told;
  *BurstSeen*: while the threshold was not crossed between two counts, somebody
  is about to count it exactly.
- GatewayReports, *CountsLast*: while all is orderly nothing is stored that is
  later than what is being counted; *BurstsHeard*: a minute whose window reached
  the threshold has at or before it one that was told, is about to be, or is
  counted at exactly the threshold. That there is such a first minute uses that
  one more line adds at most one to a count.
- PerfAlerts, *SamplesKept* and *StreaksPresent*: the buffer, and what an
  evaluation has read of it, holds one sample of a host and age, breached within
  a streak, and of every host the MinToEval youngest of its streak: the cap
  leaves that many to each host only if it has room for all of them. So at the
  end of a whole window every sample of the host in the slice breached.
- BruteForce, *InTurn*: a later entry of the deque is older than an earlier one
  by at most a wait for the lock. Hence what is popped is too old for any
  window, and counting what is left counts the burst (*BurstsRaise*).
- PostureFindings, *ScanInOrder*: a scan that resolves has looked at everything,
  and resolves what it did not see bad; *NewsOf*: a row that is not announced is
  on the list of a scan that is recording.
- ServiceHealth, *ServiceCounted*: a counter that is not zero goes with the last
  result, in the row and in what any handler read; *HandlerInOrder*: a
  handler that met no other read the row as it is. ServiceAssumption asks for
  thresholds of at least two, which the code has: with one, a single result
  would be told.
- HostInventory, *ComparedWith*: what is about to be stored was compared with
  the row that is stored. HostCollectors: a collector lags by the time since its
  last success, which is within an interval unless it failed since; what was
  told lags behind the collector only for processes, by at most the interval of
  a whole report.
- HostHealth, *RunsOf*: the two counters are how many of the last loads were
  anomalous or usual; a condition is as it was told, muted, or in the line of
  events to be stored, and one of cpu is in line only while its run has just
  reached the threshold.
- HostIntake, *CameAsOften*: the drains that are before a step and what the
  step left behind are together at most as many as the report came; *BaselineOf*:
  while all is straight the baseline is the file of a report in the history that
  none handled is later than.
- VpnReports, *SessionsAddUp*: what was told plus what drains have yet to tell;
  *AloneWithRow*: a drain that has read the row is the only one, or `upset` says
  otherwise.
- CloudSignals: what a call leaves behind is what it says, what the adapter does
  not look at, or was so before (*MakesKnown*), for each of the nine kinds of
  resource; a finding hidden by another is still owed (*Owed*).
- BucketDrift, *SweepsKnow*: what a scan knows of a bucket that did not change
  since it was listed is so, at every stage; *AlertsInOrder*: of a bucket that no
  two scans met, at most one has it in hand, and what was told, with what that
  one will tell, adds up to the row. A versioning read as "unknown" is in the
  row of no bucket whose calls all answered.
- MCParts: each part takes its own steps or rests (*EachMovesOrRests*,
  *ListsMoveOrRest*, *StatesMoveOrRest*, *ThresholdsMoveOrRest*), so their
  invariants hold together. The host intake and the gateway do not rest in an
  initial state but in one with no report and no line; their invariants are kept,
  and their conjuncts of the groups guarded, where they move. PartsTypeOK
  follows from all of them and three facts of its own: the pages' events and the
  routes' rule are rows of their tables (*RoutesTyped*, PagesTypeOK), and
  *TargetsBounded*.

The attempt to prove ActorsNamed showed that it had been false beyond two
writers. A partial event whose closing record was lost is swept after later
writers were read, and its entry takes the place of theirs. The ghost `missed`
excepted only the writer who held the entry at that moment; with three, a
second writer that was read and then replaced by the third is passed over as
well. TLC found it in 23 steps. The sweep now counts everybody it passes over,
which is what the code does to them, and TLC agrees for three writers, outside
the runs, whose instance has two.

The attempt to prove BucketsTold showed a fault of another kind. A scan kept the
answer to `get_public_access_block` in one place for the bucket at hand, and
nothing in the model kept the rest of the calls on the same bucket, so the
answer of one could be used for another, which `_scan_one_bucket` cannot do. TLC
had not seen it, because its instance has one bucket. The answer is now kept by
bucket, and one bucket is looked at after the other (*UpToBucket*).

For PerfHeard the list of samples became a set: only the cap looks at the order
of the list, and which of equally old samples it drops is left open, which
covers every order. Likewise the conditions that are as reported are told in any
order (HostHealth). In HostIntake the ghost `straight`, that reports are handled
in order, missed a late report if there was a single drain, for which
ReportsHandled had therefore been false; the run has two.

The attempt to prove RoutesShown showed another flaw: CoverageOf was a CASE with
guards that overlap, whose value is then any of its arms, though TLC takes the
first. Such choices are written as the code has them, one after the other,
wherever the modules had one (also in ServiceHealth, ApiPages,
HostIntake and NoteSenders).

### Only model-checked

Every safety invariant and action property of the passing runs is a theorem.
Left to TLC is all liveness: OperationsClose, SlotsReturn, MetadataHeals,
FailedIsRetried, BackendCatchesUp, BaselineCatchesUp, SilenceFound,
MessagesLeave and Settles. Fairness and ENABLED are beyond the prover. TLC also
evaluates every named assumption on the runs' values.

## 6. Not modelled

The map names about a third of the implementation's lines. The rest has little
control of its own:

- *Reading and showing*: the list, search, timeline and export endpoints that
  run one query and reshape its rows, the server-rendered views, the Next.js
  front end. Where two of them contradict each other or a cap hides rows,
  ApiPages and RouteViews have them.
- *Data and wording*: the content contracts and profiles of
  `notify/content_contracts.py` and `profiles.py`, the layout of messages, the
  catalogue's labels, rule files, feeds.
- *Field extraction*: which field of a provider's record becomes which field of
  an event, except where a decision hangs on it (CloudSignals, RdsTrace,
  GatewayReports, VpnReports, HostIntake).
- *Provider I/O*: to the models a call answers, raises or hangs. A probe of a
  certificate, the geo database and S3 or SQS themselves are such calls.
- *Metric history* with its hourly rollup, and the webhook path
  (`ingest` of a pushed payload is the pipeline's without a queue behind it).
- *The database*: the connection pool, migrations, and PostgreSQL itself, each
  statement (or explicit transaction) of which is atomic.
- *Wall-clock time*: deadlines pass at any moment, ages are small numbers, and
  clocks of different machines are not compared.
- *Deployment*: installers, containers, the RDS log forwarder under `deploy/`.
