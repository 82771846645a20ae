# FreeSDN: a verification of its write paths and ledgers

FreeSDN is a multi-vendor network controller: a FastAPI backend, Celery workers, PostgreSQL,
Redis/Valkey and a web frontend, with adapters for some fifteen vendors. Most of the code is vendor
I/O and tenant-scoped CRUD. What can go wrong in ways a test hardly reaches is where a process may
die, or an answer may be lost, between two steps that must agree. This project models those parts:

* the way of a write to a live controller, hypervisor or firewall: the staged-change pipeline, the
  arbitration of Proxmox operations with the observation of their provider tasks, the read-only gate;
* the ledgers kept beside the database or outside it: the audit chain and its retention, the
  releases of the remote agent on disk, backups on a remote server, the notification outbox and the
  event bus.

Paths below are relative to `src/backend/app/`.

## The system and its parts

| Part | State it keeps | Operations | What makes it correct |
|---|---|---|---|
| Staged-change pipeline (`services/adapter_staging.py`, `models/staging.py`) | rows of `adapter_pending_changes` (status, `updated_at`, payload, provider task) | stage, list, discard, apply, stale recovery; beat janitor | a write is sent at most once, never after a discard; the recorded outcome is true of the device; no row is stranded |
| Fabric executor (`core/fabric/executor.py`, `durable_store.py`) | durable artifacts on disk, one per staged upload | copy the artifact, call `stage_change`, clean up | an artifact lives as long as its change may be applied |
| Upload applier (`services/adapter_truenas_storage.py`) | - | check, upload, wait for the provider's job, prune | a wait that ends early is not a rejection |
| Hypervisor requests (`services/hypervisor_operations.py`) | the primary key derived from a request ID | stage under that key, apply | a repeated request neither duplicates nor revives a change |
| Claim arbitration (`services/hypervisor_cluster_operations.py`, `hypervisor_guest_changes.py`, `hypervisor_task_control.py`) | transaction locks in PostgreSQL | the two conflict guards inside the claim | a disruptive operation runs alone, changes of one guest one at a time, claims never deadlock |
| Task observation (`services/proxmox_task_tracking.py`) | `provider_task`, `provider_task_next_poll_at` | accept, poll, observe, expire | a result is reported only of what is over; an observation that is given up can be closed |
| Read-only gate (`core/runtime_flags.py`) | a Redis key; per process a cached copy, its expiry and a refresh thread | ask, refresh, set | a monitor-only deployment writes nothing; processes agree in the end |
| Upload blobs (`services/hypervisor_upload_blobs.py`) | files named after operation IDs | create, read, remove after the terminal commit | a pending operation keeps its file |
| Remote write journal (`services/remote_write_journal.py`, `remote_write_coordination.py`, remote paths of `services/backup.py`) | one row per remote save: phase; a file on a server; a backup row | reserve, dispatch, send, acknowledge, read back, complete; probe; delete | what is on the server is in the journal; a completed backup is whole; a retry is advised only when nothing was sent |
| Notification outbox (`services/notification_outbox.py`) | pending event rows | drain with `SKIP LOCKED`, publish, back off, suppress | no event forgotten, none doubled without a fault, a decision is final |
| Event bus (`core/events.py`) | per process: sequence counter, window of own ids, Redis subscription | publish, listen, reconnect | a subscriber is handed an event once; a lost connection is not a lost process |
| Token revocation (`core/token_blacklist.py`) | revoked and consumed tokens | revoke, consume | a refresh token is consumed once |
| Circuit breaker (`adapters/circuit_breaker.py`) | state, failure count, cooldown | call, trip, probe | one probe, no lost trip |
| Fabric negotiator (`core/fabric/negotiator.py`, `runtime.py`) | running connections, loop guards | match, run steps, record | bounded runs, no feedback loop |
| Agent releases (`services/agent_release_*.py`) | journal and catalogue rows, session-level advisory locks, files and markers per artifact | reserve, upload, publish, cancel, delete, clean up, deliver | journal, catalogue, disk and budget agree; a download is whole; no lock is left behind |
| Agent signing (`services/agent_signing_*.py`) | key state | rotate, retire | not modelled |
| Audit chain (`services/audit.py`, `audit_chain.py`, `core/audit_state.py`) | hash-linked rows, a signed anchor | append, remove an expired prefix, validate | an honest log verifies in every window and never wedges itself, a damaged one never verifies |
| The rest: automation, discovery and sync, SLA, webhooks, backup, bulk operations, agents, plugins, vendor adapters, feature modules, frontend | | | listed in `PROJECT.json` with the reason each is left out |

How they interact: the API, the Fabric and the hypervisor services call `stage_change`; an
operator's request calls `apply_change`, which asks the gate, locks the row, runs the two guards
for `proxmox.*` features, commits `applying`, calls the vendor's applier with no lock held, and
commits the outcome. Two janitors (`_recover_stale_applying` on queue traffic, the beat task of
`tasks/maintenance.py` every minute) move rows whose worker is gone. The poller
(`hypervisor.poll_tasks`, every 30 seconds) observes accepted Proxmox tasks. Everything is shared
through PostgreSQL rows, so every process may die between any two commits. What is hard here:
double clicks, late workers racing the janitor, commits whose answer is lost, an artifact outside
the database, two locks in two guards, and a cache refreshed by a thread.

The ledgers do not call each other. An audit record is appended inside the transaction it is about;
the beat task of the retention competes for the same advisory lock. A release request holds an
advisory lock of its PostgreSQL session across several transactions and file steps. A remote backup
commits its journal on connections of its own, then its catalogue row on the request's session. The
outbox and the bus meet in Redis: the outbox publishes on a channel the buses of the API processes
listen to. Here it is hard that a lock ends with its session while its holder runs on, that files,
servers and Redis take part in no transaction, and that the deletion of old data must not look like
the deletion of evidence.

## Modules

* `StagedIntent`: the promise to the operator. An intent is queued once, then dropped or released
  once; only a released one is transmitted, once. No requests, locks, clocks or failures. Three
  modules implement it: `AdapterStaging` for a staged change, `ProxmoxClaims` for one whose claim is
  taken apart, and `RemoteBackup` for the file of a remote save.
* `AdapterStaging`: the pipeline. `row` is the status column, `stale` says that `updated_at` is
  older than the TTL, `blob` that the durable artifact is on disk. `Stagers` and `Workers` are
  concurrent requests with a program counter (`spc`, `wpc`); `wcopy` is the status in the
  request's ORM session, `wire` is what became of the write at the device. `writes`, `told` and
  `dropped` are ghosts.
  A stage request is `StageOpen` (a caller's own key is looked up, the artifact is stored), `StageCount` or `StageRefuse` (recovery,
  then the backlog count), `StageInsert`, `StageReturn`; `StageRaises` and `StageCrash` end it. An
  apply request is `BeginApply` (the gates), `Claim` or `RefuseClaim` (everything between the row
  lock and the commit of `applying`), `ApplierRefuses` or `Send`, `Reply` or `NoReply`, then
  `RecordApplied`, `RecordAppliedRaises` with `SecondCommit`, `RecordFailure`, and `Announce`
  for the event that follows the commit. `ApplyCrash` is a kill or a cancelled request (the handlers
  catch `Exception`, which `CancelledError` is not). `Discard`, `DiscardRaises`,
  `RecoverStaleApplying`, `ReapStuck`, `Age`, `SetReadOnly` are the others. A commit that raises may
  have happened or not: both are allowed. The commits of outcomes are keyed by the row's id alone,
  so a late worker overwrites the janitor's mark or a forced discard; that is in the model.
  `NoReply` is a write whose answer is lost. The Proxmox client raises `AdapterOutcomeUnknownError` for every
  such write (`adapters/proxmox/client.py:819`), and the row becomes `reconciliation_required`. Other
  adapters do not: FreePBX (`adapters/freepbx/rest_client.py:461`) and OpenWrt (`adapters/openwrt/client.py:346`)
  answer a timeout with `AdapterResult.fail`, an upload gives up its wait, and the row becomes `failed`. In
  the model a change outside `Proxmox` may take either way. Repetitions a client makes within one call belong to one `Send`.
* `ProxmoxClaims`: what `Claim` and `RefuseClaim` hide for `proxmox.*` features. The claim is taken
  apart into `LockRow`, `ClusterGuard`/`ClusterRefuse`, `GuestGuard`/`GuestRefuse`, `CommitClaim`;
  where a request is tells which locks it holds. `task`, `tid` and `poll` are the columns
  `provider_task` and `provider_task_next_poll_at`, `dev` is the operation at the provider.
  `Kinds` are the feature families the code tells apart, among them `stop`, which may pass the
  worker it stops (`OriginalWorker`). `Accepted` is `accepted_task`; `Observation` with the
  readbacks, `Settled` and `Observe` are `observe_task` with the poller's query. The janitor (`Reap`) may strike at any
  time here. Features whose answer carries no task at all are left out: nothing of theirs is
  unresolved once the row is applied. `sends` is a ghost, the requests that reached the provider;
  with it `intentPhase` maps the rows to `StagedIntent`: discarded by force means released.
* `RuntimeFlags`: the gate. `Gate(p, onLoop)` has the three paths of `is_adapter_read_only`. A caller that has
  to wait for Redis reads in `Gate` and stores and answers in `GateAnswers` (`waited` is what it read; one
  such caller per process at a time); the refresh thread likewise reads (`ThreadReads`) and stores
  (`ThreadStores`). Setting the override writes Redis (`SetOverride`), which may have happened although the
  call raised, and then the own cache (`SetCache`). Redis may fail, return, lose the key. Processes
  start cold (`Init`) and are not restarted. `early` is a ghost: a write was let through before
  anybody opened the gate. `AdapterStaging.readOnly` abstracts the answer.
* `EvidenceLog`: the promise of the audit log. Records are added behind all others and never changed,
  they leave from the front and after their period, and the verdict on the log is "valid" until
  somebody changes the table by other means, then "broken" for ever. No hashes, anchors, locks or transactions.
* `AuditChain`: the log, an implementation of `EvidenceLog`. `log` and `anchor` are committed; `vlog` and `vanchor` are what the holder of
  the chain's advisory lock sees. A row's hash is its identity, and `intact` says that its body still
  is the one signed. `MakeRecord` fixes the time of occurrence before the lock is asked for, so times
  do not follow the chain; `Append` is `persist_record`, `AppendFails` its savepoint rolled back with
  the error swallowed; `BeginCleanup` and `Prune` are the retention task with `prune_prefix`;
  `Commit` and `Abort` end a transaction. `OutOfBand` is a change of the table by other hands, once.
  `Valid` is `validate_audit_chain` of any window, with the check of its bounds (`BoundsOK`): a window that
  ends before it starts is refused. `TailOK`, `SealOK`, `ValidState` are the checks of the anchor.
  Old history comes in three forms (`Legacies`), as the migration finds it (what it leaves out is listed below).
* `ReleaseShelf`: the promise about one stored binary. It is written once, offered only whole, withdrawn
  for good; downloads take whole binaries; its bytes are erased only after the withdrawal and under no
  download, and never come back. No journal, leases, markers or crashes.
* `AgentReleases`: an implementation of `ReleaseShelf`. A worker is one API request; `act` is what it asks (reserve, upload, resume, publish,
  delete, cancel, clean up), `pc` its place. `phase`, `decision` and `live` are the journal and the
  catalogue, `dir`, `payload` and the four markers the files, `lease` the session-level advisory lock,
  `flock` the directory lock. `Look` stands for the phases that only check, `Reserve`, `RecordPrepared`,
  `Publish`, `Cancel`, `Decide`, `RecordCleaned` for those that write; each is refused once the lease is
  gone, and one whose answer is lost poisons its owner. `Begin`, `AppendChunk`, `Finish`, `Verify`,
  `Retire`, `Unlink` are the file steps, which may stop half way and do not notice a lost lease.
  `AcquireUnconfirmed` is a lock granted and not acknowledged. `ReadStart` to `ReadEnd` are a managed
  download. The mapping to `ReleaseShelf` reads `shelfBar` from catalogue and journal, `bytesBar` from
  the payload and the retirement marker, and `takenBar` from the downloads.
* `RemoteBackup`: an attempt (`at`) of a backup or of a connectivity probe, its journal phase, its file on
  the server, its catalogue row and the recovery flag. Every commit of `RemoteWriteJournal` may be answered, unanswered or
  undone (`CommitOutcomes`), and only an answer lets the attempt go on. The operator edits the storage location at any time
  (`EditDestination`), which `DestinationHolds` detects at the code's five looks; a deletion is three steps of its own.
  The last look (`Confirm`, `services/backup.py:3304`) and the commit of the completed row (`Complete`, line 3335) are two
  steps: an edit between them leaves a completed row of the old location. A deletion resolves the location as it is
  by then (line 4883): after an edit it may be told of success where the file never was, and take the row. The file
  then stays and only the journal tells of it (`BytesAreJournalled`).
  `cancel_before_dispatch` is a transition nothing calls, and is left out. `sends` is a ghost, the transfers
  begun. `writePhase` maps the journal to `StagedIntent`: a reservation is dropped when its owner
  gives up before the dispatch, and one whose commit was never answered stays queued, without an owner.
* `NotificationOutbox`: events, the row locks of publishers' sessions, and what Redis took.
  `SessionLost` frees a row under a running publisher; `PublishUncertain` and `CommitLost` are answers lost.
  `accepted` and `faults` are ghosts.
* `EventBus`: per process the window of own ids as deque and set (`ids`, `idSet`), the subscription and
  what Redis holds for it. `PublishLocally` is `publish` up to its first suspension, `PublishRemotely` the
  rest, after handlers of any length; echoes therefore arrive late and in any order of events. An event is
  published once, without a sequence number, as the callers of `publish` do: one that already has a number
  keeps it in the code (`core/events.py:461`), and publishing an id again is not modelled.
  `Reconnect` builds a client and subscribes. `ReconnectHalf` is a `psubscribe` that fails after the new
  connection was made: the code logs it, and the loop goes on with a `pubsub` that only times out
  (`mute`) until that connection breaks too or the bus is connected anew.
* `MCStaging`, `MCClaims`, `MCFlags`, `MCAudit`, `MCReleases` give the constants their instances.
  `MCLedgers` runs three parts that share nothing, outbox, remote backup and bus, one per behaviour.
  `AdapterStagingProofs`, `ProxmoxClaimsProofs`, `RuntimeFlagsProofs`, `RemoteBackupProofs`,
  `NotificationOutboxProofs`, `EventBusProofs`, `AgentReleasesProofs` and `AuditChainProofs` hold the theorems.

Operators whose comment begins with "Mutant" are plausible wrong versions of the definition that
follows them. No specification uses them; put in its place, each one breaks the property
`PROJECT.json` names.

## Runs

Every run finishes in about three minutes on two workers; the largest has 2.4 million states.

| Run | Instance | Shows |
|---|---|---|
| `staging_apply` | an upload and a keyed Proxmox delete, two apply requests, one stage request | `AtMostOnce`, `DropIsFinal`; the recorded outcome is true (`OutcomeIsTrue`: `applied` of every change, `failed` of the Proxmox change), and the event (`AppliedEventIsTrue`); `StatusMoves` |
| `staging_quota` | four changes in two organisations, two stage requests, cap one | `QuotaOvershoot`: the cap is exceeded, by at most one row per other request |
| `staging_live` | an upload and a keyed change, two stage requests, one apply request, fairness | `ImplementsIntent`, `ApplyingResolves` |
| `claims` | a reviewed change and a creation of one guest, a stop of the first; two requests | `NoOverlap`, `GuestSerial`, `BlockedIsClosable`, `ResultIsObserved` |
| `claims_live` | a certificate and a cluster configuration, fairness | `ClaimsImplementIntent`, `ClaimEnds`, `PendingSettles` |
| `flags` | two processes, TTL 1, monitor-only, fairness | `MonitorOnlyHolds`, `GateConverges` |
| `audit` | two logging transactions, one retention task, three old histories, fairness | `VerifyAccepts`, `TamperEvident`, `NeverWedged`, `ImplementsEvidence`, `RetentionProgresses` |
| `releases` | an upload of a release, its deletion, a reservation of another; two requests, one download, budget one, fairness | `LiveHasBytes`, `BytesAccounted`, `CatalogueMatchesJournal`, `CleanedMeansGone`, `DeliveryIsWhole`, `ImplementsShelf`, `DecisionsFinal`, `LeaseReturns` |
| `ledgers` | two notifications and two publishers; or a backup, a probe and two destinations; or two processes and three events; fairness | `OnceButForFaults`, `DecidedOnce`, `EventsDrain`; `BytesAreJournalled`, `CompletedIsTrue`, `RetryAdviceIsSafe`, `OnlyVerifiedErased`, `WritesImplementIntent`; `HandedOnce`, `ListenerRecovers` |

The types of every module are proved, and so are checked in no run.

Three more runs refute a sentence of the repository (see `findings` in `PROJECT.json`):

* `staging_failed_asserts_unchanged`: "`failed` is a positive assertion that the device did not
  change". An adapter that answers a timeout with `AdapterResult.fail` makes `apply_change` raise an
  `HTTPException` (`services/adapter_staging.py:1371`), which is recorded as `failed` (line 1443); the device
  may have taken the write. The upload's wait for its job gives up with `AdapterTimeoutError`, which
  `outcome_is_unknown` does not list either; the job completes later. This is why `OutcomeIsTrue` speaks of
  `failed` for the Proxmox changes only, whose client always tells a lost answer from a refusal.
* `staging_pending_keeps_blob`: the artifact is to survive until the change is terminal. It is
  deleted when `stage_change` raises after its commit, and when a discard's commit fails.
* `flags_gate_never_fails_open`: with a writable deploy default, an outage of Redis reopens a gate
  the operator closed.

Some divergences need no run to be seen. An idle process answers its first call after the TTL from
a cache of any age and only then refreshes it (`core/runtime_flags.py:171`), where the comments
say that a toggle propagates within the TTL (line 54) or one refresh later. The circuit breaker's
documentation speaks of one probe in `HALF_OPEN`; the code lets every caller through. The janitor's docstring (`tasks/maintenance.py`) says it marks
rows `failed`, the code, rightly, says `reconciliation_required`; and `controller.change.failed` is
published of rows that are `reconciliation_required`, although `_publish_change_event` promises
subscribers the lifecycle the UI sees.

Some things the models show are not refutations, because nothing promises otherwise. A reconnection of the bus
whose `psubscribe` fails on a connection that stands leaves a process deaf to the events of the others until that
connection breaks (`mute`; `ListenerRecovers` is about the other breaks). A download that was
verified keeps its bytes (`DeliveryIsWhole`) but may be broken off, because the catalogue is looked at again
before each chunk (`services/agent_release_delivery.py:394`). An operation
outside the reviewed families whose observation ends as `unknown` can be neither discarded nor
observed any more, and keeps blocking the disruptive operations of its controller
(`Reviewed` in `Discard`, `Unresolved` in `ClusterConflict`). And after a fault the outbox publishes an
event again under the same id; the buses that receive it remember only the ids they published
themselves, so their subscribers are handed it twice (`OnceButForFaults` counts them).

### Bounds, and why they are enough

Two requests of each sort are the smallest number that race; a third adds no new kind of order,
because every conflict in the code is between one claim and one other row or lock holder. A change
has a single write, so one upload, one keyed change and one plain one cover the branches. Three
Proxmox changes are needed for a stop, its target and a bystander; the runs have the kinds `guest`,
`create`, `stop`, `cert` and `config`, and `power`, `storage` and `node` are covered by the theorems only.
`Controllers` is a singleton: the guards and their locks are per controller, and changes of
different controllers meet in no guard. A TTL of one tick makes a cache fresh or expired, which is
all the gate asks; the theorem is for every TTL.

`audit`: `MaxSeq` 3 and old histories of none, one and three rows make chains of up to six rows; with `BatchSize`
2 a batch ends inside, at and before the end of the log. `MaxTime` 3 with `Retention` 1 lets rows expire
in another order than they were appended. `releases`: `Budget` 1 is reached by the first reservation;
the third operation is only there to want the budget. An upload and a deletion reserve for
themselves and may die right after it, so that only the third operation is asked for a reservation alone. Two requests suffice for a stale owner
racing its successor. `ledgers`: `MaxFaults` 1 per event is the first value at which a duplicate is possible;
`Window` 2 with three events of one process is the first at which an id leaves the window;
`MaxBreaks` 2 is a lost connection or an outage, and a second one after half a reconnection.

Time is otherwise unbounded: `Age` and `Expire` may happen at any moment, and no other counter needs a
cap. Symmetry is used for requests and processes only, and in no run with a
liveness property. `claims`, `claims_live` and `audit` do not check for deadlock: once all changes are
resolved, or the bounds on time and sequence are used up, the system rightly stops.

### Fairness

`AdapterStaging`: the beat janitor runs (crontab, every minute: `core/celery_app.py`) and time
passes. Requests get no fairness at all: they may die. `ProxmoxClaims`: a claim transaction makes no
external call, so it proceeds unless its process dies; PostgreSQL queues the waiters of an
advisory lock in order, which justifies strong fairness on taking it; the poller runs
every 30 seconds, oldest due row first; time passes. The provider gets no fairness: a
task may run for ever. `RuntimeFlags`: threads run, a set that reached Redis
returns, a caller that waits for Redis gets an answer or its socket times out, time passes, and processes
keep being asked (`GateConverges` is about processes that handle writes).

`AuditChain`: the beat runs the retention task, which does not fail for ever (strong fairness of `Prune` and
its commit), and transactions end; appends need not happen, and need not succeed. `AgentReleases`:
a request has a deadline and gives its locks back on every way out, and PostgreSQL ends a session
whose client is gone. `NotificationOutbox`: the beat runs every five seconds and takes the oldest due row
first, so no row is passed over for ever; every step of a publisher is bounded by a timeout; a subscriber
listens again and again. `EventBus`: the listener is a task of a running loop, and Redis comes back; a reconnection
that goes only half way may happen at any time, and nothing is assumed to end it.
`RemoteBackup` has no liveness property: nothing repeats an attempt.

## Proofs

All theorems hold for every value of the constants, under the named assumptions of the modules
(`StagingAssumption`, `ClaimsAssumption`, `FlagsAssumption`, `OutboxAssumption`, `BusAssumption`,
`ReleasesAssumption`, `ChainAssumption`), which TLC evaluates in every run that extends the module;
`RemoteBackup` needs none. They give the constants their types and ranges and keep the values that stand
for "nothing" apart from the others. What they say of the data the code ensures itself: a guest
change names its guest and a stop its target (`ClaimsAssumption`), and a release has exactly one
publication (`ReleasesAssumption`).

* `AdapterStagingProofs`. `TypeCorrect`. `StagingInvariant` proves `StagingInv`: at most one request
  per change is past its claim (`Exclusive`), the row agrees with where that request is
  (`ClaimedRow`), the request's position tells what it knows of the device (`KnownOutcome`; that a
  refusal means an unchanged device is claimed of Proxmox changes alone), and a
  change in the queue or dropped from it is untouched (`Untouched`). None of the properties is
  inductive alone: that a write is sent once rests on the claim finding `pending` under the lock,
  hence on no sent change ever being pending again, hence on who may overwrite a row and when.
  `WrittenAtMostOnce`, `DroppedStaysDropped`, `RecordedOutcomeIsTrue`, `AppliedEventsAreTrue` and
  `StatusMovesForward` follow.
  `Refinement` proves `Spec => ImplementsIntent`, one step of the abstract specification or none per
  action. `BacklogBounded` proves the overshoot from its own invariant `QuotaInv`: pending rows plus
  requests between count and insert never exceed the cap plus the number of other requests; a
  request that counts adds itself, an insert moves it from one term to the other.
* `ProxmoxClaimsProofs`. `ClaimsInvariant` proves `ClaimsInv` in three layers: types; requests
  (`OneRequest`, `RequestRow`, `RequestDev`, `RowDev`: who holds which change and what the answer
  says of the operation); and separation. `Recorded` says that what runs at the provider is on
  record as unresolved; `Apart` and `GuestApart` extend the properties from operations in flight to
  requests past a guard, which is what makes them inductive: only a claim adds to the busy
  changes, and it has seen every other one, as a row or as the lock's holder (`BusyIsSeen`).
  `DisruptiveRunsAlone`, `GuestChangesSerialise`, `ExpiredIsClosable` and `ResultsAreObserved` follow.
  `ClaimsRefinement` proves `Spec => ClaimsImplementIntent`. The layer of requests carries it, with one
  fact more, `QueueUnwaived`: what is still queued was never discarded by force.
  `ClaimsWaitInNoChain` is the safe half of `ClaimEnds`: because the controller's lock is taken before the guest's
  and has one holder (`CtlExclusive`), a claim that is waited for waits for nobody.
* `RuntimeFlagsProofs`. `FlagsInvariant`: until an operator opens the gate, `"false"` is in no key,
  cache, waiting caller, thread or pending set. `MonitorOnlyIsSafe` follows. `AgreementStands` is the safe half of
  `GateConverges`: a process whose cache, read values and pending set agree with the override
  (`Settled`) stays so as long as the override and Redis do. It has to speak of the read values and
  the pending set: the cache alone may be overwritten by a refresh that read before the change.
* `RemoteBackupProofs`. `RemoteInvariant` proves `RemoteInv`: the types and, for each attempt, that its
  place says what the journal has of it (`JournalAt`), that nothing is on the server before the
  journal knows and the owner exists (`JournalFirst`), what was verified when success may be said
  (`VerifiedAt`), and that row, recovery flag and deletion agree with all this (`RowTells`). The
  last is what makes the properties inductive: a deletion may begin while the attempt that
  completed the row is still in its last checkpoint, and only because a deletable row is verified
  or was never sent does it not matter who of the two comes first. `JournalKnowsBytes`,
  `CompletedBackupsAreTrue`, `RetryIsSafe` and, as an action property, `UnverifiedFilesStay` follow.
  `WritesRefinement` proves `RemoteSpec => WritesImplementIntent`: `JournalAt` says that a sender's
  journal is past its dispatch, and places are left for good, so no transfer begins twice.
* `NotificationOutboxProofs`. `OutboxInvariant` proves `OutboxInv`: a locked event is undecided, a
  publisher that was told of an acceptance and an event that says published have one, and for each
  event `PaidFor`: past acceptances, plus the publishers that may still publish it, plus one if
  anybody may pick it, are at most one more than the faults it met. The count is what
  `OnceButForFaults` lacks to be inductive: a publisher whose transaction is lost leaves the event free
  for another, and only the fault that freed it pays for the second publication.
  `PublishedOnceButForFaults` and, as an action property, `DecisionsStand` follow.
* `EventBusProofs`. `BusInvariant` proves `BusInv`: the deque of a process is the latest stretch of its own
  sequence numbers and the set is the deque (`WindowOf`), an own event that left the set has a
  whole window behind it (`Overtaken`), Redis holds an event for a process at most once and before the
  listener handed it on (`Waiting`). `BusTypeCorrect` and `SubscriberIsHandedOnce` follow.
* `AgentReleasesProofs`. `ReleasesInvariant` proves `ReleasesInv`. `JournalInv` ties phases, decisions and
  the catalogue together. `WorkerInv` says of each request, by its place alone, which request can be there
  (`ActFits`), whose directory lock it holds (`HoldsFiles`), and what it knows of the journal
  (`KnowsJournal`) and of the files (`KnowsFiles`). `ArtifactInv` says of each artifact that what is
  prepared, published or being read is whole, that nothing is on disk without a reservation, and that
  what is clean is empty; `BudgetInv` that the charges are finite and within the budget. The
  lease is in none of them: file steps run without a session and after the lease was lost, so
  ownership cannot be what protects the bytes. What does is that a cleanup touches
  files only for a final decision, that decisions are never taken back, and that the directory lock
  keeps a stale uploader and a cleanup apart. `LiveReleasesHaveBytes`, `BytesAreCharged`,
  `CatalogueIsTheJournal`, `CleanedBytesAreGone`, `DeliveriesAreWhole`, `ReleasesTypeCorrect` and, as an action
  property, `JournalOnlyAdvances` follow. `ShelfRefinement` proves `Spec => ImplementsShelf`; beside
  `ReleasesInv` it needs that a download is of a published release (`ReaderInv`), true when it
  begins and kept because decisions are final. The lease is where `LeaseReturns` rests: `LeasesHaveOwners`
  proves that a lock is free, of a session about to end, or of the request that works on that release.
* `AuditChainProofs`. `AuditInvariant` proves `AuditInv`: the committed log with its anchor, and the ones
  the lock holder sees, are each a finite, ordered set of rows below the sequence's next value
  (`RowsInv`, `Fresh`) and either `Linked`, the anchor describing the rows and each row naming its predecessor,
  or, once the table was tampered with, `Damaged`. "Does not verify" would not be inductive:
  damage has to be a wrong row count or a changed signed row, because an append keeps the difference
  of the counts and every row, and a batch refuses wrong counts and never takes a changed row.
  `RemovedInv` says that what the holder removed so far is an expired prefix of the committed log.
  A link speaks of the last of the earlier rows, so the proofs need first and last rows of finite
  sets to exist; they do, because a smallest set without one (`WFMin`) would have one. That a window
  verifies is stated per row and its predecessor, never along the chain, which avoids induction.
  `TamperingStaysEvident`, `ChainNeverWedges`, `AuditTypeCorrect` and, as an action property,
  `RetentionTakesExpiredPrefix` follow. `EveryWindowAccepted` says more than the runs check: for any bounds, any
  size and both logs at any moment the verdict depends on the bounds alone (`BoundsOK`); `VerificationAccepts` is the property of the runs.
  `EvidenceRefinement` proves `Spec => ImplementsEvidence`, with `ViewInv` beside `AuditInv`: a writer has only
  added rows behind the committed ones and a cleaner has only removed some, so that either commit is
  one abstract step. `VerdictRefinement` proves the same abstract specification with the verdict
  taken from `validate_audit_chain` on the committed log itself, instead of from the ghost that says whether the table was
  touched: the two agree in every reachable state (`VerdictIsHonest`). No run checks this form,
  because a verdict in both states of every step is more than TLC computes in its time;
  its parts, `VerifyAccepts` and `TamperEvident`, are checked.

Only model-checked: the liveness properties (`ApplyingResolves`, `ClaimEnds`, `PendingSettles`,
`GateConverges`, `RetentionProgresses`, `LeaseReturns`, `EventsDrain`, `ListenerRecovers`), which need fairness
and are out of the prover's reach. Every other property of the passing runs is a theorem.
`MCLedgers` puts three specifications side by side, and each theorem is about one of them.

## Not modelled, and the plan

Data is abstracted: payloads, digests, permissions, site grants, redaction, audit rows of the pipeline
and metrics appear at most as a refusal. Two registrations of one physical controller are outside the
guards in the code and in the model. Within the modelled parts these are left out:

* `AuditChain`: the batches of the other security tables in the same task, the anchor's revision
  counter and its maximum, the size limit of a validation, and three sorts of old history: signed rows linked
  in another order than the queries', rows already removed by the retention before the anchor existed, and
  unsigned rows after signed ones. The last two the code finds invalid and refuses to prune
  (`src/backend/tests/security/audit_integrity/test_audit_legacy_retention_migration.py:91`, `:101`); `VerifyAccepts`, `NeverWedged` and
  `RetentionProgresses` are about the histories it accepts.
* `AgentReleases`: which release is the latest, history budgets, organisations, signatures, files from
  before the journal, download counts. The keys of an operation and of its release are one lease. A
  reservation that is cancelled before anything was uploaded stays charged until its cleanup, as in the code.
* `RemoteBackup`: local and object storage, encryption and content of a backup, restore. The rollback of a schedule's claim
  after an attempt of unknown outcome (`tasks/backup.py:236`) is not in it: the next minute makes a
  new attempt with a journal entry of its own, beside the one that needs recovery.
* `NotificationOutbox`: the seconds of the backoff and the attempt counter.
* `ProxmoxClaims`: old guest rows whose payload has no vmid; `GuestSerial` is about reviewed changes, which carry it.
* `EventBus`: patterns, priorities, handler timeouts, the history store and its replay, and the outbox's publications,
  which come from outside any bus.

Parts with no module, and why:

* token revocation: one conditional insert under one advisory lock each; what can be said of it
  restates that statement;
* circuit breaker: an in-process object with no suspension inside its methods; its one question, how
  many probes pass in `HALF_OPEN`, is answered by reading it (above);
* webhooks, notification channels, bulk operations, backup schedules, agent signing, upload blobs, the
  Fabric negotiator: real candidates, listed in `PROJECT.json`;
* vendor adapters, feature modules, discovery, analytics, plugins, frontend: by far most of the lines. They translate
  between vendors' formats and tables, one request at a time; their state is the vendor's
  device or a row of one tenant, and their correctness lies in data a model would have to
  leave out. The map therefore covers a small share of the repository.

Next, in this order:

1. `HypervisorRequests`: request IDs, the payload comparison and the direct dispatch on top of
   `AdapterStaging`, with the upload blobs of `hypervisor_upload_blobs.py`.
2. A composition of `ProxmoxClaims` with `AdapterStaging`. Both implement `StagedIntent`; what is
   left is that the claim of the former implements the claim of the latter.
3. `FabricNegotiator`: loop guard, run recording and caps.
