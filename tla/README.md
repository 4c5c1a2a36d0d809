# Formal models of Garyx

Garyx is a gateway that puts chat channels, a desktop and a mobile client in
front of coding-agent providers. A *message* arrives over HTTP or a channel, is
admitted to a *thread*, and starts a *run* of a provider on that thread or is
queued as input into the run that is active there. Everything the gateway must
remember is in one SQLite database and one transcript file per thread; everything
else (leases, operation cells, run index, guards) is in memory and dies with the
process. The gateway is one process with many tokio tasks, so its hard behaviours
are interleavings of tasks at their awaits, futures that are dropped at an await,
tasks that panic, and a restart between any two durable steps.

This directory holds TLA+ models of the parts that decide *whether a run may
happen, whether it happens once, whether its channel sees all of it, and what
starts it again* (a quota that refills, a schedule, a finished subtask, a
restart), the TLC instances that check them, and the proofs TLAPS checks. Paths
below are relative to `src/`.

| file | what it is |
|---|---|
| `RunFence` | what the run coordinator promises, abstractly |
| `ThreadRunCoordinator` | the coordinator with its callers; implements `RunFence` |
| `ThreadRunCoordinator_proof` | its invariants, what its steps never do, and the refinement, proved |
| `AtMostOnceHandoff` | what the dispatch ledger promises, abstractly |
| `DispatchAdmission` | ledger, create claims, operation cells, owner tasks, restarts; implements `AtMostOnceHandoff` |
| `DispatchAdmission_proof` | its invariants, `SettledForever` and the refinement, proved |
| `BridgeRuns` | the runs of a thread in the bridge: tables, tasks, persistence workers, aborts |
| `BridgeRuns_proof` | its invariant, `NoGhostInput` and `HandleStays`, proved |
| `OrderedDelivery` | what the committed replay promises, abstractly |
| `CommittedReplay` | transcript, writers, bus, replay task; implements `OrderedDelivery` |
| `CommittedReplay_proof` | its safety properties and the refinement, proved |
| `QuotaRecovery` | the jobs that continue a run which stopped at the provider's quota |
| `QuotaRecovery_proof` | its invariant and `SettledIsFinal`, proved |
| `ThreadDeletion` | lifecycle operations, endpoint bindings, the router's cache, the cleanup outbox |
| `ThreadDeletion_proof` | its invariant and `SparesTheLiving`, proved |
| `TaskReview` | tasks, their runs, reviews and callbacks |
| `AutomationJobs` | a scheduled job, its executors, its editors |
| `AutomationJobs_proof` | its invariant and `NoOverlap`, proved |
| `RestartWake` | the file of threads to wake after a restart, and the drains that work it off |
| `Waking_proof` | the invariants of `TaskReview` and `RestartWake`, `NotStranded` and `NotReopened`, proved |
| `MC<module>`, `*.cfg` | TLC instances; section 6 lists them by run |
| `PROJECT.json` | components, runs, mutants, the map from definitions to source lines, findings, hazards, theorems |

In a module, an operator `Name_Suffix`, such as `Detach_Any` or `Loaded_Unreset`, is
the definition `Name` with a bug that code could plausibly have (a dropped guard, a
missing reset). No specification uses one; a mutation run puts it in `Name`'s place
to see that the property notices.

## 1. Inventory

For each component: state; operations; whom it talks to; what is hard; what
makes it correct. "Modelled" names the module; the rest is in the plan (section 2)
or out of scope (section 9).

**Thread run coordinator** (`garyx-router/src/run_admission.rs`). State: one entry
per thread in use, with a state (uncalibrated, live, archived, deleted, or owned by
a deciding, archiving or deleting operation), an epoch from a process-wide nonce,
leases, pending users, and a `Notify`. Operations: calibrate from the durable
tombstone (two-phase read), reserve a lease, promote it, release it, reserve for
archive, delete, decision or creation, drain, settle, transfer a creation to its
first lease, evict. Called by every dispatch, every lifecycle operation and the
store's own delete. Hard: a read that is installed after the state moved, a token
of an old reservation, a lost wake-up of a drain, eviction of an entry in use,
dropped futures. Correct: no run on an archived or deleted thread, no thread
fenced for good, every operation ends. *Modelled: ThreadRunCoordinator.*

**Thread lifecycle operations** (`garyx-gateway/src/routes/lifecycle.rs`,
`garyx_db/lifecycle.rs`, `thread_lifecycle.rs`). State: an in-memory registry of
operations by id, a durable operation record, tombstones. Operations: archive
and delete: each fence, drain, transaction, settle, with a reaper for an
owner that dies. Hard: failure between any two of those, a duplicate operation
id, a crash after the commit. Correct: the fence is lifted whatever fails; the
cache agrees with the tombstone; the guards outlive the transaction. *Modelled:
against runs in ThreadRunCoordinator, with registry and supervisor in
ThreadDeletion.*

**Durable thread store** (`garyx_db/records.rs`, `sqlite_thread_store.rs`). State:
thread records and tombstones. Every write checks the tombstone in its own
transaction. Correct: a tombstone excludes a record. *Modelled in
ThreadRunCoordinator.*

**Dispatch admission ledger** (`garyx_db/dispatch_admission.rs`). State: a row per
(scope, thread, kind, client intent id): admitted, handoff_started, accepted,
ambiguous, not_dispatched. Operations: insert, insert without an active run,
start the handoff (the gate), settle, recover at startup. Hard: duplicates,
retries, a restart between the gate and the settlement. Correct: a provider is
given a message at most once, and the ledger never claims what did not happen.
*Modelled: DispatchAdmission.*

**Conversation admission** (`conversation_admission.rs`). State: a bounded table of
operation cells; each has one owner task and any number of joined requests.
Operations: register, join, publish, the guard that publishes a failure when the
owner is dropped. Hard: two duplicates at once, a join that races the
publication, a panicking owner, a full table. Correct: one owner per operation,
and nobody waits for a cell that no one will publish. *Modelled:
DispatchAdmission.*

**Durable chat start, stream input, create and dispatch** (`chat.rs`,
`application/chat/control.rs`, `create_dispatch.rs`, `garyx_db/create_intent.rs`).
State: the create claims (reserved, preparing, committed, failed) and the locals of
each request and owner task. Correct: as the ledger; what is admitted can be
resumed; what fails can be tried again. *Modelled: DispatchAdmission.*

**Bridge run management** (`garyx-bridge/src/multi_provider/run_management.rs`,
`multi_provider.rs`, `run_graph.rs`). State: dispatch guards per thread, run index,
task table, persistence handles, limiter permits. Operations: plan (queue, replace,
start), execute, publish, abort, abort and wait, finish. Hard: the guard is dropped
before the run is indexed; abort races the cleanup task; the handle is one per
thread and not per run. Correct: what is indexed can be aborted, no task escapes,
a drain ends and leaves nothing behind. *Modelled: BridgeRuns; the admission part
in DispatchAdmission.*

**Streaming persistence and committed replay** (`multi_provider/persistence_worker.rs`,
`persistence.rs`, `garyx-channels/src/committed_replay.rs`). State: the transcript of
a thread, a bounded broadcast bus, and one replay task per delivery with its
frontier. Operations: write rows then announce them; receive, detect a lag,
backfill from the transcript, finish with a synthetic done. Hard: the bus drops
what a slow receiver has not read, among it the row that ends the run. Correct:
every row of the run in order and without a hole, one flush at the end.
*Modelled: CommittedReplay.*

**Quota recovery** (`quota_resend.rs`, `garyx_db/quota_recovery.rs`,
`quota_auto_switch.rs`). State: a durable job per blocked run (a *generation*), a
worker, an event projection. Operations: project, repair from the transcript, claim,
dispatch through the ledger, settle, supersede, wake (by timer, user or account
switch), recover. Hard: generations out of order; a receiver that lags; a dispatch
that succeeds and a settlement that fails. Correct: a generation is continued once,
is over once superseded, and is not forgotten. *Modelled: QuotaRecovery.*

**Cleanup outbox** (`thread_lifecycle.rs`, `garyx_db/lifecycle.rs`). State: durable
jobs, one per thing a thread leaves behind, each with an attempt count and a time.
Operations: claim, execute, mark, fail, back off. Hard: a crash between a step and
its mark; a step that comes late, when its endpoint has a new owner. Correct: all of
a deleted thread goes, nothing of another one does. *Modelled: ThreadDeletion.*

**Endpoint bindings** (`endpoint_binding_mutator.rs`,
`garyx-router/src/endpoint_binding.rs`, `router/threading`). State: the endpoints in
each thread record, their projection, frozen threads, the router's cache.
Operations: bind, detach, move, freeze, resolve. Hard: a bind that races the
preflight of a delete; a cache filled from a read that a move or a deletion
overtook. Correct: one holder per endpoint, no bot taken away by a delete that
froze before. *Modelled: ThreadDeletion.*

**Tasks** (`garyx-router/src/tasks.rs`, gateway `tasks.rs`, `task_hooks.rs`,
`task_notifications.rs`). State: the status of each task, its automatic dispatch, the
events of its reviews. Operations: create, assign, unassign, update, stop, delete;
message; mark in review; call back. Hard: a run ends while a subtask completes; a
callback or a dispatch arrives late. Correct: a task waits for somebody, is
announced once, and is reopened only by a user. *Modelled: TaskReview.*

**Automation** (`automation/engine`). State: a job in memory and in its file, the
claim (its status), the run of its last dispatch. Operations: tick, run now, claim,
prepare, dispatch, settle, edit, delete, load. Hard: scheduler and requests claim the
same job; saves happen after the lock is gone; a claim survives a restart. Correct:
one executor at a time, one dispatch for each time a one-shot is enabled, a due job
fires. *Modelled: AutomationJobs.*

**Restart wake** (`restart_wake.rs`). State: three files per wake: waiting, claimed,
failed. Operations: drain at startup or after a delay, claim, dispatch, rewrite,
requeue, fail, recover a stale claim. Hard: the file is rewritten after each
dispatch, and the gateway may die in between; a slow drain looks dead. Correct: no
thread is lost; without a stale claim none is woken twice. *Modelled: RestartWake.*

**Telegram outbox** (`garyx-channels/src/telegram/outbox.rs`). State: a queue per
chat with one worker, edits coalesced. Hard: an edit that is put back after a retryable
error and a newer edit of the same message. *Planned: TelegramOutbox.*

**Others**: transcript store, prompt attachments, channel adapters, plugin host,
router, provider runtimes, configuration, gateway features, clients. Not modelled;
section 9 says why, and `PROJECT.json` lists them.

How they meet: a request reads the ledger, registers an operation cell, and its
owner task takes the bridge's dispatch guard, plans, writes the row, opens the
gate, reserves and promotes a lease of the coordinator, publishes the run in the
bridge, and settles the row. A lifecycle operation reserves the same coordinator
entry, aborts the bridge's runs and waits for their leases, commits in SQLite and
settles the entry; what the commit put into the outbox is cleaned up afterwards. A
run writes the transcript and announces its rows; replay tasks deliver them to
channels, the quota projection and the task callbacks react to how it ended. The
recovery worker, the automation engine, task callbacks and the restart wake are
clients of the same dispatch path.

## 2. Plan

In order of how much of the system depends on it.

| module | state |
|---|---|
| `ThreadRunCoordinator` over `RunFence` | done, checked, proved |
| `DispatchAdmission` over `AtMostOnceHandoff` | done, checked, proved |
| `CommittedReplay` over `OrderedDelivery` | done, checked, proved |
| `BridgeRuns` | done, checked, proved |
| `QuotaRecovery` | done, checked, proved |
| `ThreadDeletion` (cleanup outbox, bindings and operation registry in one module: a deletion is the three of them together) | done, checked, proved |
| `TaskReview`, `AutomationJobs`, `RestartWake` | done, checked, proved |
| `TelegramOutbox`: the queue of a chat, retryable errors, edits that coalesce | next |

No module has a recursive operator, so that each can be proved about.

## 3. ThreadRunCoordinator: runs against lifecycle operations

One action is one critical section of the coordinator's mutex, one durable read,
or one SQLite transaction; every await between them is a point where others move.

| state | in the code |
|---|---|
| `record`, `terminal` | `thread_records` has a row; the tombstone in `archived_threads` |
| `state`, `epoch`, `owner`, `leases`, `pending` | the `ThreadCoordinationEntry` of each thread; `"absent"` means no entry |
| `nonce` | `next_nonce` |
| `pc`, `thread` | the await an actor stands at; the thread its call is about |
| `seenEpoch`, `seenTerminal` | the locals of `ensure_calibrated` |
| `valid`, `active` | `LeaseEntry.valid`, `LeaseEntry.active` |
| `token`, `prior`, `target`, `cancelled` | `ReservationToken`, the settlement guard, its witness, "the caller's future is gone" |
| `signalled` | the `Notified` future of a draining operation |

A *request* is one dispatch: calibrate, `ReserveRequest`, `CheckRecord`,
`EnsureValid`, `Promote`, `Publish` (the bridge), `RunEnds` or `Abandon`,
`ReleaseLease`. A *mutator* is one operation of a kind chosen at the start:
`archive`, `delete`, their `_decision` forms (a preflight that already refused asks
only for a decision), `store_delete` (`ThreadStore::delete`) and `create`. A mutator
reserves (`ReserveArchive`, `ReserveDecision`, `ReserveDelete`, `ReserveCreation`,
or `ReserveUnavailable`), drains if it deletes (`DrainAbort`, `DrainAborted`,
`DrainArm`, `DrainCheck`, `DrainWait`), runs its transaction, and settles
(`SettleReservation`), also when its transaction fails, its owner task is aborted
(`AbortOwner`) or its future is dropped (`CancelStoreDelete`). `TransferCreation`
turns a creation into the lease of the first request. `WriteRecord` is any other
write of a thread record, `Crash` a restart.

Abstractions. Lease ids and tokens come from the nonce and are only compared for
identity, so actors name them; the nonce stays for the epochs, which are compared
as numbers. An actor performs one operation: repetition is more actors.
The drain's abort is modelled on the run itself (`DrainAbort`), its wait on the
bridge's handles as the guard of `DrainAborted`. The verdict of the lifecycle
transaction keeps what decides a tombstone or a deletion; an enabled binding is a
free choice. `MaxCrashes` bounds restarts.

Properties.

- `NoRunOnTerminalThread`: a promoted run's thread has a record and no tombstone.
- `FenceInvariant`: the inductive invariant of the proof (section 9). Of its
  conjuncts `LeasesTracked` (an entry counts exactly the leases that requests hold,
  so no drain waits for a lease that is gone or misses one), `ReservationCurrent` and
  `NoAbandonedFence` (while an operation is unsettled its token matches; a thread is
  fenced only by such an operation) and `TombstoneExcludesRecord` say something by
  themselves.
- `CacheInvariant`, the inductive form of `CacheCoherent`: a cached stable state is the
  durable one. `ReadsCurrent` (a calibration read that still fits its entry is current)
  and `OutcomesCurrent` (a reservation settles to what its transaction left behind) make
  it inductive. The one exception is written in: a store delete whose future is dropped settles to its prior state
  although its transaction commits (sqlite_thread_store.rs marks no witness). No
  comment promises otherwise, and `NoRunOnTerminalThread` holds even so, because
  `CheckRecord` reads the record under the lease.
- `DestroyFenced`: a live thread is destroyed only when no lease on it can still become
  a run. `FencedThreadStartsNoRun`: no run begins on a thread that an archive or a delete
  has reserved, also when the dispatch was promoted before (the abort sweep of a drain
  has nothing behind it but the runs it found).
- `ImplementsFence`: the refinement of `RunFence` (a run of the abstraction is a
  promoted lease).
- `MutationsEnd`, `DispatchesAnswered`: operations end, and with them their fences;
  dispatches are answered.

## 4. DispatchAdmission: one message, at most one delivery

Each *client* sends one message with one *print* (request fingerprint), and may send it
again. A message has a *key*: scope, thread, kind and client intent id. `Thread` and
`Intent` give those of each key; `means` says how a client names the thread: by itself,
by a create claim, or by a *bot* or an account of the *api*, whose endpoint has a thread
or none. The kind of a key is `chat_start`, `stream_input`, or `create` (a chat start whose
thread does not exist yet).

A message to a bot or an account is looked up anew by each request, before any row or
claim is read, so that what is sent again after the endpoint went to another thread has
another key: it is another client here, with the same intent. There is one endpoint.

| state | in the code |
|---|---|
| `row` | a `dispatch_admissions` row: state, outcome (what plan it was written for), run, fingerprint, attempt |
| `claim` | a `thread_create_intents` row |
| `delivered` | ghost: how often a provider was handed the message |
| `cell` | `AdmissionRegistryInner.cells`: the owner of each operation |
| `request` | the HTTP request's task: its pc, the cell it joined, the result it received, its answer |
| `task` | the owner task a request spawned, which outlives it |
| `guard` | the thread's dispatch guard in the bridge |
| `live`, `started` | the run index; ghost: other runs that were started |
| `endpoint`, `moves` | the thread that has the endpoint; ghost: how often a thread lost it |

A request is `ReadFirst` (or `ResolveCreate`, `ReserveClaim`), `Register`, `Receive`,
`ReadBack`. The owner is `OwnerReads`, `OwnerPlans` (takes the guard),
`OwnerAdmits` or `OwnerDeclines` (writes the row), `OwnerCrosses` (the gate),
`OwnerQueues` or `OwnerStarts` and `OwnerPublishesRun`, `OwnerSettles`; an owner of a
creation begins with `CreatePrepares` and `CreateCommits`, one that finds the claim
committed with `CreateResumes`, and both go through `CreateConfirms`. `Resolves` is the
lookup of the endpoint by a request, `Prepares` that of the owner; a creation for the
endpoint and a chat start that names its thread may take it (`Binds`, `Rebinds`), as may a
request of its own (`Rebind`). `OwnerFails`
is an error before the gate, a database error or a panic anywhere; `Disconnect` a
client that goes away; `Restart` a gateway restart with the recovery of both
tables.

Abstractions. `Finish` publishes a result and removes the cell in one step (between
the two a joiner finds the result there already). `OtherRunStarts` stands for every
other dispatcher of its thread and may start a run whenever it likes, which the
code does not allow while the guard is held: an over-approximation that only
weakens what the safety properties assume. A provider either takes queued input,
refuses it, or reports an outcome that leaves open whether it arrived. A
duplicate reads the row before it looks for a cell, so while the owner is past the
gate it is answered "ambiguous" from the row instead of joining; `AnswersFinal`
allows that, because it is no claim about the outcome. A
transcript and a prompt are not modelled.

Properties.

- `LedgerTruthful`: at most one delivery per key; none for a row that was not
  handed off; one for a row that is accepted.
- `MessageOnce`: at most one delivery over all the keys that a message to a bot or an
  account may get, though another creation for the same endpoint may be on its way, as
  long as no thread loses the endpoint. The exception is real: see section 8.
- `AnswersFinal`: an answer "accepted" or "no active run" is the row's final state,
  for that very fingerprint and run.
- `DispatchInvariant`: the types; `OwnersInvariant` (cells and owner tasks name each
  other, a request joined an owner of the same message and waits only for a living one,
  the dispatch guard is held exactly between plan and execution); `ClaimsInvariant`
  (every request and owner is entitled to the route it is on, and no step takes that
  away); `GateHeld` (of the owners of a create and of its dispatch only one is past the
  gate, and the row says so); `DeliveryKnown`; `ResultsMatch`.
- `SettledForever`: settled rows, the run a row promised and finished claims never
  change.
- `ImplementsAtMostOnce`: the refinement of `AtMostOnceHandoff`, key by key.
- `RequestsAnswered`: a waiting request is answered.

## 5. CommittedReplay: what a channel sees of a run

One action is one bus line, one transcript read, one write of a worker or one
announcement. A row is named by its seq. Its content is what the replay tells
apart: `text` (any channel-visible content), `boundary`, `done`, `complete` (the
terminal controls) and `note` (controls that map to no event), and a version, which
a rewrite in place raises.

| state | in the code |
|---|---|
| `transcript` | the thread's transcript file |
| `phase`, `unsent` | where the run is; what its worker or its task has written and not yet announced |
| `mute` | ghost: rows whose announcement died with the run's task |
| `queue`, `missed`, `open` | the receiver's side of the `broadcast` channel (128 lines), a pending `Lagged`, whether a sender is left |
| `threadKnown`, `frontier`, `payload`, `lagged`, `done` | the fields of `CommittedReplayState`; frontier 0 is `None` |
| `pc`, `finishing` | the loop of the task: receiving, at the tail read, at the page read, ended, aborted; "break after this backfill" |
| `out`, `ownDone` | ghost: the versions of each row the consumer was handed; the synthetic Done |
| `readFailed`, `failedReads` | ghost: a failed read, which the reader turns into an empty one |

A run is `RunStarts`, `Flush` (its worker), `RunEnds` (the final save, in the run's own task,
which may rewrite a row in place, together with the terminal row) and `Emit`, one line at
a time. `RunAborted` ends a run before its final save: its worker writes the terminal row, if
it still can. `Killed` is an abort behind the write of the final save: the run's task dies at
one of the awaits between that write and its announcement. The replay task
is `ReadLine` (all of `on_bus_message`), `Lags`, `SeesClosed`, `Backfill` and
`BackfillPage`; `Abort` is the subscription's abort. `OtherTraffic` is the bus's
other users, `BusCloses` the shutdown.

Abstractions. The runs of a thread write one after the other
(section 8 says when they do not). A rewrite changes one text row.
Lines without a `run_id` are left out: every line that is emitted carries the key.
`MaxRows` bounds the transcript, `MaxFailedReads` the failed reads. `PageCap` and
`BusCapacity` are parameters of the code's constants.

Properties.

- `ReplayInvariant`: the types; `NoHole` (every row of the run up to the frontier was
  handed over: what the frontier is for, and what a wrong first row after a lag
  breaks for good); `OwnTextOnly` (the text of another run never reaches this run's
  channel).
- `VersionsAdvance`: a row is handed over again only in a newer version, never in
  one the transcript does not have. With failed reads this is false (a page fails,
  an old line of the bus passes, the newer row is older than the frontier), so the
  property says so; nothing documented is broken by it.
- `CompleteAtEnd`: when the task has ended, and its last read did not fail, the
  consumer has every row of the run.
- `FlushedOnce`: at the end the consumer got a Done of a row (one or more), or else, and
  only then, the task's own.
- `ImplementsOrderedDelivery`: the refinement of `OrderedDelivery`.
- `RowsDelivered`: a written row is handed over, or the task ends, or a read failed, or
  the row is one of those that were written and never announced (`mute`).

### BridgeRuns: the runs of a thread in the bridge

| state | in the code |
|---|---|
| `pc`, `mode`, `aim`, `guard`, `lease` | a dispatch (`start_admitted_run`, or a durable plan's execution): where it stands, the run it queues into or replaces, the dispatch guard, its lease |
| `tag` | `bridge_run_id` of its pending input: the run of the handle it read when it offered |
| `index`, `tasks`, `handle` | `active_runs` with `run_sessions`; `active_tasks`; `active_thread_persistence` |
| `task`, `killed`, `inbox` | the spawned task of each run, an abort that was requested, follow-up input the provider took |
| `worker` | the persistence worker of each run and the commands in its channel |
| `record`, `users` | `pending_user_inputs` of the thread record; user rows of the transcript |
| `abort`, `drain` | an abort of one run by an interrupt, a replacement or a drain; the drain of a deletion |
| `drops`, `stuck` | the bound on dropped requests; ghost: runs whose abort was dropped before it unindexed them |

A dispatch is `Lock`, `Plan`, then `Offer` and `Answered` (queue), or `Replace`,
`Replaced` and `Wait`, or `Permit` and `Publish` (start). A run's task is
`TaskFinalizes`, `TaskJoins`, `TaskPersists`, `TaskUnindexes`, `TaskUntracks`, or
`TaskDies` at one of its awaits; `Detach` releases the handle if it is still this run's.
A worker is `WorkerTakes` and `WorkerCloses`. An abort is `AbortPicks`,
`AbortDetaches`, `AbortKills`, `AbortAwaits`, `AbortUnindexes`, `AbortAcked`; a drain
sweeps until it finds no run (`DrainSweeps`, `DrainEnds`, `DrainWaits`). The abort of an
interrupt and of a legacy replacement runs in the request: `StopDropped` and `Dropped` are
its client that hangs up, at any of its awaits.

Abstractions. One free permit (the limiter is shared by all threads and never
refuses: a dispatch waits). A provider acknowledges an input or does not, and ends its
run when it likes. At most one of two dispatches is durable, because the dispatch
guard of the ledger excludes two.

- `BridgeInvariant`: the types; `IndexedHasTask` (a run that can be seen can be
  aborted, unless an abort of it was dropped half way); `HandleRecords` (the handle is never that of a worker that stopped
  listening); `TaskIsTracked` (no task escapes an abort); `DrainedIsQuiet` (after a
  drain nothing runs, and nothing can begin); `RunsMatch` (a run has a task, a worker and
  a lease only as its dispatch got that far); `InputsMatch` (an input goes to one worker,
  once).
- `NoGhostInput`: input whose user row is in the transcript is not pending in the
  thread record too, whichever workers save the record in which order.
- `HandleStays`: the end of a run never takes the handle of its successor.
- `Drained`: a drain ends, though its loop has no bound, unless a run is `stuck` in the
  index.

### QuotaRecovery: a run that stopped at the quota is continued once

| state | in the code |
|---|---|
| `runs` | the control records of the thread's transcript, by run |
| `job` | `quota_recovery_jobs`, by generation (the blocked run) |
| `admission` | the `dispatch_admissions` row of each generation's intent |
| `events`, `history`, `lost` | the projection's receiver, the hub's history, what it can no longer get |
| `pruned` | the generations whose settled rows the last start deleted |
| `worker`, `notify`, `timer` | `run_recovery_worker`, its `Notify`, the deadline it sleeps to, or could not read |
| `guard`, `turn` | the dispatch guard; a user's message on its way |

The projection is `Project` and `Lag`; the worker `Claim`,
`Sleep`, `Wake`, `Check`, `Read`, `Plan`, `Insert`, `Handoff`, `Execute`, `Account`,
`Settle`; `Elapse` moves time past a deadline; `Switch` and `Retry` are the wakes by an
account and by the user; `TurnPlans`, `TurnAdmits`, `TurnRuns` a message, which
supersedes the recovery in its own admission; `OtherStarts` a dispatch without a
ledger row; `Restart` the recovery of both tables, the pruning of settled rows and the
repair, which may fail to read the thread.

Abstractions. A deadline is `now`, `later` or `never`. Any settled row may be older than the
30 days after which a start prunes it. Which account is chosen is not
modelled: a switch wakes jobs.

- `QuotaInvariant`: the types; `OneContinue` (a generation is continued once, whatever
  repeats); `OneActiveJob`; `ClaimIsHeld` (a claim has its worker, unless a write failed);
  `WorkerKnows` (what the worker read of its generation still holds at its next step);
  `ContinueIsTold` (a continue has a row that says it may have been handed off);
  `RunsCounted` (no run but those of senders and generations).
- `SettledIsFinal`: a generation that was delivered or superseded stays so, and is
  not admitted later, unless a restart prunes its row.
- `NotForgotten`: a blocked thread is settled, parked for the user (`Parked`), or else its
  claim could not be settled (`Orphaned`), its event is lost or the repair failed
  (`Missed`), or the worker could not read its next deadline and was not notified since
  (`Deaf`).

### ThreadDeletion: what a deletion fences, commits and leaves behind

| state | in the code |
|---|---|
| `record`, `bound`, `owner` | thread records; their endpoints; `thread_channel_endpoints` |
| `request`, `op`, `ledger` | lifecycle requests by operation id; the registered owner and its supervisor; `lifecycle_operations` |
| `freeze`, `reserved`, `running` | `binding_freezes`; the coordinator's reservation; a run with a lease |
| `mutation`, `router`, `route` | the mutation lock and its holder; the router lock and its holder; `endpoint_thread_map` |
| `outbox`, `residue`, `worker` | `cleanup_outbox`; what a thread has outside its record; the outbox worker |

An owner is `OwnerLookup`, `Reserve`, `Drain`, `Commit`, `Settle`; `OwnerDies` leaves the
child and the guards to the reaper. A binding is `RouterStarts`, `RouterMutates` or
`DispatchMoves`, then `MutationCommits` and `RouterPublishes`; a lookup `Resolve` and
`Resolved`. The worker is `Poll`, `Awake`, `Execute`, `ExecutePurge`, `Mark`; `BackoffEnds`
and `Restart` do what they say.

Abstractions. The run has one operation id (`Operations` is a parameter; with one, a
request that comes again meets its own result). A bind whose future is dropped is left out.

- `DeletionInvariant`: the types; `OneHolder` (one record per endpoint, and the
  projection names it); `GuardsOutliveChild` (freeze and reservation last as long as
  the transaction may still happen, also when the owner is dead); `StaleRouteIsPurged`
  (a route to a dead thread is about to go); `CleanedStaysClean`.
- `SparesTheLiving`: cleanup, late or repeated, leaves the routes of living threads
  alone; a frozen delete takes no enabled bot away.
- `Cleaned`: all of a deleted thread goes.
- `RouteMatchesOwner` is the disagreement of section 8.

### TaskReview: a task waits for somebody

| state | in the code |
|---|---|
| `status`, `agent` | the task of a thread record |
| `start` | its automatic dispatch: the task is written, the dispatch spawned, checked |
| `run` | the run of its thread, from its provider to the end of its bookkeeping |
| `callback` | review events that are not delivered |
| `halting` | stop and delete requests between interrupt and write |

A run is `RunAnswers` or `RunFails`, `MarkReads` and `MarkWrites` (under the task's
lock), `Emit`, `Close`. A callback is `Deliver` or `Lose`. Users `Create`, `Message`,
`Assign`, `Unassign`, `UpdateStatus`, `Halt` and `Halted`. `Spawn`, `AutoCheck` and `AutoSend`
are the automatic dispatch, `Restart` loses what is in memory. What fails on the way:
`Unspawned` (the check of the provider, or the request, ends between the write of the task
and the spawn), `MarkFails` (the store does not take the review), `Stalls` (a dispatch
fails or is dropped anywhere before its run is published, after what it replaces was
aborted or the task was woken) and `Unwoken` (the write of the wake fails, and the run
starts).

Abstractions. A thread has one run (BridgeRuns has the rest). A dispatch is one step, but
that step may end anywhere between its wake and its run (`Stalls`).

- `TaskInvariant`: the types; `ReportedOnce` (a task is announced at most once each
  time it was taken up); `LockHolds` (what the review read still holds when it writes).
- `NotStranded`: a task in progress has its own run, a dispatch or a subtask that
  takes it further. The excuses (`excused`) are: the dispatch was not spawned, was refused
  or failed; the run failed or was stopped; the review was not written; a callback was
  lost; a user moved the task; a restart.
- `NotReopened`: nothing that comes late reopens a finished task, only a user does.

### AutomationJobs: one executor, one dispatch

| state | in the code |
|---|---|
| `job`, `disk` | the job in the map, and in its file |
| `ex`, `copy` | the phase of the scheduler and of each run-now request; the job as it was taken out of the lock |
| `active` | the entry of the job in `active_agent_runs`, and whether the run it names is live |
| `run`, `loose` | runs that an executor started and has not entered yet; live runs that no entry names |
| `ready` | the provider runtime |
| `edit`, `want`, `remove` | requests that edit and delete |
| `fired`, `chances`, `raced`, `misjudged`, `dropped`, `lost` | ghost: dispatches and what allowed them; what the exceptions of section 8 name |

An executor is `Due` or `RunNow`, `Look`, `Clear` or `SeeActive`, `Claim`, `SaveClaim`,
`Prepare`, `Dispatch`, `Enter`, `Settle`, `DeleteFinished`; `Refuse` records a job that is not
valid, `Drop` is a client that hangs up. `EditReads`, `EditApplies`, `EditSaves`, `Delete`
and `DeleteFile` are the users; `Restart` loads the file.

Abstractions. A clock that stops at `MaxTime`; `next` is the schedule's next tick. The
generated thread of a run, the list of run records and jobs of the configuration file
are left out. The save of a file is one step: `persist_job` (automation/store.rs:29-36)
writes one `.tmp` path that two savers of a job share, so that in the code the contents of
two saves may mix; no property is about the contents of a file that is being written.

- `AutomationInvariant`: the types; `OneExecutor`; `RunningIsHeld` (the mark is there
  exactly while somebody executes, except after a dropped request); `FiredOnce` (a
  one-shot is dispatched once for each chance it was given: `chances` counts its making,
  edits that leave it enabled, restarts that find it unsettled and settlements as
  invalid); `SawNoRun` (whoever claims or dispatches has seen that the entry names no live
  run).
- `NoOverlap`: no dispatch while a run of an earlier one is live, entered or not. The
  exceptions: an executor that was choosing when the previous one settled (`raced`), a
  claimed job that was settled as invalid (`misjudged`), and a live run whose entry was
  removed by a late clear or overwritten by the entry of another run (`lost`).
- `DueFires`: a due, enabled, valid job is run.

The exceptions are written into the properties because the code has them; section 8
lists them.

### RestartWake: no interrupted thread is lost

| state | in the code |
|---|---|
| `fresh`, `processing`, `old`, `failed` | the files of a wake: waiting, claimed (and stale), failed |
| `first`, `delayed` | the first drain of the process; drains that sleep |
| `pc`, `wake`, `failures` | a drain, the list it goes through, the refusals it saw |
| `sent`, `givenUp`, `recovered` | ghost: dispatches per thread; who was given up; whether a claim was taken for stale |

A drain is `Startup` (or `Skip`), `Delayed` or `OtherDrain`, then `List`, `Claim`, `Read`,
`Send`, `Persist`, `End`; `Overloaded` and `Requeue` put the rest back, `MoveToFailed` gives
up. `Age` makes a claim stale, `GatewayDies` kills everything but the files. Names that
`TaskReview` has as well begin with `Wake` here (`WakeInit`, `WakeNext`, `WakeSpec`), so that
`Waking_proof` can extend both modules.

Abstractions. What is left of a list is an end of it, so a file is the number of its
first thread and its attempt. Errors of the file system are left out; a rewrite (a new
file, renamed) is one step.

- `WakeInvariant`: the types; `NothingLost` (a thread was dispatched to, given up, or
  is still in a file); `SentOnce` (at most one dispatch, while no claim is taken for
  stale).
- `Drained`: a file that waits is claimed.

## 6. Runs, bounds, and why they are enough

| run (cfg) | instance | shows |
|---|---|---|
| `coordinator_safety` (CoordinatorSafety) | 1 thread, 1 request, 2 mutators of any of 6 kinds, 1 crash | every safety property and the refinement |
| `coordinator_liveness` (CoordinatorLiveness) | 1 request, 2 mutators (archive, delete, create), fair | fences, operations and dispatches end |
| `dispatch_safety` (DispatchSafety) | 1 key, 2 clients, 2 prints, 1 other run, 1 restart, 1 failure | every safety property and the refinement |
| `dispatch_resend` (DispatchResend) | 2 keys of one intent, each with its thread, 2 clients, a bot or an account, a table of 1 cell, 1 move of the endpoint, fair | a message that is looked up again is delivered once; waiting requests are answered |
| `bridge_runs` (BridgeRuns) | a durable and a legacy dispatch, 1 interrupt, 1 drain, 1 dropped request, fair | the tables of the bridge agree whatever ends a run, and a drain ends |
| `replay` (Replay) | the run and another of its thread, each of which may be aborted, 4 rows, a bus of 2 lines, pages of 2 rows, 1 failed read, fair | every property and the refinement |
| `quota_recovery` (QuotaRecovery) | 1 message, 1 other run, 2 blocked runs, 1 restart, 1 error, fair | once per generation, none revived, none forgotten |
| `thread_deletion` (ThreadDeletion) | 2 threads, 1 endpoint, 1 operation, 1 fault, fair | guards, cleanup and bindings of a deletion |
| `stale_route` (StaleRoute) | the same without faults | the disagreement of section 8 |
| `task_review` (TaskReview) | a parent and 2 subtasks, 2 requests of users, 1 fault (a request, write or dispatch that fails, a run that fails, a lost event, a restart) | nobody is stranded, announced twice, reopened |
| `automation` (AutomationJobs) | each of 3 kinds of job, the scheduler, 2 requests, 1 editor, 1 deleter, time 0 and 1, 1 fault, fair | claims, one-shots, edits and deletions |
| `restart_wake` (RestartWake) | 3 threads, 2 drains, 2 attempts, 1 death, 2 ages, fair | overlapping drains, requeues and deaths |

*Coordinator.* Threads are independent (no operation touches two entries), so one is
enough for TLC, and the proofs hold for any set. Two mutators are the smallest
number that has a reservation after a reservation, a stale token and a refused
reservation. *Ledger.* Keys of one thread meet only at the guard and the run index, where the other run
of `dispatch_safety` stands for another key, and the two operations of one create for two
owners; keys of one intent meet at the endpoint and the bound on cells, which two keys and
one cell exercise; one restart separates the two sides of the gate, and a second finds a
ledger it has already recovered. With one cell two creations for one endpoint overlap from
the lookup of the second to the commit of the first, which is where they can disagree;
that they may overlap further, and that a restart may come between, is left to the proof. *Bridge.* Two
dispatches are a run and whatever happens to it (input, replacement, a
successor); the interrupt adds a second abort that meets the first, and the
dropped request may be either's. *Replay.* A bus
of two lines makes every drop happen that a larger one can (none, one, all but the
newest); pages of two rows with four in the transcript give a tail that starts behind
a hole, a full page, a second page and an empty one; a second run supplies foreign
rows. *Quota.* Two blocked runs are an older and a newer generation, and the message
and the other run each come between any two steps. *Deletion.* Two threads are the
deleted one and the one that gets its endpoint; more endpoints repeat the same step.
*Tasks.* Two subtasks are the last to finish and one that is not the last. *Jobs.* Two
requests and the scheduler are three executors, so that one can be late for two; that a
repeating job comes due is one tick, and that it comes due again is a request that runs
it now. *Wake.* Three threads are one dispatched, one under way and one
that remains; two drains and two ages let a claim be taken from a drain at work.

Symmetry is used in safety runs only (`coordinator_safety`, `dispatch_safety`) and in
`task_review`, whose properties besides invariants are about single steps, over sets
whose members the specification treats alike.

Deadlock is checked in both coordinator runs (`Finished` is the only legal end),
`dispatch_safety` (a client may always send again), `quota_recovery`, `thread_deletion` and
`stale_route`. The others have `CHECK_DEADLOCK FALSE` because they end: a client whose
message is routed to the thread of another key, a bridge that is drained, a replay whose bus is closed, tasks whose users have used up their
requests, a job that is deleted, a wake that is worked off.

## 7. Fairness

Coordinator: weak fairness of each request's and each mutator's own steps: tokio
polls a task whose future is ready. Nothing is assumed of `RunEnds`, `Abandon`,
`AbortOwner` or `CancelStoreDelete`: a provider may stream for ever (it is the
drain that ends its run) and no future need be dropped.

Dispatch: weak fairness of requests and owners; strong fairness of `OwnerPlans`,
because the dispatch guard is a tokio mutex and hands itself out in the order it
was asked for. Calls to a provider end because the code puts a timeout on them.
Replay: weak fairness of the task (`ReplayStep`) and of `Emit`: between a write and its
announcement the worker, which nobody aborts, awaits the read and the patch of the thread
record (persistence.rs:1290-1690), and these return; the run's task awaits the same in its
final save, where `Killed` may come first. Nothing is assumed of `Flush`, `RunEnds` and
`RunAborted`, which are up to the provider and the user.

The other modules follow the same rule: a task that the process has spawned goes on
(weak fairness of its steps), a sleep ends, and what users, providers and faults do is
never assumed. *Bridge*: dispatches, run tasks, workers, aborts and the drain, also in a
request as long as it is not dropped; not that a provider ends its run or that a user
interrupts it. *Quota*: the worker, the
projection, a planned turn, and time. *Deletion*: the outbox worker, the reaper, a router
task that holds its lock, the end of a backoff. *Jobs*: the scheduler's tick, an
executor that has begun, the end of the run it waits for, and the start of the provider
runtime, which the gateway retries. *Wake*: the first drain of a process, a drain that
sleeps, the steps of a drain and the return of its dispatch.

## 8. Disagreements between the code and its documents

`stale_route` / `RouteMatchesOwner`. The router is said to hold "a lazy per-endpoint
cache over the SQL endpoint projection". A dispatch or a creation that moves an
endpoint (endpoint_binding_mutator.rs:254-470) does not tell the router, and a route to
a thread that still exists is never checked again: it names the previous owner until
something else purges it. The run shows it with two threads and no fault.

A second disagreement is part of the model and has no run. Of a message to a bot or an
account docs/design/task-2469-gateway-durable-delivery-admission.md:692-693 says: "If it
resolves an existing thread, normal dispatch admission applies". For an account of the API
it does not: chat.rs:934 takes the thread of the endpoint into the key and not into the
request, and the owner's `resolve_chat_target` has no branch for it then, so that every
attempt ends with "API endpoint owner changed before durable admission"
(prepare.rs:1120-1124). `Prepares` is false for `"api"`.

Behaviour met while modelling that is worth a maintainer's look. The models contain
it, and where a property would be false because of it the property names the
exception.

- An admitted row whose plan no longer fits the thread (its queued run has ended, or
  a run has started since) answers every replay with `dispatch_plan_changed` and stays
  admitted.
- The dispatch guard is dropped before a new run is indexed, so another dispatch may
  plan a second run in between.
- A message to a bot or an account that is sent again after a thread lost the endpoint to
  another one gets another key, no claim or row of the first is consulted, and it may be
  delivered twice.
- The abort of an interrupt or of a legacy replacement that is dropped between
  `active_tasks.remove` and the run index leaves a run that is indexed and has no task: no
  later abort removes it, and the drain of an archive or a delete waits for it for ever.
- An attachment or endpoint error leaves a create claim in `preparing` with no owner
  until the next start of the gateway.
- If the bus drops the line that ends a run, the backfill hands the terminal row over
  like any other row and the replay task waits on.
- A run that is aborted in its final save, behind the write, has rows in the transcript that
  were never announced, the one that ends it among them; the replay waits on.
- A tail read after the next run began also holds that run's controls; they pass the
  filter of the replay.
- A generation whose thread moved on between the worker's check and its plan is still
  continued if no ledger row superseded it (a dispatch without an admission).
- A start prunes rows that were settled 30 days ago just before it registers the last
  blocked run of each thread: that generation is registered again, and if it was superseded
  without being continued it may be continued now.
- If the recovery worker cannot read its next deadline it sleeps without one until the next
  notification; a repair at startup passes over a thread that it cannot read.
- A task is written as in progress before the provider of its thread is checked and its
  dispatch is spawned: if the check fails or the request is dropped, nobody runs it. A review
  or a wake that the store does not take is only logged.
- A task may be moved to review while the event of a subtask that finished earlier is
  still to be delivered; the callback then finds it in review.
- A run-now request whose client hangs up after the claim leaves the job marked as
  running until the next start.
- An executor that found the last run of a job over removes the entry that is there when it
  comes to it, which may name a newer run; a dispatched run overwrites the entry of another
  one. The live run that lost its entry stops nobody from dispatching again.
- Two saves of a job share one temporary file (automation/store.rs:29-36).
- An edit that reads a one-shot job before it fires and writes after enables it again.
- Saves of a job happen after the lock is gone: one that comes late writes the file of
  a job that was deleted meanwhile.
- A run-now request that found a job invalid settles it even if another executor has
  claimed it since.
- The failed file of a wake is overwritten by a later attempt; refusals seen by a drain
  are in memory until it ends.
- A gateway that restarts within the age of a stale claim leaves the claimed file until
  a later drain, and a claim keeps the time of the file it renames, so that a wake that
  waited long may be taken for stale while it is worked off.

## 9. What is proved, what is only checked, what is left out

`ThreadRunCoordinator_proof`, for any threads, requests, mutators, kinds and bound
on crashes, from the assumptions `ActorsAssumption` (requests and mutators are
disjoint, `NoOwner` is none of them), `KindsAssumption` and `MaxCrashesAssumption`:

- `TypeCorrect`: `Spec => []TypeOK`.
- `FenceHolds`: `Spec => []FenceInvariant`.
- `RunsOnlyOnLiveThreads`, `BooksBalance`: its conjuncts that are properties.
- `CacheHolds`: `Spec => []CacheInvariant`; `CacheTellsTruth`: its conjunct `CacheCoherent`.
- `DestroyIsFenced`: `Spec => DestroyFenced`; `FencedStartsNoRun`: `Spec =>
  FencedThreadStartsNoRun`. The second rests on both halves of the fence: every lease of
  the thread is counted (`LeasesTracked`), so that the reservation invalidated them all, and
  a dispatch that was promoted before looks at its lease once more when it publishes.
- `CoordinatorRefinesFence`: `Spec => ImplementsFence`.

*The invariant.* `NoRunOnTerminalThread` is not inductive: a tombstone is committed
by an operation that does not look at leases again. `FenceInvariant` says why it
need not. While a thread is archiving its leases are invalid and not active, while
it is deleting they are invalid, and a delete that is at its transaction has none
(`LeasesFenced`); the state an operation reserved fits its transaction
(`TokenShape`) and is still in force when the transaction runs
(`ReservationCurrent`), because only its owner replaces an owned state
(`NoAbandonedFence`). A lease that is still valid after the record check therefore
still has its record (`CheckedRecord`): whoever destroys the record has fenced the
thread and invalidated the lease before. Promotion needs a valid lease on a live
entry, so an active lease has its record. `CachedTombstones` carries the other half:
a terminal state that is cached or about to be installed is durable, so that a
reservation on a cached archived thread may skip the fence. `LeasesTracked` makes
"no leases" mean "no request".

`CacheCoherent` needs the two epochs of a two-phase read: an entry gets a new epoch
whenever it is made or reserved, and a tombstone is written only under a reservation.
A read whose epoch still is the entry's was therefore not overtaken by a transaction
(`ReadsCurrent`), and what it installs is the durable state.

*The proofs.* Actions that touch the same variables share a lemma (`EarlyMove`,
`LeaseMove`, `OwnerMove`, `FenceKept`); the actions that install, reserve, commit,
settle, transfer, cancel and crash have one each (`...Preserves`). `StepFence`
collects them. The refinement needs `TransactionFence` (what a transaction that
writes a tombstone may rely on) and maps every step to a `RunFence` step or a
stutter in `RefineStep`.

`Waking_proof` holds the theorems of the two modules, first those of `TaskReview` and
then those of `RestartWake`; neither part uses the assumptions or the facts of the other.

Of `TaskReview`, for any tasks that notify each other in any way, any number of
requests and faults, from `TaskAssumption` (`NoTask` is no task, no task notifies
itself):

- `TypeCorrect`: `Spec => []TypeOK`.
- `ReviewsAreSound`: `Spec => []TaskInvariant`.
- `NeverStranded`: `Spec => []NotStranded`.
- `OnlyUsersReopen`: `Spec => NotReopened`.

*The invariant.* `ReportedOnce` compares two counters and is not inductive: nothing in
it keeps an announcement that is under way from being counted next to one that has been
made. `Accounted` counts them all: what was announced, plus one if the task is in
progress, plus one if its run has written the review and not announced it, is at most
the times the task was taken up. `LockHolds` is the other half: between the read and
the write of a review the task stays in progress, because every writer of a status
takes the lock. `NotStranded` counts a run that is closing as somebody who attends to
the task, although it will do nothing more; `AllAttended` does not: a task in progress
is busy itself, or a subtask of it is, or a callback or a dispatch is on its way, and
each action that ends one of these begins another or names its excuse, the steps that fail
(`Unspawned`, `MarkFails`, `Stalls`) included. `NotReopened` needs no
invariant but the types: of all actions only `Reaches` and the requests of users set a status to in progress, and `StepReopens` goes
through them.

Of `RestartWake`, for any number of threads, drains, attempts, deaths and stale claims,
from `WakeAssumption` (there is a thread to wake and finitely many drains):

- `WakeTypeCorrect`: `WakeSpec => [](WakeTypeOK /\ HasList)`, where `HasList` gives a drain at work
  a list with a thread in it.
- `NoThreadIsLost`: `WakeSpec => []NothingLost`, also when claims are taken for stale.
- `WakesAreSound`: `WakeSpec => []WakeInvariant`.

*The invariant.* A drain writes over a file without looking at it, so that the files
can go back. `ListsBehind` says why nothing is lost: whatever comes before a list is
done, in whichever file or hands the list is, so that writing it anywhere loses nothing;
`FileOrDone` says that the last list is removed only when nothing is left. At most once
is the opposite concern and holds until a claim is taken for stale: then `Sole` says
that one drain has the claim, that no other file waits beside it, and that what it still
has to send nobody has sent.

`DispatchAdmission_proof`, for any keys, clients, fingerprints, other runs and bounds,
from `KeysAssumption`, `ClientsAssumption`, `PrintsAssumption`, `BoundsAssumption` and
`ThreadsAssumption`, for any assignment of threads and intents to the keys:

- `TypeCorrect`; `OwnersAgree`: `Spec => []OwnersInvariant`.
- `RoutesEntitled`: `Spec => []ClaimsInvariant`.
- `GateHolds`: `Spec => [](GateHeld /\ DeliveryKnown /\ LedgerTruthful)`;
  `LedgerIsTruthful`: `Spec => []LedgerTruthful`.
- `AnswersHold`, `AnswersAreFinal`: `Spec => []AnswersFinal`; `DispatchAgrees`: `Spec =>
  []DispatchInvariant`.
- `LedgerNeverRewritten`: `Spec => SettledForever`; `LedgerRefinesHandoff`: `Spec =>
  ImplementsAtMostOnce`.
- `SentAgainOnce`: `Spec => []MessageOnce`.

*The invariant.* It is built in layers, each assumed by the next. `OwnersInvariant`: one
cell, one owner, and a request that waits has joined a living owner of its own message.
`ClaimsInvariant`: a request may be at the dispatch of a creation only when the claim is
committed, and then the row is there; so an owner that found no row before the guard and
one that resumes cannot both write it. With both, two owners of one message cannot both
be at the gate, because the gate's transaction needs `admitted` and leaves
`handoff_started` (`GateHeld`), and `DeliveryKnown` ties the verdict to the delivery: at
most one, and one if the row says accepted. `AnswersFinal` then needs only that a result
that was published is that of the message it is read for (`ResultsMatch`).

All of that is about one key. `MessageOnce` is about the keys that one intent may get, and
its invariant is in the proof module: while no thread has lost the endpoint, every key of a
routed message that is committed, that an owner found the thread of, or that was delivered
is that of the thread which has the endpoint (`EndpointHolds`, `SendersFit`). Two keys of one intent
cannot both be, since at one thread they would be of different kinds, and a routed message
is always a chat start. A creation that is late takes the endpoint from the thread of the
first, so that a thread loses it.

`BridgeRuns_proof`, for any dispatches, durable plans and interrupts, from
`RunAssumption`:

- `TypeCorrect`; `BridgeAgrees`: `Spec => []BridgeInvariant`.
- `AcknowledgedNotPending`: `Spec => []NoGhostInput`.
- `HandleIsKept`: `Spec => HandleStays`.

*The invariant.* `IndexedHasTask` has the runs that are `stuck` as its one exception, for any
number of dropped requests. `IndexedHasTask` and `DrainedIsQuiet` say nothing of a run that has not
begun, so nothing keeps it from having a task already: `RunsMatch` does, and it knows in
which order a run leaves the tables. `HandleRecords` rests on who sends a worker its last
command, the end of its run or an abort: both take the handle away in the same step.
`NoGhostInput` compares a record that any worker of the thread saves with rows that any
of them writes; it is inductive only together with `InputsMatch`, which gives each input
one worker and one command, so that an acknowledged input is pending nowhere.

`CommittedReplay_proof`, for any runs, bus, page size, transcript and number of failed
reads, from `RunsAssumption` and `CapacityAssumption`:

- `ReplayHolds`: `Spec => []ReplayInvariant`; `VersionsHold`, `CompleteHolds`,
  `FlushedHolds`: the other three invariants.
- `ReplayRefinesDelivery`: `Spec => ImplementsOrderedDelivery`.

*The invariant* (`Inv`, in the proof module; `Invariance`). The frontier is a number, so
that `NoHole` says nothing of the lines and rows to come. Three things are needed.
`LineInvariant`: every line fits its row (`LinesSound`), a newer version of a row is
announced after an older one (`VersionsInOrder`), and as long as nothing was handed over
and nothing dropped, each row of the run is still announced, the first one first
(`FirstComesFirst`), so that the first line that is read is the first row.
`HandedInvariant`: the frontier is the last row handed over and `payload` its version
(`HandedSound`). `LoopInvariant`: a task that reads a tail before its first row has
lagged, or there is no row (`LoopSound`), and no older line is left of a row that was
handed over in its final form (`NoOldLine`), because such a row is never the last
one and whoever comes back from a read is at the last one (`CaughtUp`). What a backfill
delivers has no hole because a tail that is not read in pages starts right behind the
frontier, and a page that is not full is all that there is (`PageFacts`). Every write is
brought into one form (`Writes`), every delivery into another (`Faithful`, `Delivered`).

`QuotaRecovery_proof`, for any finite set of senders and any bounds, from
`BoundsAssumption` and `SendersAssumption`:

- `TypeCorrect`; `RecoveryHolds`: `Spec => []QuotaInvariant`; `ContinuedOnce`: its conjunct
  `OneContinue`.
- `SettledStays`: `Spec => SettledIsFinal`, for restarts that prune any settled rows and whose
  repair may fail; `ContinuedOnce` knows no exception for them, since the ledger row of a
  generation that was continued stays.

*The invariant.* Many actions write the job table; all of them but a claim keep what is
settled, keep what is claimed, and touch no newer generation than the thread has, which
is one lemma. `OneContinue` needs that the worker never stands before a second hand-off:
`WorkerKnows` says what the ledger row of its generation is at each of its steps, and
`ContinueIsTold` that a continue in the transcript has a row that is past the gate, so
that neither a retry nor a wake admits it again. The transcript is bounded
(`RunsCounted`), which is what makes the types provable without a bound in the guards.

`AutomationJobs_proof`, for any requests, kinds of job and bounds, from
`AutomationAssumption`:

- `TypeCorrect`; `AutomationHolds`: `Spec => []AutomationInvariant`.
- `NeverOverlaps`: `Spec => NoOverlap`.

*The invariant.* That a one-shot fires once is about what may still fire: `FiredOnce`
adds to the dispatches the chance that is left in the job and those that executors
hold, and every step moves one from one place to the next or counts a new one. Written
as a bound on `fired` alone it was not inductive. `NoOverlap` is about two instants, the
look and the dispatch; `SawNoRun` carries what was seen from the first to the second. But it
speaks of the entry, and a live run need not have one. Two facts of the proof module close
that gap: only the executor that holds the claim has a run which is not yet entered
(`RunHeld`), and a live run that no entry names, and that did not lose one, has put the job
out of reach (`NoStray`): it is deleted, or its claim was dropped and nobody takes it.

`ThreadDeletion_proof`, for any threads, any finite set of endpoints, any number of
operations at once and any bound on faults, from `BoundsAssumption` and
`NoOneAssumption` (`NoOne` is no thread and no operation; the endpoints are finitely
many, as the order in which their jobs are queued needs):

- `TypeCorrect`: `Spec => []TypeOK`.
- `Deletion`: `Spec => []DeletionInvariant`.
- `Sparing`: `Spec => SparesTheLiving`.

The run has one operation; the theorems cover several that contend for a thread.

*The invariant.* None of the four parts of `DeletionInvariant` is inductive alone.
`OneHolder` needs that the projection agrees with the records in both directions and that
only the living are bound (`Projected`), and that what a mutation reads under its lock
still holds when it writes: it does, except that a deletion, which does not take that
lock, may have removed the previous holder (`LockView`); the write then removes nothing
from a record that has nothing left. `GuardsOutliveChild` needs to know which guard an
operation has at each of its steps, also when its owner is dead (`Guarded`): other
operations drop their own guards only (`DropSpares`), and a step of an operation leaves it
the guards its next step relies on (`OwnHolds`). `Guarded` also carries that nothing runs on the thread of an
operation at its transaction, from which `RunningIsLive` follows: a run that outlived
the deletion would write what was cleaned.

`StaleRouteIsPurged` is about routes that exist, and a route can be made from a lookup
that was answered before the deletion. `Routed` speaks of both, the routes and the thread
a router is about to publish: each is alive, or the job that purges its routes is not
done. What makes it last is the worker's side. `AtWork` says that the worker's job is not
done, that the residue it is about to mark is gone, and that when it marks a session no
route and no lookup names the thread, because the router lock is free for the purge and
nobody looks up a dead thread afterwards. `JobsOfDead` closes the circle: a job is of a
thread that is gone for good, so what the worker removes belongs to nobody alive, which
is the first half of `SparesTheLiving` too. The second half, that a delete takes no enabled
bot away, needs `Projected` only: the transaction compares the bindings of the thread with
the preflight's snapshot again, and one that finds no living thread has none to take.

Only model-checked: liveness (`MutationsEnd`, `DispatchesAnswered`, `RequestsAnswered`,
`RowsDelivered`, `Drained` of the bridge and of the wake, `NotForgotten`, `Cleaned`, `DueFires`), which is out of
the prover's reach. Every safety property that a passing run checks is proved.

Not modelled, by choice: the contents of transcripts, prompts and rendering; the
provider protocols (each is a run that streams, takes input or not, and ends);
file I/O of the transcript store; channel adapters and the plugin host; HTTP and
configuration; capsules, skills, meetings, push notifications and accounts; the
clients, which appear as senders that wait, give up and send again. Most of the
repository's lines are of these kinds: rendering, parsing, provider protocols and user
interfaces without shared state, which is why the map covers a small share of them.

In the modelled components: managed worktrees of a creation, lease renewal of claims,
the legacy dispatch paths without a client intent id; in the bridge, provider selection,
retries inside a run and more permits than one; in a deletion, binds whose future is
dropped (several operation ids at once are proved about and not run); in tasks, two runs of one thread, merged
automatic dispatches and the late write of an abort; in automation, run records, the
generated thread and configured jobs; in the restart wake, errors of the file system.
The Telegram outbox is planned (section 2).
