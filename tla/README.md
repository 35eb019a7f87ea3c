# Octoport: TLA+ models and proofs

Octoport is a browser extension that lets an AI chat (ChatGPT, Alice, Qwen,
Kimi) work with a seller's marketplace account, a control-plane backend that
grants and configures that access, and a monitoring service that probes the AI
sites. This directory holds the TLA+ modules that model its core, the TLC
configurations that check them on small instances, and the proofs TLAPS checks
for every size.

| module | what it is |
|---|---|
| `LedgerStore` | the durable command record (`r3_commands`) and its compaction, as operators |
| `CommandLedger` | the manual command path: clicks, requests, outcomes, retries, copies |
| `CommandDispatch` | abstract: what the ledger promises about commands and requests |
| `CommandLedgerProofs`, `CommandHistoryProofs`, `CommandRecordsProofs` | its inductive invariant; what one step does to the receipts, and the refinement; the links, numbers and capacity of the record |
| `HealthScheduler`, `HealthSchedulerProofs` | the durable scheduler of the health monitoring, and its executions |
| `HealthNotifications`, `HealthNotificationsProofs` | from a committed health result to the incident, its intents and their delivery |
| `SyncReconciliation` | how the server answers an entry and how an installation compares a snapshot, as operators |
| `SyncJournal`, `SyncJournalProofs` | journals of several installations, the network, and the server's receipts and entities |
| `SyncRegister` | abstract: the register per conversation the server promises to be |
| `TechnicalScheduler`, `TechnicalSchedulerProofs` | the extension's durable tasks, its alarm and its wakes |
| `TokenRotation`, `TokenRotationProofs` | refresh-token rotation, client and server |
| `MCCommandLedger` | five configurations: Clicks, Chains, Reports, ChangedText, Replay |
| `MCHealthScheduler` | two: Slots, Recovery |
| `MCHealthNotifications`, `MCSyncJournal`, `MCTechnicalScheduler` | one each |
| `MCTokenRotation` | two: the rotation itself, NewKey |

`PROJECT.json` maps every definition that models code to the lines it models,
and lists the hazards of the code at their lines.

## 1. Inventory

Paths are relative to `src/`.

| component | state it keeps | operations | interacts with | what is hard | modelled |
|---|---|---|---|---|---|
| **Command ledger** `packages/bridge-core/src/execution/command-ledger.js` | receipts, origins, approvals, deliveries of one conversation, in its manual-operation record | reserve, begin attempt, record outcome, preview and confirm a retry, record a buffer, preview, confirm, begin and record a copy; compaction on each write | called by the runtime through one writer queue | concurrent clicks, worker death between intent and outcome, competing approvals, compaction of linked history, a bounded record | section 3 |
| **Manual command path** `apps/extension/src/application/runtime.js` (`saR3*`), `background/context/*` | the conversation's active manual operation; permits in worker memory | click, install, run a group, deliver, recover | ledger, Work sessions, page, batch queue | values read before an `await` and used after it; restart of the service worker | section 3, in part |
| **Health scheduler** `packages/server/health/src/scheduler.ts`, `packages/server/db/src/health-scheduler-repository.ts` | `health_schedules`, `health_scheduled_runs`, `health_runs` | reconcile, list, materialize, claim, start, finish, fail, time out | executors, incidents, other workers through the database | leases that end under their owner, probes a deadline does not stop, results committed before the run is closed | section 4 |
| **Health executors** `apps/telegram-operator/src/*-runtime.ts` | none of their own | probe, send a prompt, persist, process the incident | the AI sites, the scheduler | partial failure, late results | section 4, in part |
| **Incidents and notification outbox** `packages/server/db/src/health-incident-repository.ts`, `health-notification-repository.ts`, `health-retention-repository.ts` | recent states, incidents, intents with claims | record, open, escalate, suppress, resume, claim, deliver, fail | scheduler, Telegram | results out of order, maintenance windows, lapsed claims, attempt limits | section 5, in part |
| **Sync journal and server sync** `apps/extension/src/application/sync-journal.js`, `packages/server/db/src/sync-repository.ts` | entries with a base revision, beliefs; receipts and entities | record, compact, send a batch, apply the answer, read a snapshot; apply an entry and store its receipt | each other over HTTP | lost, repeated and overlapping requests, answers out of order, revocation | section 6, in part |
| **Technical scheduler** `apps/extension/src/application/technical-scheduler.js` | durable tasks with claims, one alarm | schedule, cancel, claim, finish, reconstruct, wake | alarms, owners of the tasks, control client | wakes lost or repeated over worker restarts, claims that lapse, delays overwritten | section 7, in part |
| **Refresh tokens** `packages/server/db/src/extension-auth-repository.ts`, `packages/server/extension-auth/src/index.ts` | a chain of tokens per session | rotate, replay, detect reuse | the control client | a lost answer against a stolen token | section 8 |
| **Control client** `packages/control-client/src/*` | credentials, prepared rotation, generation, grants, signed configuration | activate, refresh, verify, invalidate, restore | bootstrap API, Work | authority that changes during work | credentials only, section 8 |
| **Work sessions** `packages/bridge-core/src/work/*` | Work state and generation of a conversation | start, bind, hide, finish, recover | everything that acts | pending starts against finishing | Start and Finish, section 3 |
| **Delivery model** `packages/bridge-core/src/delivery/model.js` | phase of a report's insertion | insert, confirm, send, recover | the chat page, the ledger | a page that changes underneath, uncertain sends | no |
| **Batch queue, provider outcomes** `packages/bridge-core/src/execution/*` | plan of a batch, quota waits, buffered results | plan, group, run, recover | ledger wrapper, marketplaces | partial results, waits across restarts | no |
| **Device authorization** `packages/server/db/src/device-authorization-repository.ts` | device codes | approve, poll, consume | the control client | polling against expiry | its end only, section 8 |
| **Subscriptions and billing** `packages/server/db/src/p5-*` | events, checkouts, subscriptions, jobs | ingest, reconcile, expire | payment provider, lifecycle worker | events repeated and out of order | no |
| **Credential transfer, remote configuration, plans, prices, admin, auth** | one table each | single-transaction commands with a revision | admin application | little: row locks decide | no |
| **Page automation, adapters, web applications** | - | parsing and rendering | - | data rather than control | no |

What makes the components correct:

* ledger and command path: a request goes out at most once per command and Work,
  only under a durable intent; an effect that may have happened is never
  forgotten and never repeated without an explicit confirmation, which is good
  for one repetition; the record stays closed under its links and inside its
  capacity;
* health scheduler: at most one prompt per deep run; a success stands for one
  committed result whose incident was processed; late owners change nothing;
  every run settles;
* incidents and outbox: the newest decisive result decides, in whatever order
  results arrive; an open incident has an alert of its severity that is not kept
  silent, and one alert per severity; no alert but one under way waits under
  maintenance, and the alert of the opening is resumed after it; beyond its limit an
  intent is only taken over. An escalation that maintenance silenced is not resumed
  (section 5);
* journal and sync: the latest change of an installation is never lost, what it
  believes was true, a repeated request has one effect, every change settles;
* technical scheduler: work that was announced, or left by a worker that died, is
  served; the backoff of the access refresh is kept (that of other tasks is not,
  section 7);
* token rotation: whatever is lost, the token on record is of use or was replaced
  for the key on record; an honest client is not taken for a thief.

## 2. Plan

The order is by importance for the user's data.

1. done: `LedgerStore`, `CommandLedger`, the one place where a repeated step costs
   the seller money.
2. done: `HealthScheduler`: leases, late probes, crash recovery, liveness.
3. done: `SyncJournal` over a network that loses, repeats and delays, shown to
   implement `SyncRegister`.
4. done: `TechnicalScheduler`: claims and reconstruction over worker restarts.
5. done: `HealthNotifications`: recent states, incidents, intents, delivery.
6. done: `TokenRotation` with the client that may lose an answer.
7. left: the phases of a report's delivery, refining the completed delivery that
   `CommandLedger` assumes of `EndOperation` and `RecordDeliveryBuffer`.
8. done: `CommandDispatch`, which `CommandLedger` is shown to implement. Left: the
   loop of `compactCompletedWork` against the closed set `Removable` it computes.
9. left: device authorization, then billing events against the lifecycle worker.
10. done: a theorem for every safety property of the runs; their liveness
   properties stay with TLC (section 10).

Every module is written to be proved about: constants with a named assumption,
one action per operation, no `RECURSIVE`.

## 3. The command ledger

### State

| variable | in the code |
|---|---|
| `data` | `r3_commands` of the conversation's manual-operation record: maps `origins`, `receipts`, `retries` and `copies` (one map `approvals` in the code), `deliveries` |
| `owner` | the manual operation itself: execution, context, whether active, its report and the delivery it waits for |
| `live` | what `saReadContext` returns now: account, Work, authority; and whether Work is on |
| `chat` | the page: document key, known blocks, the baseline taken by Start |
| `caller` | invocations of `executeManualCommand` between their awaits |
| `permits`, `inflight` | items a run of the wrapped `GuardedBatchQueue` may send, or awaits |
| `sending` | `saR3CopyPermits` |
| `expired`, `used` | ids past their `expiresAt`; ids `makeId` gave out |
| `issued`, `calls`, `copied` | history, for the properties only |

`caller`, `permits`, `inflight`, `sending` are worker memory: `Restart` empties
them and keeps the rest.

### Actions

A ledger operation is one write of the record through the conversation's writer
queue, so one action; it works on `Ledger`, the compacted record, as `mutate()`
does, and writes the compaction with its own change. `mutate()` checks the
context before, inside and after the write; a caller whose context changed in
between gets an error for a write that happened. The parameter `kept` is that
choice: FALSE loses the answer and with it the permission to go on.

`executeManualCommand` is three actions, cut where the code awaits and shared
state can change: `Prepare` (Work session, block origin), `Reserve` or
`ReserveDuplicate` (context, ledger), `Install` (ownership of the operation);
`Refuse` is every early throw. The provider wrapper is `BeginProviderAttempt`
per item, `Dispatch` of the group, `RecordProviderOutcome` per item, `Abandon`.
A request whose answer never comes stays in flight until `Abandon` or `Restart`.

Abstractions: texts, hashes and digests are identities; all fields of a context a
new authority may change are one `epoch`; the fields `commandHash` and
`requestId` of a context are left out; the provider attempt's id is its item; an
execution has one report digest. Every click is a new request, so the fence of
`seen_request_ids` is not modelled: the model has more behaviours than the code.
Repeated calls of `confirmRetry`, `confirmCopy` and `beginProviderAttempt` that
return the stored answer write nothing and are left out. Lifetimes end in any
order. Replacing an operation keeps `r3_commands`, as `mutateManualOperation`
does.

### Runs

| run | instance | shows |
|---|---|---|
| `clicks` | 2 callers, 2 document-local blocks, 2 executions, 2 confirmations, 2 Works, 2 page loads, capacity 3 | `OneCallPerCommand`, `IntentBeforeCall`, `CapacityKept`, `OnePageLoadPerWork` |
| `chains` | 1 caller, 1 block, 3 executions, 2 confirmations, 2 Works, 1 change of authority | `TypeOK`, `LinksIntact`, `OneRetryPerRevision`, `ImplementsDispatch` |
| `reports` | 2 accounts, 2 executions of 2 items, 2 confirmations, 3 deliveries, 2 Works, 1 expiry, as three instances | `LinksIntact`, `OneCopyPerConfirmation`, `UncertainEffectsKept`, `OnlyEarlierWorkRetired` |
| `changed_text` | 1 caller, 1 block with 2 texts, 2 executions | violates `ChangedTextNeedsRetry` |
| `later_work` | 2 callers, 1 block, 2 executions, 2 Works | violates `NoReplayInLaterWork` |

`ImplementsDispatch` is the refinement: with `issued` and `calls` standing for
themselves, `CommandLedger` implements `CommandDispatch`, which knows no receipt,
approval, worker or compaction. Inside a Work a text of a block is admitted by a
click once, later only by retries that follow one another, and an item of what was
admitted is requested at most once. It says nothing across Works, because the code
keeps nothing there (section 9, `NoReplayInLaterWork`).

`reports` is three instances in one run, told apart by the state constraint
`OneInstance`: one report copied up to three times (twice if the account
changes); two reports, the first retired by a later Work; groups of two items
without reports, retried within their Work. The constraint only leaves behaviours
out that mix the three.

Why the bounds are enough to be interesting: two Works make compaction act and
two executions compete for a command; three executions make a chain of two
retries, so a link in the middle of a chain is at stake; three deliveries are an
original and two copies; both items of a group go out in one request and may be
answered one without the other; a receipt whose report was delivered and copied
is retired by a receipt of the next Work, of the same account or not; a capacity
of 3 is reached by two receipts and an approval, with a fourth id left; two
document-local blocks and two page loads are the smallest case where the same
local id means two messages. Every run crashes the worker at any point. Ids are
interchangeable, so the runs are reduced by symmetry; blocks are not, and none of
these runs checks liveness: the user, who decides what to confirm, owes the
ledger nothing. Deadlock is checked: `Restart` is always possible.

## 4. The health scheduler

### State

`run` holds the row of every slot (state, attempt, failure), `result` the attempt
whose result is committed in `health_runs`, `link` the `health_run_id` of the
row, `incident` the results whose incident was processed. `worker` is where a
process is in `runDurableHealthSchedulerCycle`; `probes` are executions, which
outlive the deadline that gives them up and die only with their process. `sends`
counts prompts, for the property.

A lease is its attempt: every claim but the first adds one to `attempt`, so
comparing the lease id and the owner is comparing the attempt. `oneRun` reads
without a lock, but each `UPDATE` repeats the check in its `WHERE`, so check and
write are one step. `FOR UPDATE SKIP LOCKED` may skip any row another transaction
holds, so `ClaimNext` takes any claimable row.

Time is what has passed: `past` holds leases, backoffs and due times that are
over. A cycle reads the clock once, so its claims are judged by `asOf`, `past` at
its beginning; finalizations read the clock again. The deadline is counted from
that first reading too and so may come at once.

A deep execution sends a prompt, persists and processes its incident, and may
fail before, between and after; a no-session execution persists and processes.
The page may answer anything at any time, or never. A result that is refused
because one is there, or because the run is no longer RUNNING, is a failure of
the execution with the code the executors give it.

Left out: the retention watermark of `materializeDueSlot`, the check of
`timeout_at` before execution (cadences are at least 30 s), changes of
`maxAttempts`. A disabled or revised schedule skips the slot.

### Runs and fairness

| run | instance | shows |
|---|---|---|
| `health` | 2 workers, 3 attempts, 2 claims per cycle, 1 crash, fair; a deep or a no-session slot | `TypeOK`, `OneSend`, `SuccessIsComplete`, `SettledStays`, `RunsSettle`, `DeepResultsLinked` |
| `health_recovery` | 2 workers, 1 no-session slot, 2 attempts, no crash | violates `CommittedResultRecovered` |

The constraint `OneSlot` gives each of the two slots behaviours of its own, and
leaves the no-session slot at its third attempt. Slots share no row, and two of
them meet only in the loop of a cycle, where an error over one ends the claims of
the others until the next wake; that case is in the model (`StartStale`, `Finish`
of a stale owner). For the no-session slot the liveness properties are therefore
checked up to there, for the deep one in full. Three attempts let an attempt be
lost, its successor be closed, and a third be the last. The theorems of section
10 hold for any number of slots and workers.

`FairSpec` assumes weak fairness of every worker's cycle and of the passing of
time. The code earns it: `setInterval` wakes a process whose previous cycle is
over, and a cycle waits only for the database, for executions and for the
deadline that bounds them. Nothing is assumed of executions, of crashes or of
schedule updates. The incident processing inside reconciliation is assumed not to
fail for ever.

## 5. Incidents and notifications

One observed scope. `results` are its committed runs, numbered in the order they
were observed; `recent` is `health_no_session_recent_states`; `incident` the last
incident; `intents` the rows of the outbox by their `dedup_key`; `worker` where
`tickOnce` of every process is. `looked`, `heard`, `caught` are read in a moment.

`Commit` writes a result and its projection into the recent states, one
transaction. `Process` is `processCompletedHealthRun`: superseded runs and
pointless ones change nothing; otherwise the incident is opened, kept, put under
maintenance or resolved, and the intents that go with it are recorded, silenced
or resumed in the same transaction. It happens in any order and more than once:
the owner of a run and every reconciling worker do it. `Look` and `ProcessLooked`
are the same with a commit in between: the share lock waits for a result being
committed, but under READ COMMITTED the recent states joined with it are those
read before the wait. Delivery is `Claim` (the UPDATE), `Deliver` (the SELECT
after it, and the provider's answer), `MarkDelivered`, `FailClaim`, `Restart`.
Backoffs and leases end at any moment.

Left out: incidents of baseline runs, which look at no recent state; statuses an
operator sets (only OPEN, MAINTENANCE and RESOLVED occur);
`emitNotifications = false`; the collection of old payloads. Observation and
completion order are taken alike. The insertion of an incident that loses a race
is, for one scope, IGNORED. Nothing forces a delivery, so no liveness is stated.

| run | instance | shows |
|---|---|---|
| `notifications` | 2 workers, 2 slots (the code has 3), 2 attempts (the code has 5), as two instances: 3 runs out of HEALTHY, BROKEN, MAINTENANCE and two UNKNOWN, 3 claims, 2 troubles; 4 runs out of HEALTHY, DEGRADED, BROKEN and MAINTENANCE, 2 claims, no trouble | `TypeOK`, `NewestDecisiveKept`, `IncidentIsCurrent`, `MaintenanceIsQuiet`, `AlertResumed`, `SeverityTold`, `RetriesBounded`, `SettledStays` |

The instances are told apart by the state constraint `OneInstance`. Two slots are
the fewest for which `NewestDecisiveKept` holds, and three results are the fewest
that fill them and push one out. Three claims let a limit of two attempts be reached
and passed. A trouble is a lease that ends under its worker, a write that fails, a
crash or a stale look; two of them let a late worker meet what a second one did. Four
results are the fewest in which an incident gets worse, is put under maintenance and
fails again, with the escalation before the maintenance or after it. The two do not
mix: no incident of the run escalates and meets a trouble; the theorems of section
10 have no such limit. Deadlock is off: the bounds end the behaviours.

`SeverityTold` asks for an alert that is PENDING, claimed, failed or delivered: one
that is SUPPRESSED tells nobody. It excepts (`Audible`) a route the operator
disabled, and an escalation of an incident that was under maintenance, for which
see the second observation. That a waiting alert is sent in the end is not stated:
nothing forces a delivery.

What the model showed besides:

* without the exception for `Look`, `IncidentIsCurrent` fails in six steps: the
  older failure that waited for the commit of a recovery opens an incident
  (`health-incident-repository.ts:221`). `incident.late` names that case;
* an escalation to CRITICAL that maintenance suppressed is never resumed, only the
  alert of the opening is, and a later BROKEN finds the escalation's row and
  records no other: after DEGRADED, BROKEN, MAINTENANCE, BROKEN nothing tells
  CRITICAL. Without its exception `SeverityTold` fails in nine steps. No document
  of the repository says which of the alerts are resumed;
* an alert that was CLAIMED when maintenance began and then fails goes back to
  waiting and is sent during maintenance as any other: `suppress...` has passed and
  `failClaim` does not look (`health-notification-repository.ts:207`, `:338`). It is
  excepted in `MaintenanceIsQuiet` by `caught`. The document of the noise foundation
  (`docs/development/stream2/S2_O2_LLM_HEALTH_NOTIFICATION_NOISE_FOUNDATION_R1_2026-09-19.md:154`)
  says maintenance suppresses undelivered product-break intents; without the
  exception the property fails in eight steps;
* a claim whose lease ended is taken over however often the intent was attempted
  (`:266`): only `failClaim` compares with the limit (`:337`). An intent whose workers
  stop before they answer is attempted any number of times, where the same document
  (`:133`) says five attempts; `attempts <= MaxAttempts` fails in seven steps.
  `RetriesBounded` is what does hold: whatever raises the attempts of an intent at
  its limit takes it over from a worker that said nothing;
* the UPDATE and the SELECT of `claimDue` are two statements, so two workers may
  hold one token, and a worker without one stops its runner;
* a `failClaim` whose claim has lapsed throws and quiesces the runner.

## 6. Sync between installations

`SyncJournal` composes the journals of several installations, the requests under
way, and the server. Per installation: `binding` and `work` of its conversations,
`journal`, the beliefs `known`, `truth` and `verdict`
(`serverRevisions`, `serverStates`, `reconciliation`), and in worker memory
`flight` (the batch chosen or sent) and `snapshot`. On the server: `server`
(`sync_entities`), `receipts`, `active`; `requests` is the network. `accepted`
and `recorded` are history.

A batch is chosen from one read of the journal and marked in a later write, so
these are two actions; the answer of a request is applied in one write. The
server applies the entries of a request one by one, each a transaction of its own
that checks the device, looks for the receipt, applies the entry and stores the
answer. A request outlives its sender, and the one that repeats it may overtake it.
The journal is cut at `MAX_ENTRIES`, as in the code.

Left out: store metadata, which is written to the catalog before the journal
(`sync-journal.js:474`); the content of delivery markers and the preferred
installation they elect; the outcome RETRY, which the server never gives; a change
of account (a lost answer covers what it does to a batch); the migration of old
keys; cooldowns. Binding a conversation and recording the change is one step.

| run | instance | shows |
|---|---|---|
| `sync` | 2 installations, 1 conversation, 1 store, 3 entries, batches of 2, 2 changes, 2 faults, 1 snapshot, 1 revocation, fair | `TypeOK`, `BeliefWasServed`, `LatestChangeKept`, `BeliefForward`, `ImplementsRegister`, `ChangesSettle` |

Two changes are the fewest that compete, by two installations or by one whose
first is under way; two faults repeat a request twice, or stop the worker of a
repetition. `LatestChangeKept` holds below the limit of the journal: with
`MaxEntries = 2` the oldest waiting change is dropped, by design of the eviction.
Deadlock is off: the system may stop at its bounds.

Fairness: an alarm of the technical scheduler wakes the journal while an explicit
change waits, a worker that chose a batch goes on until its answer, the server
serves. Nothing is assumed of the user, of the popup that reads snapshots, or of
delivery markers, for which no alarm is set.

`ImplementsRegister` is the refinement: with `log <- accepted`,
`entity <- server`, `members <- active`, `SyncJournal` implements `SyncRegister`,
whose revision counts the changes, whose state is the last of them, and where a
change takes effect at most once and never for a revoked installation.

What the model showed besides:

* the answer to a delivery marker tells the current revision, and waiting changes
  are rebased on it (`sync-journal.js:488`): one made without knowing another
  installation's change is then accepted over it;
* an installation may be fenced by its own change: a snapshot compares the
  generation of Work (`:613`), which explicit entries are recorded without; Finish
  is recorded one revision ahead, so the Start after it may be refused (`:188`);
* an entry compacted between the choice of a batch and its marking is sent all the
  same, and the whole batch becomes FAILED (`:412`). `ChangesSettle` and
  `LatestChangeKept` do not call that wrong: FAILED and CONFLICT are the code's own
  ends of a change, and these properties take them for ends.

## 7. The technical scheduler

`need` is what the owners of the tasks have on record (the time until there is
work), `entry` the durable tasks, `alarm` the alarm, `worker` where `wake()` is,
`telling` the owners about to announce a change. A time is what is left of it; 0
is now. `stranded`, `owed`, `dirty` are history.

Three sorts of task: `Deadline` (`quota:pending`), `Immediate` (`result:known`,
`work:recovery`) and `Kept` (`authority:refresh`). A wake reconstructs the tasks
from the records, lists what is due, claims and calls one handler after the other,
reconstructs once more and arms the alarm. Storage answers in the order it is
called, so a write and the alarm armed for it are one step, unless the worker dies
between them. A revision is what it is to the copy the worker holds: the same,
beyond it, or counting from 1 again after a cancel, when it may come to be the
same. `Watched` only says whose failures `owed` remembers.

Left out: `sync:pending`, read, planned and written with pauses between; the
expiry tasks; `MAX_TASKS`, which six task ids never reach; `MAX_DUE_PER_WAKE`.

| run | instance | shows |
|---|---|---|
| `wakes` | one task of each sort, times up to 1, one trouble, fair | `TypeOK`, `NothingForgotten`, `BackoffKept`, `WorkIsServed` |

One task of each sort is what the order of reconstruction tells apart; a time of 1
is a time to come. A trouble is a worker that dies, a wake that fails or a task
pushed back.

Fairness: the steps of a wake wait only for storage and handlers, which answer or
throw; time passes and alarms fire; an owner that changed its record announces it;
after a worker died or a wake failed some event starts the worker again, as every
page and popup does. No other event is assumed.

What the model showed besides:

* **the retry delay is overwritten.** `finish()` puts a failed task off by
  `RETRY_MS` (`technical-scheduler.js:183`), and the same wake reconstructs the
  tasks again (`:333`), which schedules `result:known` and `work:recovery` for now
  (`:249`, `:253`) and `quota:pending` for a time that has passed (`:221`). A known
  result is buffered and the account is signed out: the handler throws
  AUTH_REQUIRED (`runtime.js:1963`) and is called again 100 ms later, and so on,
  although
  `docs/development/client-i1/POST_C3H_P3_LOCAL_SCHEDULER_INTEGRATION_2026-09-18.md:46`
  promises a bounded one-minute retry. Only `authority:refresh` is spared (`:275`),
  which is what `BackoffKept` says; stated of the watched result task it fails in 20
  steps, with no trouble;
* `scheduleProviderQuotaWake` replaces the task, so a later wait of one owner
  pushes an earlier one back; `NothingForgotten` excepts it by `pushed`, and fails
  in 14 steps without. The same holds of `expiry:artifacts`
  (`application-patches.json:280`), of which the document says (`:21`) that the
  earliest bounded expiry is registered;
* a task scheduled anew after a cancel may carry the revision that was claimed, so
  that `finish` deletes it; the second reconstruction repairs this, except for
  `expiry:artifacts`;
* a known result whose owner is still "collecting" is scheduled and then skipped
  by the handler (`runtime.js:1962`).

## 8. Token rotation

`session` and `token` are the server's rows: a token knows the one that replaced
it and, itself being a replacement, the key it was made for. `disk` is the
client's record: generation, token held, rotation prepared. `flight` is the
refresh that waits for an answer, by its key; `stray` counts requests nobody waits
for any more; `drawn` is the token every key was drawn for, `left` (history) the
tokens whose generation changed under a prepared rotation.

`Prepare` writes a key down before asking, or goes on with the one on record if
its generation and token are those of now. `Fail` is a lost answer, repeated once.
`Take` commits the answer if its context is current; a refusal of the token signs
out. `Turn` is every change of the generation that keeps the credentials,
`SignOut`, `Activate`, `Stop` and `Restore` the rest of a client's life. The server
locks the token's row, so `Serve` is one step; `ServeBusy` is every 429 and 5xx,
with or without effect; `ServeBroken` is a failed INSERT, which the code answers as
an invalid token.

The client changes its record in a queue, disk before memory, and does nothing
after a write that failed: such a failure is a stop before the step or after it.
Only a denial goes on, and removes the record (`Wiped`). Left out: access tokens,
the counter behind the limit of requests, who asks for a refresh and why.
Revocation of a session, a device or an account is `End`; windows and lives of
tokens end by `Age`.

| run | instance | shows |
|---|---|---|
| `rotation` | 2 sessions, 4 tokens, 3 keys, 2 troubles, fair | `TypeOK`, `Recoverable`, `HonestSessionKept`, `RotationEnds` |
| `new_key` | 1 session, 4 tokens, 3 keys, 2 troubles; the generation changes only on a wake | violates `OldRefreshKeepsKey` |

A session starts with one token and every key makes one more, so four tokens never
run out before three keys do; three rotations are one, its successor, and one that
meets a stray request of the first. The constraint `SecondIsShort` stops the clock
and allows two keys in all once the client has signed in again: enough for an
answer of the first session to come late into the second. `RotationEnds` is
checked up to there, and in full for the first session. Deadlock is off: the
bounds end the behaviours.

Fairness: a prepared rotation is gone on with, because an alarm and every call of
the account refresh the access; the server answers; the worker starts again.

What the model showed besides:

* a transient error of the INSERT is answered as an invalid token
  (`extension-auth-repository.ts:164-166`) and signs the client out, where the
  design (`I1_CLIENT_CODEX_EXECUTION_2026-09-15.md:156`) says transport errors and
  5xx are not passed off as a revocation;
* after a bootstrap answered 401, a refresh that fails for any reason, transport
  included, is a terminal sign-out;
* `cancelActivation` racing the end of an activation leaves the generation of the
  cached authority behind that of the state, and the next restart signs out
  (`client.js:1550`);
* a denial whose write and whose removal fail leaves the credentials on disk for
  the next start.

## 9. Where the code and its documents disagree

1. **Changed text after UNKNOWN** (`changed_text`). `reserveCommand` returns an
   existing reservation before it looks at the fences. A changed text that was
   reserved while the first text ran, and refused as `MANUAL_OPERATION_ACTIVE`,
   is dispatched by the next click although the first ended UNKNOWN. A test
   titled "UNKNOWN click and reload retain old attempt and changed hash cannot
   bypass" covers only the other order.
2. **A double click across Finish and Start** (`later_work`). The origin of a
   block is derived from the Work read at the beginning of the click, the context
   is captured after several awaits and the two are not compared. A second click
   that stalls across Finish and Start is reserved under the new Work after
   compaction retired the first, and the request goes out again. The acceptance
   matrix promises no hidden replay on a double click. `OneCallPerCommand` is
   what does hold: once per command *and Work*.
3. **Committed no-session results** (`health_recovery`). A result may be committed
   and its run still end FAILED_TERMINAL; reconciliation accepts that state for
   deep runs only, so the result is never linked and its incident never
   processed, where the design record says it is found and the run closed as
   SUCCEEDED.
4. **A new key for an old token** (`new_key`). The key of a prepared rotation is
   kept only while the generation is the same. A worker that stopped after the
   server rotated, and wakes without its cached authority because the browser or
   the extension was updated, draws a new key for the replaced token; the server
   takes that for a stolen token, the session is COMPROMISED and the client signs
   out. The design record says a new awakening does not send the old token with a
   new key. Within one worker a common denial or a cancelled activation leads to
   the same. `HonestSessionKept` and `Recoverable` say what holds apart from it.
Three more were seen with a property violated in a few steps, and have no run of
their own: an alert that fails during maintenance and is sent (section 5), more than
five attempts (section 5), and the retry delay of a failed task (section 7).

## 10. What is proved

Every theorem holds for all values of the constants that satisfy the named
assumptions: `LedgerConstants` and `LedgerBounds` (finite sets of ids, `None` is
not an id, natural bounds), `SchedulerConstants` (at least one attempt and one
claim), `ResultsHaveHealth`, `TwoSlots` (at least two recent states), `SomeAttempt` (an
intent is tried once at least), `NoneIsNothing`, `NoBindingIsNone`,
`SchedulerTasks` and `SchedulerTimes` (the sorts of tasks are disjoint, a retry is
put off), `QuotaComesFirst` (a wake reconstructs the tasks with a time before
those that are due at once, `technical-scheduler.js:208-254`), `JournalBounds`
(`MAX_ENTRIES` is a number, `MAX_BATCH` at least one), `RotationNone`,
`AnswersDiffer` (a refusal is no token), and the bounds of the counters are
numbers (`RunsAreBounded`, `TroublesAreBounded`, `RotationBound`).

`CommandLedgerProofs`: `TypeCorrect`, `IntentFirst` (`IntentBeforeCall`),
`AtMostOneCall` (`OneCallPerCommand`), from `Invariance`. `OneCallPerCommand`
compares the requests of receipts that may have been compacted away, so alone it
says nothing a step could use. The invariant `IInv` adds

* `Distinct`: no two receipts ever issued share a stamp (command and Work), and
  an id given out is never given out again;
* `Recorded`: a present receipt is stamped as it was issued;
* `Retired`: the stamp of a receipt that is gone belongs to an earlier Work,
  because compaction spares the current one; a new receipt is stamped with the
  current Work, so it cannot repeat it;
* `Revisions`: the origin of every present receipt has a counter, and the counter
  is at least the receipt's revision, so a confirmed retry takes a fresh revision;
* `Approvals`: an approval names an issued receipt, and the origin it carries is
  that of the receipt it retries, so the counter it advances is the right one;
* `Intents`: what is permitted or awaited is on record as PROVIDER_INTENT, the two
  are disjoint, and what is permitted was not sent yet;
* `Calls`: an item is sent at most once, and what was sent is never RESERVED again.

The step has a lemma per group of actions (clicks, provider, retry, copy,
environment). Compaction is handled once: it only removes whole receipts, and
every part of the invariant survives removal.

`CommandHistoryProofs`: `CompetingRetries` (`OneRetryPerRevision`) and
`RetiresEarlierWork` (`OnlyEarlierWorkRetired`). Both follow from the same
invariant and one lemma, `Effects`: a step leaves the receipts alone, or works on
the compacted ledger and either keeps its receipts or adds one, of revision 0 or
of a revision no receipt of its block has.

The same module proves the refinement, `DispatchRefined` (`ImplementsDispatch`),
one lemma per action of `CommandDispatch`. `Reserve` is its `Click`, `ConfirmRetry`
its `Retry`, a `Dispatch` that sends its `Request`; every other step, the compaction,
the restart and the expiries among them, is a stutter. A retry is above every
revision its block ever had in this Work: by `Retired` those receipts are all still
on record, by `Revisions` the counter bounds them, and the approval takes the next.
A request is for items never requested, by `Intents`.

`CommandRecordsProofs`: `LinksKept` (`LinksIntact`), `WithinCapacity`
(`CapacityKept`), `OneLoadKept` (`OnePageLoadPerWork`), `CopiesOnce`
(`OneCopyPerConfirmation`) and `EffectsRemembered` (`UncertainEffectsKept`), from
`RecordInvariance`. `RecordInv` says of the stored record that

* it is closed under its links (`Linked`), and a confirmed copy and its approval
  are of one report (`Paired`): without that, retiring a report could take an
  approval away from the copy of another;
* a report counts its copies and no two have one number (`Numbered`), so a
  permit fits one copy;
* ids on record were given out (`Named`), a copy that is only reserved was handed
  over to nobody (`Waiting`), and a permit not yet claimed is for a copy never
  sent (`Permitted`).

Compaction is the hard part: `Removable` is the union of all detached sets of
settled receipts, and `RemovableDetached` shows that such a union is detached
itself, so what stays refers only to what stays. `EffectsRemembered` follows
because a detached set holds no uncertain receipt and no unconfirmed delivery.

`HealthSchedulerProofs`: `TypeCorrect`, `AtMostOneSend` (`OneSend`),
`SuccessLinked` (`SuccessIsComplete`), `SettledForGood` (`SettledStays`), from
`Invariance`. `IInv` adds to the types

* `Linked`: SUCCEEDED, a link, and a link to the committed result whose incident
  was processed, are the same thing;
* `Persisted`: an execution that saved has its result committed, and one that
  finished saving has its incident processed too;
* `Unsent`: a deep run that is not RUNNING, FAILED_TERMINAL or SUCCEEDED has sent
  nothing and has no execution; it never has two executions, and while one has
  not sent, or may be repeated, nothing was sent for the slot;
* `OthersSilent`: only deep executions send.

Most steps move rows only forward, and executions only vanish or advance; two
lemmas cover all of these, and only the steps that close, start, finish, send and
persist are proved one by one. Once a deep run is RUNNING, every way back to a
claimable state needs a failure that proves nothing was sent, which is why
`Unsent` is inductive.

`HealthNotificationsProofs`: `NewestKept` (`NewestDecisiveKept`) and `Current`
(`IncidentIsCurrent`) from `Invariance`; `Quiet` (`MaintenanceIsQuiet`), `Resumes`
(`AlertResumed`), `Told` (`SeverityTold`) and `GivenForGood` (`SettledStays`) from
`IntentsInvariance`; `TypeCorrect` (`TypeOK`), and `AttemptsBounded`
(`RetriesBounded`) from `DeliveryInvariance`. The first invariant says that slots hold committed results
(`RecentOK`) and that an incident says what the run that changed it last found
(`IncidentOK`); with two slots or more there is an unknown or an older row to
give way to a new decisive one (`OldestExists`, `NewestStays`). The second types
the intents and says which of them an episode has and in what state; `Told` follows
because an incident has a row as severe as what was seen last, because the alert of
the opening is silenced by maintenance alone and only while it lasts, and because an
incident with an escalation opened as WARNING and its escalation is silent only after
maintenance (or by a disabled route). The third says that an intent that waits, or
that maintenance silenced, has an attempt left; a claimed one need not have, since a lapsed claim is
claimed again whatever its attempts, and `AttemptsBounded` says just that of every
step. With the exceptions named in section 5 the theorems are these and no more:
`Quiet` leaves out alerts caught in a claim, `Resumes` speaks of the alert of the
opening, `Told` of an alert that is not silenced, not of its delivery.

`SyncJournalProofs`: `Invariance`, `ReceiptIsFinal` (one receipt per request id,
for ever) and `Refinement` (`ImplementsRegister`). The invariant types receipts and
says that every accepted change has one and that the server's row is what the
accepted changes make it; a repeated request then finds its receipt and is a
stutter of the register, a new one is a change of it.

The installations' side follows from `ClientInvariance`: `TypeCorrect` (`TypeOK`),
`BeliefServed` (`BeliefWasServed`), `BeliefMovesForward` (`BeliefForward`) and
`LatestKept` (`LatestChangeKept`). `ClientInv` says that

* entries of journals and batches, wires still to be served and receipts are all of
  entries their installation recorded (`Matches` in `JournalOK`, `FlightOK`,
  `ReceiptsOK`, `Asked`), so an answer to a sequence number is about the
  conversation of the live entry with that number, whatever was compacted or
  rewritten meanwhile;
* whatever is in flight is of the batch sent, and the request an installation waits
  for covers that batch (`FlightOK`, `Covers`), so an answer, or its loss, leaves
  nothing in flight;
* an installation waits for one request, and what a request was told has a receipt;
* receipts, snapshots and beliefs hold what the server told at a revision (`Told`,
  `Held`), and later changes of a conversation are newer (`Growing`): so a revision
  that is not behind brings a state that is not older.

An answer is applied row by row, a recursion over its rows (`Applied`). What one row
does is `RowApplied`: its entry is gone or in conflict, the others keep all but their
base (`Settles`), and the belief is the old one or what the row tells (`Learns`).
`AnswerApplied` carries that over all rows by induction on their number, which needs
that rows have distinct sequence numbers: `ReceiptIsFinal`, once more.

`LatestKept` has a hypothesis: no journal is at its limit (`Below`, at every
moment). At the limit `compact` drops its oldest waiting or failed entry, which may
be a latest change, and the property is false; `MAX_ENTRIES` in the run is above
the changes it makes.

`TechnicalSchedulerProofs`: `TypeCorrect` (`TypeOK`), `Backoff` (`BackoffKept`)
from `Invariance`, `Remembered` (`NothingForgotten`) from `WakeInvariance`. The
first invariant says that what is left of a failure's delay is backed by a task that
failed, is not claimed and waits at least as long, which no reconstruction moves
and no wake claims. One lemma, `WriteKeeps`, covers every write of the tasks,
whether or not the worker dies at it. `NothingForgotten` speaks of the moments
between wakes only; `WakeInv` says what holds in the middle of one: what was
announced before the wake passed its task was taken by it (`AnnouncedTaken`), what
a dead worker left was read, or will be (`StrandedKnown`), and is taken and stands
(`StrandedTaken`, `StrandedStands`). The last needs `QuotaComesFirst`: it is at a
task with a time that the wake reads what was left.

`TokenRotationProofs`: `TypeCorrect`, `AlwaysRecoverable` (`Recoverable`),
`HonestKept` (`HonestSessionKept`), from `Invariance`. `Recoverable` compares the
client's record with a row the server wrote in answer to a request the client may
have forgotten. `Inv` adds that a replacement was made for a key drawn for the
token it replaces (`Linked`) and is what was answered (`Answered`), that the key
drawn for the token on record is the one on record unless that token was left
behind (`Kept`), that the client never holds the successor of a token it draws a
key for (`Forward`), and when a reuse was found (`Judged`).

Only model-checked: the liveness properties (`RunsSettle`, `DeepResultsLinked`,
`ChangesSettle`, `WorkIsServed`, `RotationEnds`; fairness is out of the prover's
reach).

## 11. What is not modelled

The components without a module in section 1, for the reasons given in
`PROJECT.json`; what sections 3 to 8 leave out of the modelled ones. Of the manual
path: batch planning, local policy and quotas (they refuse a command before the
ledger sees it), and the phases of a report's insertion (its completion is an input
of `CommandLedger`). Of the monitoring: the browser automation of a probe (any
outcome at any time), retention of old rows.

Measured in lines the models cover little of the repository. Most of it is page
code, marketplace contracts and their operations, adapters, user interfaces and
validation: data without states that outlive a call. What is modelled is the part
that has several actors, a durable record and a failure between two steps.

## Running

```
tlc -workers 2 -config MCCommandLedgerClicks.cfg MCCommandLedger
tlc -workers 2 -config MCCommandLedgerChains.cfg MCCommandLedger
tlc -workers 2 -config MCCommandLedgerReports.cfg MCCommandLedger
tlc -workers 2 -config MCHealthSchedulerSlots.cfg MCHealthScheduler
tlc -workers 2 -config MCHealthNotifications.cfg MCHealthNotifications
tlc -workers 2 -config MCSyncJournal.cfg MCSyncJournal
tlc -workers 2 -config MCTechnicalScheduler.cfg MCTechnicalScheduler
tlc -workers 2 -config MCTokenRotation.cfg MCTokenRotation

tlc -workers 2 -config MCCommandLedgerChangedText.cfg MCCommandLedger
tlc -workers 2 -config MCCommandLedgerReplay.cfg MCCommandLedger
tlc -workers 2 -config MCHealthSchedulerRecovery.cfg MCHealthScheduler
tlc -workers 2 -config MCTokenRotationNewKey.cfg MCTokenRotation

tlapm CommandLedgerProofs.tla
tlapm CommandHistoryProofs.tla
tlapm CommandRecordsProofs.tla
tlapm HealthSchedulerProofs.tla
tlapm HealthNotificationsProofs.tla
tlapm SyncJournalProofs.tla
tlapm TechnicalSchedulerProofs.tla
tlapm TokenRotationProofs.tla
```

The first eight pass; the next four end in the violations of section 9.
