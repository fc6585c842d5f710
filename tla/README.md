# DataBreeze: a verification of its protocols

DataBreeze is a business data workspace: a NestJS control plane
(`services/api`) over PostgreSQL, pure domain packages (`packages/domain`), a
Python calculation engine run by cloud workers (`services/engine`), and Web,
Desktop and Android applications. This directory holds TLA+ models of the parts
of it in which several actors meet, of which one may fail: the life of a job from
admission to settlement, approvals and publication, sessions, usage and
payments, offline queues, uploads, the audit ledger, and the dashboards' drafts,
refreshes, streams, notifications, conversations and agent commands. TLC checks them on small instances;
TLAPS checks proofs of the results that hold for every instance.

1. [Inventory of the system](#1-inventory)
2. [Modules](#2-modules)
3. [How the models follow the code](#3-how-the-models-follow-the-code)
4. [Runs](#4-runs)
5. [Fairness](#5-fairness)
6. [Proofs](#6-proofs)
7. [Findings](#7-findings)
8. [What is not modelled](#8-what-is-not-modelled)
9. [What could come next](#9-what-could-come-next)

## 1. Inventory

`features/x` stands for `services/api/src/features/x`. The last column names the
module, or the reason why there is none.

| Component | State it keeps | Operations | What is hard | What makes it correct | Module |
|---|---|---|---|---|---|
| Job and attempt rules (`packages/domain/src/jobs`, `execution-attempt`) | none (pure) | create, transition, start, renew, complete, expire | boundaries of a lease (`>` or `>=`), the transition table | a lease is over for one side exactly when it is free for the other | `JobDomain` |
| Cloud worker API (`features/jra/worker`) | attempts, preparations, finalizations, completions, transition log | assignment, claim, heartbeat, prepareResult, finalizeResult, complete | replay lookup, authorization and transaction are separate steps; late and repeated requests; expired leases; rotated secrets | one holder per job, one accepted result, history never rewritten | `WorkerLease` |
| Cloud worker (`services/engine/.../worker_client.py`, `worker_main.py`) | the attempt it works on, in memory | `serve`, `run`, `run_result_v2`, heartbeat thread | retries over an unreliable network, a thread that extends the lease beside the work, death at any time | never works on after losing its lease; what it was told is accepted is accepted | `WorkerLease` |
| Admission, ready queue, job transitions (`features/jra/application`) | job, execution request, dispatch record | `admit`, `promote`, `transition` | repeated requests, batches, jobs that end before they are queued | job, request and record exist together; a record is delivered once | `JobAdmission` |
| Approvals (`approval.service.ts`) | requests, decisions | request, decide, two invalidations | decisions racing expiry, repeated decisions | an approval counts once; a rejection is final | `Approvals` |
| Dashboard publication (`features/dda/dashboard`) | published version, publications, withdrawal outbox | publish, commit, dispatch | what was read before an await, a worker's lease that ends | publications form one line; a replaced version keeps no approval | `DashboardPublication` |
| Dashboard drafts | draft, authoring versions, commands, proposals | authoring commands, proposals | two stores written one after the other, compensation | a command counts once; what was removed can be restored | `DashboardAuthoring` |
| Dashboard refreshes | refresh rows, coalescing groups, snapshot pointer | trigger, run, lapse, recover, commit | triggers in several processes, late workers | what is shown is for the newest input and never goes back | `DashboardRefresh` |
| ETL acceptance | proposal, durable command, dataset version | accept, automatic preparation, release, reconcile | two owners of one execution, leases | one execution, one answer | `EtlAcceptance` |
| Notifications | checkpoints, receipts, intents | project, state commands | pages, two workers, workspaces that fail | no event skipped that commits in order, each counted once | `NotificationOutbox` |
| Refresh event stream | sequence of events; timers, in memory | subscribe, poll, break | permission read before an await | nothing after revocation; the client catches up | `RefreshStream` |
| Agent commands | durable command rows | execute, reconcile | lease ends while the tool runs | a tool takes effect once, after its audit | `AgentCommand` |
| Conversations | messages, context, turns | turn, append, advance | repeated turns, changing context | one transcript without a gap | `Conversation` |
| Sessions (`features/iam`, three clients) | sessions, token families, epochs; the stored pair | issue, refresh, revoke, switch, recover | READ COMMITTED, lost answers, clients that refresh twice | a token is used once; access ends with its session | `SessionRefresh` |
| Usage (`features/bua`) | ledger, reservations | reserve, settle, release, summary | concurrent writers at two levels | never more than the quota; one settlement | `UsageLedger` |
| Payments (`features/bua`) | orders, inbox, snapshots, subscription | create, webhook | duplicated and reordered webhooks | one settlement per payment; what is settled stays settled | `Payments` |
| Device sync (`features/dso`, Android) | offline queue; operations, conflicts | enqueue, transition, recordConflict, worker | lost and late answers, death of the process | what leaves the queue is in the server, or was behind a full batch | `DeviceSync` |
| Android sign-out | guard, runtimes, workers | sign out, sign in, enroll, work | a worker between its check and its transport | nothing is sent for a user who is out | `SyncRevocation` |
| Uploads (`features/iae`) | sessions, parts; objects in S3 | create, part, finalize, abort, expire | calls of the store between two transactions | what is published is what was expected | `ArtifactUpload` |
| Audit ledger (`features/aud`) | events, seals, attestations | append, seal, attest | concurrent appends | the events are a chain | `AuditLedger` |
| JRA dispatch, recipes, findings | their own records | one transaction each | little | optimistic revisions | none: holds by one compare-and-set |
| IAE intake, versions, capabilities; DSO routes and data mode; IAM memberships, MFA; DSM datasets | their own records | one transaction each | little | optimistic revisions | none |
| CRF, DQG, FA, ILD, LFB, QI, SA, mobile; platform administration | their own records | one transaction each | little | the calculations | none: pure calculation and CRUD |
| Calculation engine | none | processors | numeric rules | the calculations | none: pure |
| Web, Desktop, Android screens; contracts; tools | local caches | display, capture | rendering | | none |

Within one process the features call each other through ports composed in
`services/api/src/platform`; everything else is PostgreSQL and HTTP. Along the
life of a job: a feature calls **admission**, which writes the job, its execution
request and its dispatch record; the **ready queue** moves it to `QUEUED`; a **worker** asks for an
assignment and gets an *attempt* with a lease of 60 seconds; it claims the
attempt, extends the lease by heartbeats while it works, prepares a submission,
transfers its outputs, and finalizes; the API closes attempt and job, stores the
result and **settles usage** in one transaction. A worker that dies lets its
lease run out; assignment gives the job to the next worker, at most
`maxAttempts` times. **Publication** reads the **approvals** of a version, and
withdraws those of the version it replaces through an outbox. The other
components meet only in the audit ledger and in the usage ledger, each of which is modelled by itself.

The database matters: only the artifact-upload, worker-adapter, result-manifest,
admission, approval and ready-queue repositories ask for Serializable
transactions. Every other transaction is READ COMMITTED, and its model is cut at
each statement whose result a later statement uses.

## 2. Modules

| Module | Contents |
|---|---|
| `JobDomain` | the pure rules of `packages/domain`: transition table, `transitionJobV1`, the operations on an attempt |
| `WorkerLease` | the worker protocol: rows, worker processes, requests in progress; one action per step of a handler |
| `JobContract`, `WorkerLeaseContract` | what the protocol promises, without requests, retries, secrets or processes; the refinement mapping |
| `WorkerLeaseProofs` | types and invariants of the rows, of requests and processes; the protocol implements the contract |
| `JobAdmission` | admission, ready queue and transitions of jobs before a worker has them |
| `Approvals` | approval requests and decisions |
| `DashboardPublication` | publication, composed with `Approvals` by `INSTANCE`: its approvals are the variables of that module |
| `DashboardAuthoring`, `DashboardRefresh`, `EtlAcceptance`, `NotificationOutbox`, `RefreshStream`, `Conversation` | the parts of *data to dashboard* |
| `AgentCommand` | consequential commands of the agent |
| `SessionRefresh`, `UsageLedger`, `Payments`, `DeviceSync`, `ArtifactUpload`, `AuditLedger` | sessions, usage, payments, offline operations, uploads, the audit ledger |
| `SyncRevocation` | background work and sign-out on Android |
| `Foundation`, `Dashboards` | the components side by side, one scenario per behaviour, for any values of their constants (section 3.5) |
| `SessionRefreshProofs`, `DashboardRefreshProofs`, `ConversationProofs` | theorems about components that are instantiated more than once |
| `UsageLedgerProofs` | theorems about the usage ledger, and about sums over finite sets |
| `FoundationProofs`, `FoundationStorageProofs`, `DashboardsProofs` | theorems about the other components, and about all of them side by side |
| `MCWorkerLease` | values for TLC: times that come or do not come within the bound, symmetry |
| `MCFoundation`, `MCDashboards` | values for TLC of the constants that a `.cfg` cannot write |
| `MCProgress` | components side by side with the fairness that liveness needs |

## 3. How the models follow the code

### 3.1 The worker protocol (`WorkerLease`)

#### State

| Variable | Code |
|---|---|
| `clock` | `now()` of the API. The worker's clock is taken to be the same; the code compares its heartbeats with the server's clock (`boundedExtendedLease`). |
| `epoch` | the current `secretVersion` of each service account |
| `job`, `log` | rows of `jobs` and `job_transitions` |
| `ready` | the `JOB_READY` row of `job_dispatches` |
| `latest`, `attempt` | `execution_attempts`; `latest[j]` is the highest `attemptNumber` |
| `prep`, `fin`, `comp` | `worker_result_preparations`, `worker_result_finalizations`, `worker_completions`: at most one each per attempt (unique keys) |
| `binding` | state of the job's usage settlement binding, with the reservation it holds |
| `wk` | each worker process: where it is in `run` or `run_result_v2`, the revision and lease it was last told, its pending call, its heartbeat thread |
| `req` | the requests the API is handling, one per slot |

Fingerprints, hashes and idempotency keys are replaced by the values they are
computed from, as far as these can differ: the secret version, the expected
revision, the lease (the attempt binding hash covers it), the outcome. The lease
token is generated per attempt, so it is the attempt.

#### A request in pieces

A handler is cut where it awaits something that others may change:

```
sent --LookUp--> looked --Authorize--> authorized --(transaction)--> answered
       (finalize and complete only)
```

* `LookUp`: `findResultReplay`, `findReplay`. `complete` has read the clock
  before.
* `Authorize`: authentication and `authorize`, a snapshot on the plain connection
  (`seen`).
* The transaction (`AssignTx`, `ClaimTx`, `HeartbeatTx`, `PrepareTx`,
  `FinalizeTx`, `CompleteTx`) is Serializable in the code and one action here.
  It re-reads the attempt (`HoldsLease` is `loadCurrent`) and, for results,
  compares it with the snapshot (`AsAuthorized` is `authorizationMatches`).
  The check of the secret version runs on another connection, so a
  transaction that passed it commits although a rotation came first: the
  transactions do not test `Current`, while `RefuseTx` may.
* `Times`: the time a transaction works with is any between the authorization
  and the commit, except where the code reads it earlier.
* `ReplayTx`, `RefuseTx`, `RefuseEarly`, `AssignNothing`: the other ends of a
  handler. `Drop` is the failure of a handler or its transaction (a 5xx answer
  or none).

#### The worker

`Call` sends the next request, with the heartbeat thread stopped and joined.
(`claim` has no heartbeat yet; `prepare` and `complete` follow `thread.join()`.)
`Beat` is one turn of `heartbeat_loop`. `RetryCall` and `RetryBeat` send the same
body again; the copy given up on stays in its slot and may still commit, which
is how late and duplicated requests arise. `NextRound` is every end of a round of
`serve` and every death: a restarted process may read the rotated secret.

#### Bounds

`MaxClock` and `MaxEpoch` bound the clock and rotations in the guards of `Tick` and
`RotateSecret`; `Slots` bounds how many requests are handled at a time. `MaxRetries`
is the constant `MAX_RETRIES` of the client, made smaller. All other numbers
are the code's parameters.

#### Reduced

* The workload request (read only) and object transfer are absent: a failure
  there is a `NextRound`.
* `prepare` replays the stored row for an identical request; when that row was made
  under another lease, the boundary answers 503, and the model leaves the request
  to `Drop`.
* Only CLOUD_WORKER attempts in one tenant scope.

### 3.2 Admission and approvals

* **`JobAdmission`**. `Admit` is the Serializable transaction of admission (job,
  execution request, dispatch record), `Replay` its answer to a known key,
  `promote` one batch of the ready queue, `Transition` is `JobService.transition`.
  It is the part of a job's life before `WorkerLease` takes it up; both use
  `JobDomain`. Bound: `MaxRevision`. The entitlement reservation inside the
  admission is left out (see `UsageLedger`).
* **`Approvals`**. Policies are immutable and are constants, as are the roles;
  revisions are left out because the repository is Serializable. A late `decide`
  expires a request whatever its status, as in the code. `Repeats` says whether a
  decision may be sent again: with it the quorum fails (see
  [Findings](#7-findings)), so run `dashboards` and the proof take it `FALSE`.
* **`DashboardPublication`** instantiates `Approvals` on its own variables
  `requests` and `decisions`; a caller reads an approval, awaits, and commits by
  compare-and-set; the worker leases outbox rows and calls the invalidation of
  `Approvals`. All replicas share the default worker id, so a lease excludes
  nobody of another replica: the workers of the model do the same. The materialized results a version needs
  are external and resolve.

### 3.3 Data to dashboard

* **`DashboardAuthoring`**: `applyAuthoringCommand` over both repositories with
  replay, compensation and faults, and the making of proposals. Bounds `Last`,
  `InFlight`, `MaxRevision`, `MaxFaults`. Left out: pages, cells, the choice of
  options, the provider of proposals.
* **`DashboardRefresh`**: triggers with their reads and retries, runs, lapses,
  recovery, commits, and the snapshot a process keeps in memory. No entry point
  calls `markRunning`, `handleLeaseExpiry` or `recoverAfterCrash` yet: they are
  modelled as written. `Late` says whether workers may commit after their lease.
* **`EtlAcceptance`**: `accept` with its command rows and lease, the automatic
  preparation that calls it, release and reconciliation; each port may refuse.
* **`NotificationOutbox`**: a run of the worker page by page, receipts, bundles,
  checkpoints, the recipients' commands. A run looks at the `ScopeRows` oldest events and at most
  `ScopeLimit` workspaces of theirs. The page is cut by time alone and then sorted
  by id in the code; events of one time are not modelled. With `Late` an event may be
  committed after one that occurred later, and so behind a checkpoint: the code takes `occurredAt` before the
  transaction, and every run has `Late = TRUE`. The history variable `overtaken` collects such events.
* **`RefreshStream`**: `createStream`, `listenFor` with its timers, `list`, and a
  client that reconnects from its last event. The SSE client is external; when it is told of a
  gap it reads the dashboard through REST, after which it knows (`known`) all that was committed
  by then, while its last id stays what it was.
* **`AgentCommand`**: `execute` and `reconcile`, update by update. `reconcile` has no
  production caller; what its reconciler sees is taken to be true. Audit
  events are identified by correlation id, action and outcome, so `audited` is a set.
* **`Conversation`**: turns, appended messages and changes of the context,
  statement by statement; `tries` bounds the retries as the code does.

### 3.4 Foundation

* **`SessionRefresh`**: `issue`, `refresh`, `revoke`, `switchScope` and
  `completeRecovery` at the statements of their transactions, with row locks, and
  the stores of the three clients. `Platform` chooses the client, `Ops` what it
  does, `Lossy` whether answers may be lost.
* **`UsageLedger`**: a writer reads the entries of its ancestors and inserts its own
  with the next sequence number; a unique key makes one of two fail. Two levels
  (workspace, project), one metric.
* **`Payments`**: `create`, `applyWebhook` and `settlePaid` at their statements; the
  provider (external) repeats a webhook until it is answered. An event has an order, a
  kind and the id the inbox knows it by (`providerEventId`), the reference of its transaction: so one order may be
  paid under several ids, and one id may come with other content, which `FindInbox` refuses. The lookup by
  payment link id of an order without code is not modelled.
* **`DeviceSync`**: the Android queue and worker against `enqueue`, `transition` and
  `recordConflict`, with lost and late answers, a failing database and the
  death of the process. A run reads the whole queue, sends the first `Batch` operations and
  settles all it has read; the history variable `overlooked` collects what was deleted behind a full batch.
* **`SyncRevocation`**: guard, mutex, workers, sign-out, sign-in, enrollment. Each of the last three builds a
  runtime with a guard of its own, while WorkManager keeps the factory of the runtime it was initialized with
  until the process dies. The history variable `signer` is the runtime that set the mark.
* **`ArtifactUpload`**: the upload service over the Serializable repository, with one
  step for each call of S3. `expire` has no production caller but is modelled.
* **`AuditLedger`**: a digest is the sequence of what it covers, so different chains
  differ. An error ends a call and its transaction.

### 3.5 Composition

Every component was cut at the calls it makes to another one; where the
answer matters to its properties the two are composed (`DashboardPublication` with
`Approvals`, `DeviceSync` and `SyncRevocation` with their clients, `Payments` with the
provider, admission and workers over `JobDomain`). The remaining ones read no variable of each other, so a
behaviour of all of them is an interleaving of behaviours of each, and it
suffices to look at them one at a time: `Foundation`, `Dashboards` and
`MCProgress` choose a `scenario` in the first state, let that component move, and
leave the others at their initial values. `Foundation` and `Dashboards` have the
constants of their components, each with the name of the component before it, so that their
behaviours are those of any number of calls, keys, rows and workers; `MCFoundation`
and `MCDashboards` and the `.cfg` files give the values that TLC takes. `MCFoundation` and
`MCDashboards` also fix an initial value that never changes (where a reservation
belongs, how events are grouped) outside of the scenario it matters to.

### 3.6 Mutants

Each property of a passing run has a mutant of the code in `PROJECT.json` that breaks
it; the mutated operators stand beside the originals, marked "(Mutant of ...)".

## 4. Runs

`CHECK_DEADLOCK FALSE` everywhere: clocks, calls and faults are bounded, and a
system that has done all its work stops.

| Run | Instance | Checks |
|---|---|---|
| `safety` | 1 job, 2 workers, 2 slots, 2 attempts, 1 retry, clock to 3 | `JobMatchesAttempts`, `LeaseExclusion`, `PreparedStaysBound`, `FinishedStaysFinished` |
| `rotation` | 1 job, 1 worker, 2 slots, 2 attempts, 1 retry, 1 rotation, every outcome | `ResultSettledOnce`, `AcknowledgedIsDurable`, `ImplementsContract` |
| `queue` | 3 jobs, 1 worker, promoted one at a time, deadlines at 2 and 3, one expired settlement, one job that cannot be leased | `TypeOK`, `LogIsPath`, `LeaseEndsWithDeadline` |
| `takeover` | 1 job, 2 workers, 2 attempts, fairness | `ExpiredIsTakenOver` |
| `foundation` | ten scenarios, below | the types and nine properties of sessions, usage, payments, device sync, sign-out, uploads, audit and admission |
| `dashboards` | eleven scenarios, below | the types and eleven properties of approvals, publication and data to dashboard |
| `progress` | eight scenarios, below | six liveness properties |
| `poison`, `starvation`, `usage`, `retry`, `approvals_quorum` | see [Findings](#7-findings) | violated |

### The worker protocol

Why the instances are large enough: two slots hold a request and the copy of it, or
one worker's late request and another worker's; two attempts are one takeover; a
clock to 3 with leases of 1 lets a lease be extended, run out, be taken over and
run out again; a result may be prepared under one lease and finalized under
the next. The step from an attempt to the next does not depend on how many went
before, and jobs meet only in `Candidates` (three jobs: one leased, one queued,
one not leasable).

What each property says about the code:

* `JobMatchesAttempts`: `assign`, `claim`, `heartbeat`, `finalize` and `complete`
  write job and attempt rows from snapshots that may be old; the rows still tell
  one story. A mutant that forgets to write `EXPIRED` leaves two active attempts.
* `LeaseExclusion`: `assign` takes over what expired *before* now, `loadCurrent`
  refuses what expires *at* now; together no two workers hold a job by the
  expiry each was told. With `<=` in `expireExecutionAttemptV1` they would.
* `AcknowledgedIsDurable`: a worker told that its result is accepted can rely on
  it, also when the answer was a replay.
* `PreparedStaysBound`: the submission is bound to a revision and a lease, and the
  heartbeat thread changes both; joining it first is what keeps them.
* `FinishedStaysFinished`, `ResultSettledOnce`: no copy of an old request, no late
  assignment and no new admission touches a finished job; usage is charged once.
* `ImplementsContract`: all of it together, as the contract of a job.
* `LogIsPath`: promotion, assignment, finalize and complete each write their part of
  the log, one of them two rows.
* `LeaseEndsWithDeadline`: three places compare the deadline, with times that may
  be old; a lease still ends within `MaxLease` of it.
* `ExpiredIsTakenOver`: a job whose worker died is leased again.

### `foundation`

| Scenario | Instance | Property, and what it says of the code |
|---|---|---|
| web | 3 calls of refresh, sign-out and switch | `AccessEndsWithSession`: an access token handed out by a refresh that overlaps a sign-out or switch does not outlive the session |
| desktop | 3 calls of refresh and sign-in, answers lost, transactions failing | `SingleUse`: a refresh token is rotated once, though both refreshes pass the family check; `NoLockCycle`: no two transactions wait for each other's rows |
| android | 3 calls of refresh, sign-in, sign-out, recovery | `RotationIsInvisible`: a device that stores the pair before it uses it never revokes its own family |
| usage | 2 reservations, 2 callers, quota 1, 3 calls | `NotOversubscribed`, `LedgerAgrees`, and `ReservationSettledOnce` under repeated settlements |
| payments | 2 orders of one scope, 2 handlers, 1 failure; one order is paid under two ids, one of which also comes with a cancellation | `SettledOnce`: an event settles once, a settlement is in the inbox and has its invoice, a settled order is never open again; `SubscriptionFollows` (two orders of one scope settle at once) |
| device | 2 operations, batches of 1, 2 requests at once, 2 deciders, 1 fault | `DeletedIsAdmitted`: an operation leaves the device only when the server has it, or behind a full batch; `ConflictStops`, `DecidedOnce` |
| runtime | 2 workers, 3 runtimes, 2 restarts | `SignOutIsQuiet`: once the sign-out has waited nothing is sent, unless under the guard of another runtime |
| admission | 2 jobs, batch 2, revisions to 4 | `NothingForgotten` |
| upload | 2 handlers, 2 parts, 2 uploads, 1 fault | `PublishedIsExact`, `ToldIsTrue` |
| audit | 3 writers, 2 ids, 2 keys, 2 contents | `LedgerIsSafe`: chain, unique ids and keys, seal roots, everything a caller was told is recorded |

### `dashboards`

| Scenario | Instance | Property |
|---|---|---|
| approvals | 2 requests, 2 versions, 3 members, quorum 2, no self-approval | `Quorum`, `NeverReopened` |
| publication | 2 requests, versions, callers and keys, 1 member, 1 worker, 1 fault | `HistoryIsLinear`, `OneSnapshotPerKey`, `DoneMeansWithdrawn` |
| etl | 3 requests, one of them automatic, 2 keys, lease 1, clock to 1 | `OneExecution`, `AnswersAgree`, `AcceptedIsRecorded` |
| prompt | 2 processes, 2 workers, 2 inputs | `LatestWins`, `KeysMatch` |
| late | 1 process that also reads, late workers | `SnapshotsMoveForward` |
| notifications | 3 events committed in any order, 1 recipient, 2 workers, pages and windows of 2 | `NothingSkipped`: a checkpoint passes no event that was not projected, but those that were overtaken; `CountsMatch`: no event counts twice, each counts when they commit in order |
| stream | 2 streams, 3 events, pages of 2, 2 breaks | `RevocationStops`, `NoOrphanTimer` |
| authoring | 3 requests, 2 at a time, 5 commands, 1 proposal, 2 widgets, 1 fault | `OnceAccepted`, `OneLine`, `RestorableAsRemoved` |
| agent | 3 calls, 2 inputs, 2 values, 1 fault | `PerformedOnce`, `CommittedIsTrue` |
| turns, context | a turn and its repetition beside a change of context; 3 changes under 2 keys, 2 datasets | `TranscriptIsWhole`, `ContextIsRecorded` |

### `progress`

| Scenario | Instance | Property |
|---|---|---|
| notifications | 3 events in 2 workspaces, committed in any order, a window of 2 and pages of 1, a workspace that always fails, a run that fails | `EveryEventProjected`: an event whose workspace stays in view is projected (a checkpoint passes it, if it was overtaken) |
| payments | 2 orders of one scope, each paid, one of them also cancelled; 2 handlers, 1 failure | `EveryPaymentSettles`: a payment settles its order, unless that was cancelled or has failed before, or the id is taken |
| stream | 2 streams, pages of 1, 3 events, 1 break | `ClientCatchesUp`: a client that may read learns of every event, itself or by the word to reconcile |
| device | 2 operations, batches of 1, a lost request or answer, or a death | `EveryOperationArrives`: an operation comes to the server, unless it was behind a full batch |
| refusing | the same with a late request or a failing database | the same, or the operation is given up |
| stale | the same, of a principal whose epoch is not that of the workspace | the same: it is given up |
| runtimes | 2 workers, 3 runtimes, 1 restart | `SignOutEnds` |
| publication | 1 caller, 2 workers, a lease that ends | `EveryWithdrawalHappens` |

The constants for pages, batches and windows are smaller than what there is, so that a page is
left behind, a batch is full and a window is passed. Where the code gives up, the property names the end: an
event out of view, a cancelled order, an operation behind a full batch, a refused operation. Section 7 lists these ends.

Why these are enough: every race in this code is between two or three actors on
one row or one key, and each instance has that many; one fault is a crash
or a lost answer between any two steps, and what follows it (a retry, a takeover)
meets the other actor in the same instance. A second fault returns to a state
the first one already reaches. Where three are needed to tell a wrong answer from a
stale one (three calls on a session, three refreshes of two inputs, three writers of
a chain) the instance has three. Each property still fails under a
small mutation of the code, so the case it is about does happen within the bounds.

## 5. Fairness

`ExpiredIsTakenOver` and the two violated liveness properties use `FairSpec` of
`WorkerLease`:

* `SF(Call(w, "assign", "NONE"))` and `WF(NextRound(w))`: `serve` polls for ever,
  and a round ends (retries, timeouts and leases are bounded). Strong, because
  another request may hold the slot the bound grants for a while.
* `WF(Handler(i))`: the API handles the requests it received.
* `SF` of an assignment's authorization and transaction: a handler may fail
  (`Drop`), but not every time.

Nothing is assumed there of the clock, of claims and results, of promotion or of
rotation.

`progress` assumes of the other components (`MCProgress!Fairness`):

* weak fairness of workers that run on a timer (`NotificationOutbox`,
  `DashboardPublication`), of handlers under way (`Payments`), of a stream's reads and timers, of WorkManager's runs and
  the server's answers to it, and of a client that reconnects;
* strong fairness of a provider's repeated webhook until it is answered, since a
  handler may be busy, and of a coroutine's wait for the mutex and for the runs
  in flight, since the mutex is fair and others hold it in between.

A behaviour of `MCProgress` follows one scenario, so the conditions of all of them are gathered by number: `Goes(i)`
is the *i*-th weakly fair action of the scenario that is followed, `Recurs(i)` the *i*-th strongly fair
one. For each scenario this is the `FairSpec` of its component.

Nothing is promised of the ready queue: no production code calls `promote`
(`ReadyJobQueueService` is only registered in `app.module.ts` and `jra.module.ts`).

## 6. Proofs

### 6.1 The worker protocol

For any sets of jobs, workers and slots and any limits that satisfy the four named
assumptions of `WorkerLease` (`JobsAssumption`, `LimitsAssumption`,
`BoundsAssumption`, `JobDataAssumption`), TLAPS proves:

| Theorem | Module | Says |
|---|---|---|
| `TypeCorrect` | `WorkerLeaseProofs` | `Spec => []TypeOK` |
| `JobAndAttemptsAgree` | `WorkerLeaseProofs` | `Spec => []JobMatchesAttempts` |
| `SettledWithResult` | `WorkerLeaseProofs` | `Spec => []ResultSettledOnce` |
| `FinishedIsFinal` | `WorkerLeaseProofs` | `Spec => FinishedStaysFinished` |
| `LeasesEnd` | `WorkerLeaseProofs` | `Spec => []LeaseEndsWithDeadline` |
| `TransitionsAreLogged` | `WorkerLeaseProofs` | `Spec => []LogIsPath` |
| `HeldByOne` | `WorkerLeaseProofs` | `Spec => []LeaseExclusion` |
| `AcceptedIsDurable` | `WorkerLeaseProofs` | `Spec => []AcknowledgedIsDurable` |
| `PreparedKeepsItsLease` | `WorkerLeaseProofs` | `Spec => []PreparedStaysBound` |
| `ProtocolImplementsContract` | `WorkerLeaseProofs` | `Spec => ImplementsContract` |

**Types.** `TypeOK` is not inductive: `HeartbeatTx` and the other transactions write
the row of `req[i].at`, which is an attempt only because authorization looked it up.
`AuthorizedNamesAttempt` says so, and `Typed == TypeOK /\ AuthorizedNamesAttempt` is
inductive. One lemma per group of actions; `Answer`, which every handler ends
with, has a lemma of its own.

**Safety.** Each of `JobMatchesAttempts`, `ResultSettledOnce` and
`LeaseEndsWithDeadline` is inductive together with `Typed`, so each theorem is one
step lemma (`StoryNext`, `SettledNext`, `LeasesNext`) and `AlwaysTyped`. `BusySteps`
reduces a step to the eight actions that write rows; `QuietSteps` disposes of the
others. What carries the arguments: every transaction of a worker re-checks
`HoldsLease`, so its attempt is the newest one, is active, and its job is not
finished (`HolderType`); `NewestMoves` says what a write to such an attempt, alone
or with its job, preserves; `SettledByClosing` that closing a job that is not
finished leaves exactly one result; `Leased` is what assign writes, whatever it
answers. `FinishedIsFinal` is an action property and follows from the same fact: no
transaction is permitted on an attempt of a finished job.

`LogIsPath` is not inductive: of a job without log rows it says nothing that lets
the first row start at `CREATED`. `Paths` adds that such a job is still `CREATED`.
`PathGrows` is the step for one move and one row; promotion and assignment use it
once, `PathCloses` (finalize, complete) twice when the job passes through `RUNNING`.

**Holders.** What a worker believes depends on the rows only through the requests
it has sent. `Links` relates the two: an open request is the one its process
waits for, with its attempt, revision, operation and outcome; a worker has at
most one open request; a heartbeat thread exists only while it works.
`ProcessSteps`, `RequestSteps`, `RowSteps` and `RowsGrow` say once what a step may
do to a process, to a request, to a row. On them rest three invariants:

* `HolderInvariant` adds `NotAhead` (a time read by a handler is not ahead of the
  clock), that a worker was told only of leases that are in the rows, and that an attempt
  which was overtaken had expired before: together they give `LeaseExclusion`.
* For `AcknowledgedIsDurable`, that an answer of acceptance names a stored
  result (`Stored`), with `ResultSettledOnce` and the finality of finished jobs (`FinishedNext`).
* For `PreparedStaysBound`, that a copy of a heartbeat given up on carries a
  revision that is gone (`BeatsAreOld`), so that after `thread.join()` nothing changes the
  prepared attempt's row (`InStep`, `SeenAsTold`, `PreparedRow`).

**Contract.** `ProtocolInvariant` puts `Typed`, `JobMatchesAttempts` and
`ResultSettledOnce` together with `NotAhead`: a time read by a handler is not
ahead of the clock. The contract hands a job over only when its lease ended
before `now`, the code compares with a time read earlier; `NotAhead` is what
carries one to the other. One lemma per kind of step maps it to a step of the
contract or to a stutter.

### 6.2 The other components

`Behaviours` is that of `Foundation` or of `Dashboards`: any component may be the one that moves, and the
constants are any that satisfy the named assumptions (`AdmissionAssumption`,
`SessionAssumption`, `UsageAssumption`, `PaymentAssumption`, `RuntimeAssumption`, `DeviceAssumption`,
`UploadAssumption`, `LedgerAssumption`;
`ApprovalAssumption`, `PublicationAssumption`, `EtlAssumption`, `RefreshAssumption`, `NotificationAssumption`,
`StreamAssumption`, `AuthoringAssumption`, `AgentAssumption`, `ConversationAssumption`). These say that bounds are
natural numbers, that the value for *nothing* is not also a row, and of which kinds commands
are; TLC evaluates them for its instances. Three are more than that:

* `UsageAssumption`: a limit is not negative and units are positive, as `positiveInteger` of
  `packages/domain/src/entitlements/v1.ts:374` and the repository
  (`prisma-entitlement-repository.adapter.ts:239`) demand.
* `LedgerAssumption`, and the parts of `RefreshAssumption` and `ConversationAssumption` about finite
  sets: in a behaviour the calls of the audit ledger, the runs of refreshes, and turns and changes of
  context are finitely many, however many they are. Only the types need it, as they bound how much there is by the number of calls.
* `PublicationFirst \in PublicationVersions`: the version a board begins with is one of its versions.

| Theorem | Says, for `Behaviours` |
|---|---|
| `SessionsHold` | `[]SessionsAreSafe`: tokens, sessions and locks with each of the three clients |
| `EventsAreSettledOnce` | `[]SettlementIsSafe`: whatever ids the webhooks of an order have |
| `QuotasHold` | `[]QuotaHolds`: no scope oversubscribed, ledger and reservations agree |
| `QueuesAreSafe` | `[]QueueIsSafe`, with batches and queues of any size |
| `SettledIsForGood` | `SettledForGood`: settlements and decisions, with batches of any size |
| `SignedOutIsQuiet` | `[]SignOutIsQuiet`, with any number of runtimes |
| `UploadsAreSafe` | `[]UploadIsSafe` |
| `LedgersAreSafe` | `[]LedgerIsSafe` |
| `PublicationsAreSafe` | `[]PublicationIsSafe` |
| `AcceptancesAreSafe` | `[]AcceptanceIsSafe` |
| `RefreshesAreSafe`, `SnapshotsNeverGoBack` | `[]RefreshIsSafe`; `SnapshotsMoveForward` |
| `ProjectionsAreSafe` | `[]ProjectionIsSafe`, whatever the order in which events commit |
| `StreamsAreSafe` | `[]StreamIsSafe` |
| `AuthoringsAreSafe` | `[]AuthoringIsSafe` |
| `CommandsAreSafe` | `[]CommandIsSafe` |
| `ConversationsAreSafe` | `[]ConversationIsSafe` |
| `TypesHold` (twice) | `[]TypesOK` of `Foundation`, and of `Dashboards`: the types of all components |

Those down to `LedgersAreSafe` are in `FoundationProofs` and `FoundationStorageProofs` (uploads, audit
log, sessions, sign-out, types), the others in `DashboardsProofs`. Beside them,
of one component:

| Theorem | Module | Says |
|---|---|---|
| `AdmissionTypes`, `NothingIsForgotten`, `JobsArePassedOnOnce` | `FoundationProofs` | types; job, request and record exist together; a delivery happens once |
| `ApprovalsInvariant`, `RejectionsAreFinal`, `ClosedForGood`, `QuorumIsReached` | `DashboardsProofs` | types; a rejection leaves no approval; `NeverReopened`; `Quorum` if `Repeats = FALSE` |
| `DeviceInvariant`, `DeletedIsInTheServer`, `Decided` | `FoundationProofs` | `DeviceInv`, `DeletedIsAdmitted` and `DecidedOnce`, with batches of any size |
| `RuntimesAreMarked` | `FoundationStorageProofs` | `RuntimeInv`, for any number of runtimes |
| `UsageIsCounted`, `QuotaIsKept`, `ReservationsAreSettledOnce`, `UsageTypeOK` | `UsageLedgerProofs` | `UsageInv`; `NotOversubscribed` and `LedgerAgrees`; `ReservationSettledOnce`; types |
| `TokensAreUsedOnce` | `SessionRefreshProofs` | `SingleUse` and `NoLockCycle`, for any client and any kinds of calls |
| `AccessTokensEnd` | `SessionRefreshProofs` | `AccessEndsWithSession`, without recoveries |
| `RotationsAreInvisible` | `SessionRefreshProofs` | `RotationIsInvisible`, for a client that stores first, while answers arrive |
| `ConversationsAreWhole`, `ConversationTypes` | `ConversationProofs` | `TranscriptIsWhole` and `ContextIsRecorded`; types, of finitely many calls |
| `NeverBack`, `InputsAreShown`, `RefreshTypes` | `DashboardRefreshProofs` | `SnapshotsMoveForward`; `LatestWins` and `KeysMatch` when no run is late; types, of finitely many runs |

A theorem about `Behaviours` has three parts: the inductive invariant of the component holds at first, every step
of the component keeps it (one lemma per action or group of actions), and a step of
`Behaviours` is one of the component or leaves its variables alone (a lemma whose name ends in
`Behaves` or `Step`). A component that is instantiated more than once is proved in a
module of its own, and its lemmas are cited through the instances. The invariants, and why the
properties are not inductive by themselves:

* **Admission** (`AdmissionInv`). `NothingForgotten` needs that a `CREATED` job is exactly as
  admission wrote it (`CreatedIsNew`): no transition leads back to `CREATED`.
* **Approvals** (`ApprovalsInv`) adds that decisions are a finite set with one record per id
  (`OneEach`), each by an eligible member (`Entitled`), and that no decision follows a rejection
  (`RejectionIsFinal`). `QuorumIsReached` has a further invariant, `Counted`, of requests that are
  approved, and assumes that no decision is sent twice: run `approvals_quorum` shows
  that it must. `ClosedForGood` is an action property and has no such assumption.
* **Sessions** (`SessionInv`). A refresh token is used once because rotation and revocation find it `ACTIVE` under
  a row lock: `RowsAgree` says that a family has one active refresh token at most and what a pair was
  made from is used, `Exclusive` that a row has one holder, and `CallKnows` what each step of
  a call may rely on of its token, its session and its locks. `SweepKnows` is the part of a
  call that ends sessions: the session of each refresh token it holds is held or will be
  (`Covered`), and what a statement has found belongs to it (`Found`). A recovery sweeps all sessions
  in one transaction; that its list of statements has this order
  (`Flattening`) is proved of the fold `FlattenSeq` by a least counterexample.
  * `NoLockCycle`: calls other than recoveries lock refresh token, session, access token in
    this order (`LocksInOrder`, `Rank`).
  * `AccessInv`: the access tokens of a session are looked for after the session was locked
    (`FindsAccess`), so that no rotation can add one. A recovery's statements come in another order, and with
    it the property fails (section 7): hence the hypothesis of `AccessTokensEnd`.
  * `MobileInv`: the device makes one call at a time and the stored refresh token is active
    whenever none is under way; each step of a call knows whether it still is (`MobileKnows`).
* **Usage** (`UsageInv`). A caller reads the entries of a scope, decides by their sum, and inserts
  its own under the next sequence number. Because a scope is numbered without a gap
  (`UsageNumbered`), a number that is free tells that what was read is all there is
  (`UsageReadsAll`), so that the sum compared with the limit is that of the ledger, in spite of READ COMMITTED; a reservation's
  entries are those its row tells of (`UsageStory`), and only one that is open is settled (`UsageReplays`).
  Sums are a fold, which takes elements in an order of its own. `IterationIsSum` says that
  whatever the order it is the same function `Sums` of subsets, which one may take any element from; that
  there is one (`SumsExist`) is shown by a least counterexample, not by induction over data.
* **Payments** (`PayInv`): no two handlers are in the transaction of one event id, and the inbox row of an id
  that is being received is not there yet (`PayRow`); so the settlement a handler is going to commit is of an event
  that has none (`PaySnapshots`). A handler that settles has read the order as `PENDING`, perhaps before
  another one settled it under another id: nothing is claimed of the number of settlements of an order.
* **Device** (`DeviceInv`): what the device counts as sent has a row in the server (`DeviceSent`), the unique index
  admits one uncommitted insert (`DeviceInserts`), a decision follows the revision it has read
  (`DeviceDecision`). A run that settles as accepted has sent what is in the batch, and the rest of its snapshot
  becomes `overlooked`: Android takes 100 operations at a time and then
  deletes all it has read (section 7).
* **Sign-out** (`RuntimeInv`) adds that nothing runs before WorkManager has a factory
  (`RuntimeRuns`), and that who waits has set the mark and waits in his own guard
  (`RuntimeMarked`): so when the wait ends nothing runs under that guard, and what starts later finds the mark. What
  runs under the guard of another runtime is not waited for (section 7).
* **Uploads** (`UploadInv`): what each request relies on (`UploadCall`: parts that were recorded stay, nothing is
  published before the copy and the multipart upload is gone), what the row owes to the object store
  (`UploadState`), and that one request at a time checks the digest or copies.
* **Audit** (`LedgerInv`). `LedgerChain` says that each event follows the one with the number before
  it; the unique keys make an insertion extend it (`LedgerInsertExtends`), `LedgerInHand` says what a
  call that has read may still insert, `LedgerSealed` what a seal covers.
* **Publication** (`PublicationInv`): what a caller has read (`PublicationCall`) is the past of the line
  (`PublicationLine`), and an outbox row that is done has no approval of its version left
  (`PublicationOutbox`), whatever worker holds it (`PublicationTask`).
* **ETL** (`EtlInv`): the unique index admits one command row of a revision, and a completed one is the only
  one, with its data set and its audit record (`EtlRows`); each request knows how far it has come
  (`EtlCall`), and a version that was told is committed (`EtlTold`).
* **Refreshes** (`RefreshInv`): each trigger is in the refresh its key names (`KeysMatch`), and no refresh but that of
  the newest trigger is open (`OpenIsLatest`), which keeps those that were overtaken from
  committing. `SnapshotsMoveForward` rests on the rows alone (`RefreshRows`): the commit
  compares times, whatever workers are late.
* **Notifications** (`NotificationInv`): a checkpoint passes only what was
  projected or `overtaken` (`NotificationBehind`), the same holds of what a page leaves out before its last event
  (`NotificationPage`), and a recipient a run is done with has the receipt (`NotificationRun`). What was read never
  counts more than there are receipts, and as long as the next one has none and the workspace's events were committed in
  order, it is the stored count (`NotificationSeen`): so two runs that overlap count an event once.
* **Streams** (`StreamInv`): a timer is one of a stream that is open and live (`StreamRow`), one stream is open at a
  time, and after the permission has ended no stream may send a second event.
* **Drafts** (`AuthoringInv`): the draft is the newest version and each follows one that is there (`AuthoringLine`),
  a command and its version name each other
  (`AuthoringApplied`), a version that accepts a proposal follows the version the proposal was made for, so
  that no two do (`AuthoringAccepted`), and each call knows what it has read and is going to write
  (`AuthoringCall`, `AuthoringMade`, `AuthoringTarget`).
* **Agent commands** (`AgentInv`). For each call `AgentSound`
  says what its next step may rely on: that the row is there (`AgentRowed`), that
  the tool has not run (`AgentUnperformed`), that its result is the committed one
  (`AgentTruthful`); a lease that ends only moves the command to reconciliation, never back to execution.
* **Conversations** (`ConversationInv`): messages and context events each have one numbering (`TranscriptIsWhole`),
  what a call has read is a past of it (`TurnKnows`), an answer is appended after its question (`AppendsInTurn`) and stored
  before it is given (`Stored`). `ContextIsRecorded` says of the newest event of a data set
  what the context holds; `RecordedAs` restates it so that one more event can be added.

### 6.3 Only model-checked

* Every liveness property: liveness under fairness and `ENABLED` are out of the prover's reach.
* That the violated properties of section 7 are violated: a counterexample is one behaviour, which TLC shows.

Every invariant and every action property of a passing run is stated by a theorem. Where a theorem has a hypothesis
(`Repeats = FALSE` for `Quorum`, no recovery for `AccessEndsWithSession`, no
late runs for `RefreshIsSafe`), the property fails without it, and section 7 tells how.

No module of the project declares a RECURSIVE operator.

## 7. Findings

Five statements of the repository that the code does not keep, each shown by a run
whose counterexample is a behaviour of the code:

* **A poison job is never closed** (`poison`). *"Poison jobs enter a controlled
  failed state; they do not loop indefinitely."* (`docs/architecture/processing-and-job-system.md:149`)
  `assign` returns when the newest attempt is number `maxAttempts`
  (`prisma-worker-adapter.ts:1323`); nothing else closes such a job. It stays
  `DISPATCHED` and its usage reserved.
* **It starves the queue** (`starvation`). The comment at
  `prisma-worker-adapter.ts:1265` promises to walk the scan *"until we find the first
  current retryable lease"* so as not *"to starve newer work"*. The scan stops at an
  exhausted attempt as well, and `assign` gives nothing to anybody: every
  queued job of the scope waits for ever.
* **A failed job keeps its usage reserved** (`usage`). *"A transaction stores the
  result, releases or commits usage, changes state, and emits events."*
  (`processing-and-job-system.md:75`) `complete` does not touch the binding.
* **A repeated finalize may be refused** (`retry`). JRA-031 (`docs/specs/foundation/jobs-recipes-approvals.md:127`):
  *"Identical retries shall return the stored completion."* When the first copy
  commits between the second's replay lookup and its authorization, the second is
  refused with 409 (`worker-boundary.ts:1442`), and the worker stops with an error
  although its result was accepted.
* **One member's approval counts twice** (`approvals_quorum`). `decide` adds the approval
  to the stored ones before `saveDecision` recognises a repetition
  (`approval.service.ts:122`): with a minimum of two, one member's approval sent twice under
  one decision id approves the request. `jobs-recipes-approvals.md:199` gives a policy
  its *"minimumApprovals"*, and `:354` lists *"quorum"* and *"concurrent decisions"* among what the tests cover.

### Disagreements met on the way

These have no run of their own. The first list was seen by TLC, with a stronger
property or a constant set otherwise; they are why some properties and
constants have the form they have.

* *Approvals, publication*: an approval may expire between the read and the commit of a
  publication; a replaced version can be published again under its old
  approval while the withdrawal is pending; a delayed withdrawal also cancels a newer request
  for that version.
* *Drafts*: a proposal may be `ACCEPTED` without its version
  (`dashboard-proposal-repository.port.ts:30`).
* *ETL*: `markBlocked` of a slow process overwrites an accepted proposal; a
  released revision is not free again; the audit record is written before the
  acceptance (AUD-002, `audit-ledger.md:96`).
* *Refreshes*: no transition of a refresh looks at the state it starts from, so an
  expiry or recovery that comes late (`Late`) overtakes a commit; a process that read the
  database slowly puts an old snapshot over a newer one in its memory.
* *Notifications*: an event committed after a later one of its workspace may be skipped when a
  checkpoint has passed it, and two workers of which one met it and one did not may both count from the same row, so
  that an event is missing from the bundle (`NothingSkipped` and `CountsMatch` except it); the scan for pending workspaces
  reads a fixed number of the oldest events, projected or not, so later workspaces may never
  come into view, and a workspace that always fails keeps those behind it from being projected (`InView`).
* *Stream*: a client more than a page behind is told to reconcile, by a message without an id; it then
  connects with its old id and is told the same again.
* *Sessions*: on the desktop two refreshes at once are taken for reuse; tokens
  issued by an overlapping refresh stay active after the end of the session;
  recovery misses sessions opened while it runs.
* *Payments*: two payments of one order under references of their own, of which both handlers read
  `PENDING` (`payos-payment.service.ts:392`), settle it twice, by two snapshots. `SettledOnce` is
  therefore about events. A paid order can fall back to cancelled. An order that was cancelled or has
  failed is never settled by a later payment (`nextStatus`, `:203`), though it is answered as processed. A payment that was
  rejected for its amount or its order occupies its id, so that a correct repetition is refused (`:336`); the same befalls a
  payment whose `reference` is the one of another event (`Refuses`).
* *Usage*: a settlement may fall between the summary's two reads; the limit is compared
  scope by scope, so the workspaces of an organization together may pass it.
* *Device*: a run with more than 100 operations deletes those it has not sent (`overlooked`); a
  failing database is answered as `IMMUTABLE_RECORD` with 200, and the device gives the operation up;
  an operation may be given up though its late request still admits it; when the
  epochs of workspace and principal differ, every operation is given up unsent (`MayRefuse`).
* *Sign-out*: after a second runtime was built, WorkManager keeps the old guard, whose workers the sign-out does
  not wait for (`factory /= signer` in `SignOutIsQuiet`);
  `AndroidRuntime.signIn` has no caller, so the mark is never lifted; a
  death between clearing the session and storing the mark leaves the scope open.
* *Admission*: a key repeated after the promotion is answered with a conflict; a
  batch whose oldest records cannot be promoted is blocked.
* *Uploads*: a session aborted or expired while it finalizes can never be read
  again (`prisma-artifact-upload-repository.adapter.ts:173`); `abort` calls the store before its save, and a
  failed save leaves an open session without an upload; a crash between completion and
  copy leaves a finalization no retry ends (IAE-023, `inbox-artifacts-evidence.md:114`).
* *Agent*: a command can be closed as failed though its effect happens later
  (a slow owner is not fenced); nothing closes `RECONCILIATION_REQUIRED`.
* *Conversation*: a repeated turn is told a narrative that is not the stored one,
  since the fingerprint covers a fresh message id.

Read in the code, not run: an append with a known identity and different content
is answered with the existing event, where AUD-007 (`audit-ledger.md:101`) asks for
quarantine; a seal always covers all events from the first, where AUD-014 (`:108`) speaks of
closed ranges; the re-read after a unique-key error in an attestation runs in
an aborted transaction; a turn's tool calls use a correlation id that the production
audit port refuses; with two stale datasets only the first is advanced; the sweeper for
expired reservations of the billing document (`:259`) does not exist; the Android upload client never
resumes a session although its repository expects it.

## 8. What is not modelled

`PROJECT.json` lists every component with its status. The models cover about 5 % of
the implementation's lines: most of the rest is calculation without state (the engine, product
modules, parsers), user interface, generated contracts, scripts, and features
that read and write one record in one transaction under an optimistic revision, where a model
would repeat the guard. Durable receipt extraction (a command with a lease, like
`EtlAcceptance`; usage is charged and success audited before `complete` may be
refused) is the largest protocol left out.

Within the modelled components: validation of payloads, scopes and hashes; object grants
and the workload envelope's content; the outbox rows of JRA (written in the
same transactions, read by nobody in this system); DSO pages, push, packages and grants;
the in-memory variants of repositories that production replaces.

Hazards without a property, beside those in `PROJECT.json`:

* the workload is fetched with the claim's revision while heartbeats change it
  (`worker_client.py:1484`): the read-only request is not modelled, a failure is a `NextRound`;
* `assign` commits although the envelope cannot be made
  (`prisma-worker-adapter.ts:1428`), and `claim` starts an attempt whose input
  grant then fails (`worker-boundary.ts:1013`): both end as an attempt nobody
  works on, which `Drop` and `NextRound` also produce;
* the retry of a heartbeat whose answer was lost is refused, and the worker gives up a
  lease it holds (`worker_client.py:1134`): modelled, but no property promises otherwise;
* `finalizeInTransaction` returns `STALE_ATTEMPT` after it has updated
  (`prisma-worker-adapter.ts:1939`), a branch that Serializable isolation closes;
* a job that goes from `FAILED` back to `QUEUED` keeps `finishedAt` (`jobs/v1.ts:281`);
* records that cannot be promoted hold the oldest places of a batch;
* the scan for pending workspaces has a fixed window of oldest events (`notification-outbox.consumer.ts:189`):
  `EveryEventProjected` is about what stays in view, and promises nothing of the rest;
* an expired settlement binding makes every finalize roll back with 503
  (`jra-worker-result-effects.composition.ts:96`): the worker repeats it and the job ends in `poison`.

## 9. What could come next

1. Receipt extraction, as a module beside `EtlAcceptance`; a common abstract
   specification of a leased command (claim, execute once, answer alike) that
   `EtlAcceptance`, `AgentCommand` and receipts refine.
2. The workload request and the object grants in `WorkerLease`.
3. `UsageLedger` composed with `JobAdmission` and with the finalization of `WorkerLease`.
4. The invariants of `FoundationProofs` and `DashboardsProofs` for the components composed, once some
   of them read each other's variables: `UsageInv` and `AdmissionInv` are the halves of item 3.
