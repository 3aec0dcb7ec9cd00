# Mastarr: TLA+ specification of its durable state machines

Mastarr reconciles media libraries: it observes storage roots and external
services (Sonarr/Radarr, qBittorrent, NZBGet, Jellyfin, Seerr), plans changes,
has them approved, and executes them as *durable actions*: rows of a SQLite
journal that survive crashes, are executed by workers under leases, and are
reconciled by reading back whenever it is uncertain whether a mutation was made.

This directory models the five parts in which concurrency, failure and time meet
effects that cannot be undone:

- the action executor (`internal/execution/execution.go` with its statements in
  `internal/storage/query.sql`);
- the scan scheduler (`internal/scanning/scanning.go`), whose evidence decides
  what the system believes to be absent;
- workflows and the reviews that approve their steps
  (`internal/workflows/workflows.go`, `internal/reviews/reviews.go`), composed
  with the life of the actions they queue;
- the recoverable trash and its janitor (`internal/trash/trash.go` with the
  triggers of `migrations/`);
- the idempotency of the HTTP API around configuration changes
  (`internal/transport/`, `cmd/mastarr/persistence.go`).

At this commit only the last one is assembled into the API process; the others
are driven by their tests, so their callers are modelled as the API allows.

## 1. Inventory

| component | state | operations | interacts with | what makes it correct |
|---|---|---|---|---|
| action state machines (`domain/actions.go`) | none (tables) | `CanTransition`, `Terminal` | executor, workflows | no way out of a terminal state |
| executor (`execution/execution.go`) | `action_runs`, `action_attempts`, `action_effects`; in memory: reservation map, barrier registry | `Recover`, `RunOnce`, `RunAction`, cancellation, deadlines | journal, handlers, callers | a mutation at most once; one owner; nothing hidden; everything ends |
| action handlers (`actions/*.go`) | none | `Observe`, `Dispatch`, `Reconcile` | adapters, filesystem, executor | answers are truthful, dispatch respects its context |
| workflows and reviews (`workflows/`, `reviews/`) | `workflow_runs`, `workflow_steps`, decisions | `Create`, `Sync`, `ApproveStep`, `AddStep`, `Cancel` | planning, action rows | steps run in order, nothing starts after closing, one action per approval |
| planning (`planning/`) | plan revisions | create, revise, digest | workflows, reviews | an approval binds exactly one revision |
| scanning (`scanning/`) | snapshot of roots and scans; in memory: running map | `Start`, `Stop`, `ConfigureRoots`, `Trigger`, `Cancel`, `Tick`, runner progress and finish | runners, store | one scan per root; no absence claim from partial or stale evidence; no lost trigger |
| discovery, reconciliation (`discovery/`, `reconciliation/`) | none (pure) | classify, derive | scanning, planning | agree with a reference definition |
| trash and janitor (`trash/`) | `trash_entries`, `trash_items`, `janitor_records` | `Trash`, `Restore`, `Purge`, `Tick`, `Recover`, `ReconcileTrash`, `RetryTrash` | filesystem, download clients | a file is in exactly one place, a purge needs expiry or approval |
| filesystem organize/placement (`filesystem/`) | files on disk | copy, link, move, copy-verify-delete, delete, reconcile | handlers, trash | the source goes only after a verified copy |
| configuration, credentials (`configuration/`, `credentials/`) | revisions, encrypted values | create, patch, retire, reload | transport, scanning | optimistic concurrency on revisions |
| descriptors, backup (`descriptors/`, `backup/`) | retained content, snapshots | capture, retain, publish | actions, storage | published content is complete |
| transport (`transport/`) | idempotency records; in memory: pending keys | HTTP handlers, idempotent replay and recovery | all services | one effect per idempotency key |
| adapters (`adapters/`), assembly (`cmd/`, `bootstrap/`) | connections | HTTP clients, wiring | external services | conversion; not modelled |

**Hard behaviours.** Several goroutines (and several `Executor` values) of the
process work on the same rows; a lease may run out while its handler is still
sending; every verdict is written in several transactions and each may fail; a
crash forgets all memory at any point; a cancellation or deadline may arrive at
any point; a handler that ignores its context may write after the executor has
given up on it. In the scheduler, runners report and return while their root is
reconfigured, retired, triggered or cancelled, and while Stop waits for them. A
workflow is approved, appended to and cancelled by callers that read it before
their transaction, while its actions end underneath. The trash moves payload
between transactions whose leases another goroutine may recover. A client of the
API that lost its answer sends the request again.
`PROJECT.json` lists these as hazards with their lines.

## 2. Plan

Done: `ActionStates`, `ActionLife`, `Executor` with `ExecutorProofs`,
`ExecutorLifeProofs`, `ExecutorBarrierProofs` and `ExecutorCountProofs` (each extends
the one before), `Scans` with `ScansProofs`, `Workflows` with
`WorkflowsProofs`, `Idempotency` with `IdempotencyProofs`, `Trash` with
`TrashProofs`, and an MC module where an instance needs definitions (`MCExecutor`,
`MCScans`, `MCWorkflows`, `MCIdempotency`; `Trash` is instantiated by its cfg alone).

How they compose: `Executor`, `Workflows` and `ActionLife` share the tables of
`ActionStates`. `ActionLife` is the abstract specification of one action, seen
from outside the executor; `Executor` implements it (the property
`ImplementsActionLife` of the run `stops`), and `Workflows` lets its actions move
by the moves of `ActionLife` and by nothing else. So what is proved of workflows
rests on a contract that is proved of the executor.

Next, in this order:

1. `Configuration`: layering of YAML and API resources, tombstones, rotation of
   generations.
2. `Descriptors` and `Backup`: capture, retention and publication over files that
   may be left half-written.
3. Pure operators: the overlap relation of reservation keys, the retry delay,
   discovery and reconciliation tables, checked against reference definitions.

## 3. The models

### The executor (`Executor`)

**State**

| variable | code |
|---|---|
| `run[a]` | the row of `action_runs`: `state`, `version`, claim (`by`, `expired`), `cancel` (cancellation_requested_at), `reserved` (reservation keys), `unresolved` (unresolved_count), `marker` (the returned-dispatch marker in the outcome) |
| `attempts[a]` | `action_attempts` in order: phase, state, and the durable barrier intent |
| `effect[a]` | `action_effects`: the action's one target, its state and the attempt it is bound to |
| `overdue` | actions with `deadline_at <= now` |
| `world[a]` | **external**: requests in flight and applied upstream; `foreign`, the desired state was brought about by somebody else |
| `th[t]` | a goroutine inside `claimAndProcess`: program point, action, claim fence, attempt, verdict |
| `local[e]` | `Executor.reservations` |
| `fallback` | `dispatchBarrierFallbackRegistry` |
| `up` | startup `Recover` has completed |
| `spent` | how much of each fault bound is used |

**Actions.**

A goroutine goes through `claimAndProcess`: `Pick`/`PickById` (the lists of
`RunOnce`, `RunAction`), `HoldUnhandled` or `Claim`, `AcquireReservations`,
`Reserve`/`ReserveRefused`, then either

- *observe and dispatch*: `ObserveBegin`, `ObserveReturn`, `PrepareDispatch`,
  `BeforeDispatch` (or `BeforeDispatchCancelled`), `DispatchSend`*,
  `DispatchReturn`, or
- *reconcile*: `ReconcileFind`, `ReconcileRefresh`, `ReconcileActive`,
  `DeferActiveDispatch`, `ReconcileReuse`/`ReconcileBegin`, `ReconcileReturn`,

and writes its verdict with `CloseAttempt`, `RecordEffects`/`EffectsRefused` and
`FinalOwned`/`FinalNotStopped`/`FinalFree`, ending in `Finish`. A handler that
returned without a safe answer releases the dispatch barrier in three
transactions (`ReleaseIntent`, `ReleaseMark`, `ReleaseResolve`); when one fails,
`ReleaseFailed` turns the goroutine into the background retrier (`BarrierRetry`,
`BarrierGiveUp`). `FenceLost` and `JournalFails` are the two ways any of these
transactions ends without writing. The environment adds `Crash`, `Recover`,
`RecoverExpired`, `FinalizeCancelled`, `FinalizeDeadline`,
`RequestCancellation`, `CancelLinked` (a closing workflow), `DeadlinePasses`,
`LeaseExpires`, and upstream `Land`, `Drop` and `Establish` (a user, or another
client, brings about what the action wants; for the actions in the constant
`Foreign`).

**Abstractions**

- SQLite is opened with one connection, so one transaction is one step, and
  everything between two transactions interleaves.
- A lease is who holds it and whether it has run out. `RenewLease` restores the
  same value, so a renewal is a stutter; a lease that expires under a live
  worker (a stalled renewal) is bounded by `MaxStalls`, and is free once the
  worker has stopped renewing. The fence compares `lease_until` with the time
  it was taken at, so an expired lease nobody recovered still passes.
- `next_attempt_at`, backoff delays and evidence text are left out: a row that
  waits may become due at any time.
- An action has one effect target; per-target bookkeeping of the code is the
  same statement for each target.
- A handler call may return at any time (its context may end at any time) and
  answers truthfully about `world`: what is not true is never *proven*, but it
  may fail to prove anything. Its request may land after it returned.
- Startup recovery is one step: it runs before any worker, and its statements
  are idempotent when a crash repeats it.
- A version is compared only for equality or for being one behind; runs use the
  VIEW `VersionFree`, which keeps exactly that difference.
- External IDs, plan identity and the janitor's purge approvals (excluded from
  the poller's list) are left out.
- `RunOnce` and `RunAction` have no caller outside the tests in this commit;
  threads and executors follow the tests, which run several of both.

**Properties.**

Safety: `SingleOwner`, `ClaimedIffRunning`, `OneLiveDispatch` (one handler sends
at a time, and the journal shows a barrier for it), `AppliedAtMostOnce`, `NoBlindReplay`, `SucceededIsApplied`,
`TerminalIsQuiet`, `ReopenedOnlyByHold` (action property), `UnknownIsCounted`,
`OverlapExclusion`; liveness: `ClaimsEnd`, `BarrierReleased`; refinement:
`ImplementsActionLife`. `ReservationsDisjoint` and `ReservationSpansEffect` are
proved and not checked by a run. Each is stated and explained in `Executor.tla`.

### The life of an action (`ActionLife`)

What the rest of the system may rely on: an action has a state, may be asked to
stop (`cancel`), and may be `overdue`. It is `Claimed` only when it is claimable and
nobody stopped it; every other move (`Settled`) is in the table of transitions,
except that a proven retry queues it again; success is recorded out of `running`
only; and a stopped action that ends as stopped does so for the reason it was
stopped for. A stopped action may still succeed: an observation that finds the
desired state there records success without looking at a stop
(`execution.go:1637-1655`). The refinement mapping reads the three values off
`run[a]` and `overdue`, one instance of `ActionLife` for each action; everything
else the executor does is a stutter.

### The scan scheduler (`Scans`)

**State**

| variable | code |
|---|---|
| `state` | `Scheduler.state`: per root its revision, `enabled`, `retired`, `next` (NextScheduledAt), `active`, `last`, `complete` (ActiveScanID, LastScanID, LastCompleteScanID as positions) and `follow` (FollowUpPending); the list of scans |
| `store` | the snapshot in the `StateStore` |
| `phase` | `new`, `started`, `stopping`, `closed` (the flags of `Scheduler`) |
| `runner[i]` | the goroutine of scan i and its context: `live`, `cancelled`, `deadline`; `done` after its commit, while it is still in the `running` map |
| `spent` | how much of each bound is used |

**Actions.** `Start` (with recovery), `Stop`, `StopReturns`, `Restart`;
`ConfigureRoots`, `RetireRoot` (ConfigureRoots without the root), `Trigger`,
`Cancel`; `Interrupt` (the cancel function called after the commit reaches the
runner); `Tick`, `StartOne` (one round of `pump`); `reportProgress`, `Timeout`,
`Finish`, `FinishFails`, `Exit`; `RootDue` and `ScanDue` (the clock).

**Abstractions**

- A commit holds `commitMu` from reading the snapshot to publishing it, and
  saves it as a whole, so it is one step; a failed save changes nothing, which is
  a stutter except in `finish` (`FinishFails`), whose result is then lost.
- `Change` describes what a commit does to one root, `CommitAll` applies such
  changes to all roots: `Tick` and recovery treat every root in one commit.
  `Orders` is the order of scans created by one commit: IDs are random and break
  the tie of `selectQueuedScan`.
- A time is unset, to come or reached. Coverage is complete or not; the list of
  sources is empty, all complete, or not. Trigger kinds, counters, error texts
  and the version of a snapshot are left out.
- A runner reports any of the constant `Reports` and returns any error class.
  `Start` is given a context that outlives the scheduler.
- The branches for scans of another revision in `Tick`, `startOne`, `finish` and
  recovery are modelled; `EvidenceCurrent` shows that in this version, without
  snapshots written by older ones, no open scan has another revision.

**Properties.** `SnapshotValid`, `EvidenceCurrent`, `OneRunnerPerRoot`,
`CancelWins`, `ClosedIsQuiet`, `FollowUpHonoured` (action property),
`CancelEnds`, `ScanMoves`, `StopEnds` (liveness).

### Workflows and reviews (`Workflows`)

**State**

| variable | code |
|---|---|
| `workflow[w]` | `workflow_runs` with its `workflow_steps` in order: state, version, deadline, and per step its plan, the revision it is bound to and its state |
| `plan[p]` | `action_plans`: current revision and its status |
| `decision` | `review_decisions`, by plan and revision |
| `action` | the state, cancellation and deadline of the `action_runs` queued by decisions, moved by `ActionLife` |
| `overdue` | the workflows whose deadline has passed |
| `call[c]` | what a caller of `ApproveStep` or `AddStep` has read before its transaction |

**Actions.** `StorePlan`, `PlanExpires`, `ApproveUnlinked` (reviews); `Create`,
`AddStepRead` and `AddStep`, `ApproveStepRead` and `ApproveStep` or
`ApproveRefused`, `Sync`, `Cancel` (workflows); `ActionMoves`, `CancelAction`
(actions); `DeadlinePasses` (the clock). Every call is one transaction, except
that `ApproveStep` and `AddStep` check order and state on what they read before
it; the two halves are two actions.

**Abstractions.** Idempotent replays of the services change nothing and are left
out, as are recipe text, evidence, digests and the order in which workflows were
registered. Bounds: `MaxSteps`, the plans that are ever revised (`Revisable`) or
approved outside a workflow (`Unlinked`), the workflows a user cancels
(`Cancellable`), and the action states an instance looks at (`Reached`).

**Properties.** `StepsInOrder`, `ClosedIsFenced`, `ApprovalsAgree` (which begins
with the type invariant), `EndedIsFinal` (action property), `DeadlineCloses`,
`StepAdvances` (liveness).

### The trash and its janitor (`Trash`)

**State**

| variable | code |
|---|---|
| `entry` | the row of `trash_entries`: state, active operation, lease, whether trashed_at is set, whether the retention has passed |
| `item[i]` | `trash_items.state` |
| `record[o]` | the `janitor_records` of purge and restore: state, lease, approval, hold |
| `file[i]` | **external**: where the payload is; `aged` when it has been in the trash for the whole retention period |
| `client` | **external**: the download the entry is associated with |
| `call[w]` | a goroutine inside a call: kind, program point, items to do and done, verdict, and whether the version it holds is still current |
| `faults` | how many faults have occurred |

**Actions.** `Trash` is a call that has found no entry of its ID; its `TrashPlan`, a
step later, inserts the entry unless another call has, and goes on to move files
whether or not it was the one. `ReconcileTrash`, `RetryTrash`, `Restore`, `Purge` with and
without approval and `Reconcile` begin a call, which goes through its claim, its
verification, the stop of the client, one effect after another on the files, and
its final transaction; `Tick` recovers leases, queues purges of expired entries
and runs records; leases run out, the clock passes retention or is set back, the
process ends, the client resumes its download. Triggers of the migrations that
abort a transaction are guards of the action whose transaction they abort.

**Abstractions**

- One entry with a few items and one caller beside one janitor. `Trashers` are the
  callers that supply the ID of the entry; the others come when it exists. A version is
  compared with the row's, so a call carries only whether the version it holds is
  current (`Outdated` makes others stale).
- An approved purge is tied by a trigger to the version of the record at its
  creation; `first` says that nothing has touched the record in between.
- `RetryTrash` is claimed only when the call it repeats has ended; recovery of
  running records happens when no call is in flight.
- The clock may be set back behind trashed_at, not forward. `MaxFaults` bounds
  crashes, resumed downloads and clocks set back, together.
- The file port of this commit refuses permanent deletion (section 6), so what a
  purge does to files is what the port's contract says, not what a build does.

**Properties.** `RecordedMeansDone` (which begins with the type invariant),
`NothingLeftBehind`, `NeverEarly` (action property); `AbandonedReconciled` is the
liveness property of the run that must fail.

### Idempotency of the HTTP API (`Idempotency`)

**State**

| variable | code |
|---|---|
| `resource` | **external**: the rows of one connection, whose revision is a hash of its content |
| `manager` | the connection in the `configuration.Manager`, or none when a reload failed |
| `gate` | the request that holds `configurationGate` between two steps |
| `journal[k]` | the latest row of a key: `reserved`, `completed` or `released`; whose attempt, the mark of its effect, its response |
| `pending`, `cache` | the process's owners of keys and remembered responses |
| `req[n]` | a request: where it is in `policy`, its key and intent, the row it has read, whether its client has gone |
| `faults`, `done`, `changes` | the fault bound; history: for which requests a key took effect, and how often it changed the connection |

**Actions.** A request goes through `Lookup`, then `Reload`, `Recover`, `Settle`
when the key is reserved or uncertain, or `Begin`, `Wait` or `Reserve`, `Handle`
(`HandleFails`), `Repair` (`RepairFails`), `Release` or `Complete`, `Reply`.
Faults: a transaction fails, before the manager took the change, after it, or
with a commit that is reported as a failure (`StoreFails`); the read-back fails;
the client goes away, which cancels the context of every later transaction
(`Disconnect`, `Abandoned`); the process restarts (`Restart`).

**Abstractions.** One connection with create, patch and delete; storage roots and
path mappings follow the same code. A revision is its value, so that a patch that
takes an earlier one back brings its revision back too. The attempt id is the
number of the request. The commit of a mutation with the mark of its effect is one
transaction; reading back, the check of the effect and the release happen under
the gate and are one step. Credentials, handlers that panic and several processes
on one database are left out. Ended requests are forgotten but for successes.

**Properties.** `AppliedOnce`, `AnswersAreTrue`, `MemoryAgrees` (which begins with
the type invariant), `WaitedForIsServed`, `RecordIsFinal` (action property).

## 4. Runs

| run | instance | bounds | checks | about |
|---|---|---|---|---|
| `ownership` | 1 action, 2 goroutines of one executor | 1 stall, 5 attempts | `TypeOK`, `OneLiveDispatch`, `AppliedAtMostOnce`, `SingleOwner`, `TerminalIsQuiet` | takeovers under a live dispatch |
| `redispatch` | 1 action, 1 goroutine with and 1 executor without the handler | 1 crash, 1 fault, 5 attempts | `NoBlindReplay`, `SucceededIsApplied`, `ClaimedIffRunning`, `ReopenedOnlyByHold` | crashes and repeated passes |
| `stops` | 1 action, 1 goroutine | cancellation, deadline, the desired state may appear by itself, retry limit 3, 1 fault, 1 stall, 1 crash, 3 attempts | `UnknownIsCounted`, `ImplementsActionLife` | every way to stop |
| `overlap_takeover` | 2 conflicting actions, 3 goroutines of 2 executors | 1 stall, 2 attempts, no request sent | `OverlapExclusion` must be violated | see below |
| `progress` | 1 action, 1 goroutine, `FairSpec` | cancellation, 2 faults, 1 crash, 3 attempts | `ClaimsEnd`, `BarrierReleased` | liveness |
| `scans` | 2 roots, 2 revisions, 2 runners | 2 scans, 2 configuration calls | `TypeOK`, `SnapshotValid`, `EvidenceCurrent`, `OneRunnerPerRoot`, `FollowUpHonoured` | calls, loop and runners in every order |
| `scan_progress` | 1 root, 1 revision, `FairSpec` | 2 scans, 1 configuration call, 1 fault, 1 restart | `CancelWins`, `ClosedIsQuiet`, `CancelEnds`, `ScanMoves`, `StopEnds` | stop, restart, cancellation |
| `workflows` | 2 workflows over 2 plans, 1 with a deadline, 1 caller | 2 steps, 1 cancellable workflow | `StepsInOrder`, `ClosedIsFenced`, `ApprovalsAgree`, `EndedIsFinal` | approvals, closing and projections in every order |
| `workflow_progress` | 1 workflow, 2 plans, 1 of them revised, `FairSpec` | 2 steps; actions that wait, fail or are held | `DeadlineCloses`, `StepAdvances` | liveness of `Sync` |
| `trash` | 1 entry of 2 items, client active or missing, 1 caller, 1 janitor | 1 fault | `RecordedMeansDone`, `NothingLeftBehind`, `NeverEarly` | calls against ticks |
| `idempotency` | 3 requests, 4 keys (patch with two bodies, its reversal, create, delete), connection absent or active | 1 fault, cache of 1 | `AppliedOnce`, `AnswersAreTrue`, `MemoryAgrees`, `WaitedForIsServed`, `RecordIsFinal` | retries and lost answers |
| `stuck_purge` | 1 entry of 2 items, no client, `FairSpec` | no fault | `AbandonedReconciled` must be violated | see below |

Why the bounds suffice: five attempts hold observe, dispatch, reconcile, observe
and dispatch, that is a second dispatch; three hold a dispatch and
its reconciliation. Cancellation is explored with one goroutine and the statements
of the poller beside it; for any number of goroutines most of these properties are
proved (section 5). Two goroutines are the owner of an action and another one;
`overlap_takeover` needs a third, which takes the action over and loses. One stall is
one takeover under a live worker, and the new owner's own lease can still run out
once it has stopped; two faults fail two different transactions of a barrier
release. A journal at its bound behaves as a
failed insert (`JournalFull`). `FaultsAfterReserve` keeps faults away from the
transaction that reserves: when it fails in a reconciliation, the row becomes
`waiting_dependency` with its effect open and its keys returned. With such a fault
`UnknownIsCounted` and the properties about dispatches are false of the code (listed
below), so they are checked without it. So is `ReservationSpansEffect`, whose whole
point is that case; no run checks it.
Two scans of a root are one that runs and the one that replaces or follows it;
two configuration calls introduce a root and change or retire it. The reports of
`scans` are a page that names its sources and a last page that does not, so that
both complete evidence and a complete aggregate without sources occur; its VIEW
`EvidenceFree` leaves out the evidence of ended scans that nothing reads again.
Two workflows over the same plans compete for a decision; two steps are one that
is done and its successor. Two items are a call that is interrupted between two
effects. Three requests are a mutation, another one that interferes, and the retry
of the first; one fault is the reason for that retry. Deadlock is not checked
where the system may really stop: an ended action, a closed scheduler, an ended
workflow or entry leaves nothing to do. In `idempotency` it is checked: a request
never returns to an earlier step except to wait for an owner that has ended, and
`Answered`, the step of a state in which every request was answered, is the only
one that may be left, so every request ends. Symmetry is used in safety runs only.

**Fairness.** In `progress`: weak fairness of each goroutine's steps and of its
polling (`RunOnce` is polled for ever, goroutines are scheduled, a handler's
context is bounded), of `Recover` after a crash, of the periodic statements and
of the clock passing a lease. None is assumed of callers, crashes, faults or the
upstream system. In `scan_progress`: of starting the process, of the polling
loop (`Tick`, `StartOne`), of the clock reaching the next attempt, and of a
runner's goroutine: `normalizeOptions` gives every run a timeout, and a runner
must return once its context has ended (the contract `Close` names). `ScanMoves`
says that a scan leaves the state it is in, not that it ends: a runner may
continue for ever, and with several roots and one slot the oldest scan, which
keeps its age through its continuations, may keep the others waiting. In
`workflow_progress`: of `Sync`, which is polled with the time of the clock.
Whether an action ends, a caller approves or a plan is revised is left open; the
properties say what `Sync` makes of it. In `stuck_purge`: of
the steps of calls in flight, of leases running out, of a clock that was set back
being set right, and of the statements of `Tick` that recover and read.

**Where code and documentation disagree.** `overlap_takeover` must find a violation
of `OverlapExclusion`, that two conflicting actions never have handlers at work at
the same time (`docs/verification/acceptance.md:49`: "Local reservation/CAS prevents
conflicting execution"). The lease of action 1 runs out under its handler; the
executor that takes it over holds in-process keys of the conflicting action 2, so
`Acquire` fails and the reconciliation of 1 becomes `waiting_dependency`, a state in
which a row keeps no keys. Action 2 reserves and dispatches beside the handler of
1, which is still at work. With two goroutines the property holds.

`stuck_purge` must find a violation of
`AbandonedReconciled`, that an interrupted purge is taken up again, as the janitor
promises; `PROJECT.json` quotes the lines. A tick that observes a planned entry
(`ReconcileTrash`) writes its purge record and so advances the version of the
record. A purge approved later is tied by a trigger to the version at which the
record was created: its record can start, but every later statement about it
aborts, and it stays running for ever.

Met while modelling, and without a run of their own (`data-and-recovery.md` is the
one in `docs/specs/spec-001-media-reconciliation/`). Executor:

- a reconciliation that cannot reserve becomes `waiting_dependency` with its effect
  still open, although that state is one before effects: the next pass observes and
  may dispatch again, beside the first request. With one fault in the transaction that
  reserves and one stall (`redispatch` with the handler in both executors) TLC finds
  `NoBlindReplay`, `OneLiveDispatch`, `TerminalIsQuiet` and `AppliedAtMostOnce`
  violated; with a conflicting action, `NoBlindReplay` without any fault. In all these
  cases the keys are returned while the effect is open: `ReservationSpansEffect` is
  false of the code, although the comment at `execution.go:1203` says that
  "Reservations remain durable and local while an effect is unresolved";
  `KeysSpanEffect` says what it takes for the comment to hold;
- a reconciliation that was cancelled may end terminal with count 0 and an unsettled
  dispatch behind it;
- an executor without the handler holds a row it read earlier in any state
  (`execution.go:1164`): a finished action goes back to `needs_review`, although
  `data-and-recovery.md:52` calls succeeded a terminal state. TLC finds that terminal
  rows are not final in the instance of `redispatch`, which has such an executor.
  `ReopenedOnlyByHold`, which that run checks and `TerminalStable` proves, names this
  step as the only exception;
- two unfenced passes over one cancelled row (two pollers): the second writes an
  unknown effect after the first ended the row with count 0, so
  `UnknownIsCounted` holds for one poller and is checked for one;
- a cancellation of a held (`needs_review`) action is accepted and never acted on;
- in-process reservation keys stay in an executor when another one finishes the
  action (`execution.go:1207`);
- `ClaimActionRun` goes from `reconciling` to `running` and a proven retry from
  `running` to `queued`, which `actionTransitions` does not list (`ActionLife` has
  both), and a reconciliation whose effects are refused writes its attempt from
  `succeeded` to `failed`.

Scans:

- a result that cannot be committed leaves the scan running without a runner and its
  root blocked until a restart: `finish` (`scanning.go:1954`) takes the runner off the
  map whether or not its commit succeeded;
- `ConfigureRoots` (or `Trigger`) on a restarted scheduler before `Start` commits
  over the zero snapshot, although removed roots are "never deleted"; the
  properties of `Scans` hold with these steps, history does not survive them;
- `Trigger` on a waiting scan makes it due and retains no follow-up, although its
  comment names waiting work among what retains one.

Workflows:

- when the action of a workflow in `needs_review` or `waiting_dependency` has ended
  by the time of the next `Sync`, the move to `succeeded` or `failed` is not in
  `workflowTransitions`, and that and every later `Sync` fails
  (`workflows.go:516`); only a cancellation or the deadline gets it out. This is why
  `StepAdvances` speaks of a step with a successor;
- cancellation does not advance the workflow's version.

Trash:

- two concurrent calls of `Trash` with one `EntryID` that the caller supplied may both
  find no entry; `dispatchTrash` (`trash.go:433`) discards what `ensurePlannedEntry`
  says of the creation, so both stop the client and move files. When the second one
  stalls until the entry was trashed and restored, it moves restored payload back to
  the trash. With `Trashers` of two callers and one item, TLC finds
  `RecordedMeansDone` and `NothingLeftBehind` violated within 16 steps, without any
  fault. Neither `trash.go` nor the documents say that an ID may not be used twice at
  a time, so it is an assumption here: the run has one of `Trashers`, the theorems
  assume one;
- a late `finalizeTrash` clears the active operation, so that restore and purge may
  both be claimed afterwards (contrary to `data-and-recovery.md:162`);
- a tick in the middle of a `Trash` of several files sees it half done and holds
  the purge record; the entry is trashed afterwards and never purged; the same
  holds of a retry that `ReconcileTrash` completes;
- an entry that is held with only some items in the trash has no trashed_at, and
  none of the calls takes it up again (`ErrClock`), contrary to
  `data-and-recovery.md:177`;
- `holdEntry` drops trashed_at, the active operation and evidence about an
  unresolved scope;
- `runPurge` does not skip restored items, though `Reconcile` does; a crashed
  approved purge may reconcile for ever; a `Restore` whose claim fails leaves a queued
  record that a later tick runs; cancelling an approved purge aborts unless the
  versions of entry and action happen to be equal
  (`000009_storage_recovery_boundaries.up.sql:602`).

Idempotency:

- a response that is completed but not replayable (any 5xx, including the 500 a
  retired connection answers with, whose error has no status) is taken to recovery,
  but `complete` accepts only reserved rows: such a key answers 503 for ever,
  although `recoverPendingIdempotency` promises a chance to reconcile an "uncertain
  outcome";
- when the client goes away its context also cancels the release after a failed
  mutation, and the key stays reserved for ever, although
  `finishConfigurationMutation` releases it "so the same request key can retry after
  the source of the failure heals";
- a second request with the same key that finds the row reserved does not wait for the
  first response, as `beginIdempotency` says, but answers "pending", or recovers the
  row from the configuration and completes it before its owner, which then answers
  503 although its change was made;
- creating a storage root or path mapping whose id exists fails in the database
  before the manager looks at it, unlike a connection: 503, and the key is stuck;
- a crash between reservation and effect leaves the key pending for ever.

## 5. Proofs

`ExecutorProofs` proves, for every set of actions, goroutines and executors,
every conflict relation and all bounds (from `ConstantsAssumption` alone):

| theorem | statement |
|---|---|
| `TypeCorrect` | `Spec => []TypeOK` |
| `OwnershipCorrect` | `Spec => []SingleOwner` |
| `ClaimedCorrect` | `Spec => []ClaimedIffRunning` |
| `ReservationsCorrect` | `Spec => []ReservationsDisjoint` |
| `TerminalStable` | `Spec => ReopenedOnlyByHold`, with executors that have the handler and executors that lack it |

The inductive invariant `IInv` is the conjunction of

- `TypeInv`: `TypeOK`, and that a goroutine past its first step has an action
  (`Working`);
- `KeysRetained`: a row that has left the retaining states has given its keys
  back;
- `ClaimedIffRunning` and `ReservationsDisjoint` themselves;
- `Generations`: the version of a goroutine's claim is never ahead of its row's,
  and behind it once the row has left `running`;
- `Apart`: two goroutines with a claim on the same action carry versions at least
  two apart, more than the one version a cancellation may add.

`SingleOwner` is not inductive by itself: two stale fences one version apart
would both pass after a cancellation. `Apart` excludes that, because a new claim
follows a recovery and each of the two adds one to the version; `Generations`
carries that argument through every step. The step theorem has one case for each
action. `IInv` was model-checked before it was proved.

`ScansProofs` proves, for every set of roots, revisions and reports and all
bounds (from `ScansAssumption` alone):

| theorem | statement |
|---|---|
| `TypeCorrect` | `Spec => []TypeOK` |
| `SnapshotsAreValid` | `Spec => []SnapshotValid` |
| `EvidenceIsCurrent` | `Spec => []EvidenceCurrent` |
| `RunnersAreExclusive` | `Spec => []OneRunnerPerRoot` |
| `CancellationWins` | `Spec => []CancelWins` |

Its inductive invariant `IInv` says that memory and store are both `SnapGood`,
that a process that has not been started has no runner, and that every runner has
a scan in memory. `SnapGood` joins what the theorems say of a snapshot
(`RootGood`, `CancelKept`); the parts need each other: that the open scan is exactly
ActiveScanID is what keeps a commit from rewriting the ended scans that evidence
refers to, and that it has the revision of its root is what lets a scan be
entered as evidence, or stay open, under that revision. The store is part of it because a restart commits over what it
loads. The argument goes through `GoodChange`, which says when a change may be
applied to a root: `UpdatedGood` shows once that a commit of good changes leads
from a good snapshot to a good one in which every scan keeps its root, one lemma
for each operation shows that its change is good (in them the branches for a scan
of another revision turn out to be unreachable), and `NextIInv` has one case for
each action.

The second half of `ScansProofs` is about what commits do to scans and follow-ups:

| theorem | statement |
|---|---|
| `ClosedStaysQuiet` | `Spec => []ClosedIsQuiet` |
| `FollowUpsAreHonoured` | `Spec => FollowUpHonoured` |

`Mild` says what the change of one root may do: it sets no scan running, and drops a
follow-up only by admitting a scan or cancelling the open one. Each operation makes
mild changes but `StartOne`, which is the one step that sets a scan running.
The invariant `Calm` adds that a scan marked running has its runner as long as no
commit failed, and that only a root that was configured has a follow-up: the zero
snapshot a restarted scheduler commits over has none.

`ExecutorLifeProofs` proves of the executor

| theorem | statement |
|---|---|
| `LifeImplemented` | `Spec => ImplementsActionLife`, when every executor has the handler |
| `SuccessIsTrue` | `Spec => []SucceededIsApplied` |

The refinement of `ActionLife` has one lemma for each action (`StepMoves`,
`CallerMoves`): the step moves each row by a move of `ActionLife` or not at all.
It needs `Control`: which part of a pass may reach which verdict, and that a pass
without a claim is one of an action that was stopped. An executor without the
handler holds a row whatever its state and without a fence, which no contract
survives (section 4); hence the hypothesis. `SuccessIsTrue` adds `Proved`: while a
goroutine carries a verdict that says the state exists, it does, and no step takes it
away again (`DesiredStays`).

`ExecutorBarrierProofs` is about the journal and the handlers at work:

| theorem | statement |
|---|---|
| `BarrierSpansDispatch` | `Spec => []DispatchIsJournalled` |
| `OneDispatcher` | `Spec => []OneLiveDispatch`, if `Safe` |
| `TerminalQuiet` | `Spec => []TerminalIsQuiet`, if `Safe` |
| `MutationOnce` | `Spec => []AppliedAtMostOnce`, if `Safe` |
| `ReconciledFirst` | `Spec => []NoBlindReplay`, if `Safe` |
| `KeysUntilSettled` | an action that was not stopped and whose effect is open has its durable keys, if `Safe` |
| `KeysSpanEffect` | `Spec => []ReservationSpansEffect`, if `Safe` and nobody cancels and no deadline passes |

where `Safe` stands for the two hypotheses `Overlap = {}` (no two actions conflict)
and `"reserve" \notin FaultPoints` (the transaction that reserves does not fail).

`DispatchIsJournalled`, the first half of `OneLiveDispatch`: from prepareDispatch to
the return of its handler a goroutine has its attempt running in the journal, over
lost leases, takeovers, crashes and failing transactions, with conflicting actions
and without. The invariant `Guarded` says why: no row, no intent, no fallback entry
and no other goroutine names that attempt as one whose handler has returned, so no
release can touch it; `Bounds` says that attempts that are named exist, so that a new
attempt has a name nobody has.

The next four have a common invariant, `Exclusive`, on top of `IInv`, `Control`,
`Bounds` and `Guarded`. Of an action (`ActionInv`) it says that one dispatch at most
is running in its journal, that no goroutine dispatches it while its row waits or is
terminal, that a row that waits and was not stopped is `Clean` (no dispatch running,
effect settled, nothing upstream), and `AppliedAtMostOnce` itself. Of a goroutine
(`PassInv`) it says what row, journal and upstream system look like at each point of
its pass, if it owns its action: from its claim to `PrepareDispatch` the action is
clean; while it dispatches, its attempt is the only one that may be running; while it
reconciles none is, from the time it looked; and a verdict that lets the action wait
or start again was given when nothing had been sent. `Owning` is weaker than the
fence: the return marker of a superseded worker advances the version without a
cancellation, after which the fence fails, but matches again as soon as a closing
workflow records one; the invariant has to hold in between. The proof is divided by
who disturbs what: `Bystander` shows that no step of a goroutine disturbs what
another one that owns its action relies on, the lemmas `Own...` follow each goroutine
through its own pass, `Step...` do the same for the actions, and `DriftExclusive`,
`CallerExclusive`, `CrashExclusive`, `RecoverExclusive` and `PickExclusive` are the
environment and the poller. `Exclusive` was model-checked on small instances first.

The two hypotheses are what the code needs, not what the proof needs: with a
reservation that fails or is refused, a takeover sends an unsettled action back to
the states before effects, and the properties are false (section 4). All other faults
are allowed, as are stalls, crashes, cancellations and several executors.

The last two theorems add `Spans`. `Spanned` is the statement itself, of one action:
until it is stopped, its keys outlive whatever leaves its effect open. It is not
inductive: a verdict gives the keys back, and that is right only if the verdict knows
that the effect is settled. So `Holding` says of the goroutine that owns the action
that the keys are there from the reservation on, that a sure verdict is recorded
under a closed attempt, and that it is given once the effect is closed with it. A
stop breaks this, in the code as in the proof: an action that crashed between its
claim and its reservation and was then cancelled is observed without keys, and an
answer that proves nothing leaves its effect unknown although nothing was sent.
`KeysUntilSettled` therefore speaks of actions that were not stopped, in a system in
which others are; `KeysSpanEffect` is the statement of the comment at
`execution.go:1203` for a system in which nobody cancels (`Unasked`: no stop without a
request or a deadline). No run checks either of the two.

`ExecutorCountProofs` proves

| theorem | statement |
|---|---|
| `UnknownCounted` | `Spec => []UnknownIsCounted`, if `Safe` and there is one goroutine (`Alone`) |

with the invariant `Counts`. `Counted` says of an action that nothing is unknown
before effects, that a row that has ended or is held counts what is, and that the
effect of a dispatch that is still running is pending until somebody marks it as
returned, and counted from then on. The marker has to be in the invariant because a
barrier release that follows a failure writes intent, count and effect in three
transactions, and a crash or a cancellation may come between any two.
`Counting` says of a pass when the effect of its action is not unknown
(`OwnerEffect`), and that a pass that was claimed from `reconciling` finds the row as
its claim left it, but for a cancellation (`Unmoved`): until its reservation it knows
nothing of the effect. `Flow` and `StepFlow` say once how a pass goes on, so that only
the steps that change effect or row need a lemma of their own (`ClaimCounting` to
`MarkCounting`); `StepCounted` follows the rows. Cancellations, deadlines, crashes,
stalls and all faults but that of the reservation are allowed. `RunOnce` works off
its batch one action after the other; with two passes over one cancelled row TLC
finds the property violated (section 4). The hypothesis also leaves out a pass
beside the background retry of a barrier release, which in the model is the goroutine
that failed to release it.

`WorkflowsProofs` proves, for every set of workflows, plans and callers and every
number of steps:

| theorem | statement |
|---|---|
| `StepsStartInOrder` | `Spec => []StepsInOrder` |
| `NothingStartsAfterTheEnd` | `Spec => []ClosedIsFenced` |
| `DecisionsBindSteps` | `Spec => []ApprovalsAgree` |
| `EndIsFinal` | `Spec => EndedIsFinal` |

`RunGood` says of one workflow that it is done up to its current step, that its steps
agree with decisions and actions, and that its end leaves no action going; `CallGood`
that what an approval has read stays true until its transaction. `RunKept` says once
what a step may do to actions and decisions around a workflow it leaves alone:
`ActionLife` keeps success and stops, and decisions are never changed. The current
step is a minimum; that a set of naturals has one (`MinIsLeast`) is proved from the
cardinality of intervals, for induction is out of the provers' reach.

`IdempotencyProofs` proves, for every set of requests, keys and bodies:

| theorem | statement |
|---|---|
| `AlwaysAppliedOnce` | `Spec => []AppliedOnce` |
| `AlwaysAnswersAreTrue` | `Spec => []AnswersAreTrue` |
| `AlwaysMemoryAgrees` | `Spec => []MemoryAgrees` |
| `AlwaysWaitedForIsServed` | `Spec => []WaitedForIsServed` |
| `RecordsAreFinal` | `Spec => RecordIsFinal` |

A request that holds a reservation knows what its key's row says of it (`Held`); a
row that recovery has read is behind the journal in one direction only (`ReadRow`);
and an attempt is marked by the transaction that changes the connection (`KeyGood`).

`TrashProofs` proves, for every set of items, callers and janitors and any number of
faults (from `TrashAssumption` and `NoneAssumption`) where one
caller calls `Trash`:

| theorem | statement |
|---|---|
| `RecordsAreTrue` | `Spec => []RecordedMeansDone`, if `OneTrasher` |
| `TrashIsEmptied` | `Spec => []NothingLeftBehind`, if `OneTrasher` |
| `RetentionIsKept` | `Spec => NeverEarly`, if `OneTrasher` |

`OneTrasher` is that at most one caller asks for the entry to be trashed (as often as
it likes). It is what the code needs: with two, the first two statements are false of
it (section 4). An ID that `Trash` generates meets it by itself; one that is supplied
must not be in two requests at a time. It says nothing of the other calls: the run
`trash` has one caller beside one janitor, while the theorems let any number of
callers retry, restore, purge and reconcile beside any number of janitors. Two purges,
or a purge and a restore, may overlap: a lease may run out under a call that goes on,
and a late `Trash` clears the operation of its entry. The invariant `TInv` therefore
never says that a call is alone, nor does it use the version a call holds, which
guards the rows but not the files. It rests on what is monotone: nobody selects an
item again, and once none is selected (`Recorded`) payload only leaves the trash
(`Later`). So what a call has found stays true whatever the others do (`CallStays`):
what a purge is done with is gone (`PurgeGood`), what a restore is done with has left
the trash (`RestoreGood`), and aged payload has aged for good. Before that, `Trash`
moves payload while the entry is `Untouched`; one call at a time moves any, and no
observation has seen it in the trash before (`CallsGood`). `EntryGood` ties the row of
the entry to this: trashed_at, and every state but planned and held, mean that all is
recorded, and a trashed_at whose retention has passed, or a purge without an approval,
that all has aged. `CallStep` joins the parts for a step of a call, `BooksKeep` for a
step that changes rows only. `TInv` was model-checked before it was proved.

Only model-checked:

- the liveness properties `ClaimsEnd`, `BarrierReleased`, and those of the runs
  `scan_progress` and `workflow_progress`: fairness is outside the prover's reach;
- the two properties that a run expects to be violated.

Every invariant and every action property that a run checks is stated by a theorem.
Those of the executor that need hypotheses (`Safe`, no stops, one goroutine, executors
with the handler) are false of the code without them, as section 4 says; the runs
that check them satisfy the same hypotheses.

## 6. Not modelled

- *Filesystem organize and placement.* Moves across devices and permanent deletion
  are switched off in every build of this commit: `requireQuarantineCleanup`
  (`internal/filesystem/fs_linux.go:27`, `fs_unsupported.go:17`) returns
  ErrUnsupported before they start. What is left are single system calls with their
  checks.
- *Action handlers.* Their contract (what `Observe`, `Dispatch` and `Reconcile` may
  answer, and when) is part of `Executor`; what each of them does to its service is
  conversion and I/O.
- *Configuration beyond one connection, descriptors, backup, planning, discovery,
  reconciliation of observations*: to come, see section 2.
- Not planned: provider adapters and HTTP mapping (conversion and I/O),
  cryptography of credentials, generated code (`api/generated`, `storage/sqlc`),
  the web front end, process wiring. Generated code and adapters are most of the
  lines of this repository.
- *Liveness of the trash* beyond the run `stuck_purge`: with fairness the graph of
  an entry with faults is too large for one run.
