# Formal models of panary-core

panary-core is an offline-first point-of-sale and back-office system. An *edge*
server (Feathers on Node, SQLite) runs in every location; terminals
and admin clients talk to it over the local network, and it synchronises with a
*cloud* that is not part of this repository. This directory holds TLA+ modules of
the parts whose correctness depends on the order in which things happen, the
TLC configurations that check them on small instances, and proofs for every
instance.

Run a model with `tlc -config X.cfg M` and a proof with `tlapm M.tla`.

## 1. Inventory

Paths below are relative to `src/apps/api-edge/src` unless they start with `libs/`
or `apps/`.

| Part | State | Operations | Interacts with | What is hard about it | Module |
|---|---|---|---|---|---|
| **Sync outbox** (`hooks/sync-outbox-recorder.hook.ts`, `services/sync-outbox`, push half of `workers/cloud-sync-scheduler.worker.ts`, `libs/domains/sync/.../backoff-schedule.ts`, retention in `workers/audit-cleanup.worker.ts`, admin panel `sync-conflicts.ts`) | table `sync-outbox` (status, attempts, next attempt), links to conflicts | record a change, fetch due rows, coalesce, mark in-flight, push, ack / retry / reject / escalate, rate limit, boot recovery, re-enqueue, retry, discard, retention | every syncable service (after-hook), the cloud, the operator, the audit cleanup | overlapping handlers, swallowed failures of patches, lost and late requests, at-least-once delivery, crashes | `SyncOutbox`, `RecordSync` |
| **Sync scheduler and mutex** (`workers/cloud-sync-scheduler.worker.ts`, `workers/cloud-realtime.worker.ts`, `services/cloud-connection`) | `cycleInFlight`, `cycleQueued`, timers | tick, force-sync event, PIN change, reload, sync now, release and drain | runs the phases of a cycle | check and occupation separated by an await, coalesced triggers, waiting callers | `SyncCycle` |
| **Pull, cursor, reconciliation** (`runPullForService`, `workers/sync-apply.ts`, `workers/stale-user-reconciliation.ts`) | cursor per service, the pulled tables | read cursor, fetch pages, compare, apply, move the cursor, archive users | cloud, realtime events, outbox (local edits) | pages and clocks, two pulls at once, partial failures, snapshots that are out of date | `PullCursor` |
| **Heartbeat and emergency override** (`runHeartbeatPhase`, `runReconcileOverrides`, `setEmergencyOverride`, `utils/emergency-override.ts`, `utils/pending-local-overrides.repository.ts`, `hooks/cloud-managed.hook.ts`, `hooks/record-emergency-override.hook.ts`) | failure counter, mode, its source and suppression on the connection; table `pending-local-overrides` | heartbeat, automatic activation, operator's switch, local change of printers, reconciliation, end of the mode | connection row, operator, cloud | a record read before a request and written after it, by two writers | `EmergencyOverride` |
| **Terminal outbox** (`libs/shared/offline-cache`, `apps/pos-client/.../pos-outbox-replay.service.ts`, `libs/domains/orders/data-access/.../order.service.ts`) | IndexedDB rows, `#replaying`, parked entries | queue, replay, ack / retry / reject, drawer dialog, the operator's buttons | services and hooks of the edge | disconnects in the middle of a replay, order of patches, classes of errors | `PosOutbox`, `OfflineSales` |
| **Business days** (`services/business-days`, `utils/business-day.utils.ts`, `bootstrap-business-day.ts`, `hooks/restrict-order-to-business-day.ts`, `hooks/assign-daily-sequence-number.ts`, `workers/business-day-rotation.worker.ts`) | table `businessdays`, the location's pointer, last number per day in memory | rotate, open, close, approve a rest day, discard an orphan, number an order | orders, cash sessions, location | several writes without a transaction, by requests that overlap; restarts in between | `BusinessDays` |
| **Orders** (`services/orders`, `libs/domains/orders/domain`) | table `orders`, mutex per order | create, split, status, settle | receipts, cash sessions, business days | a split in two writes with a compensation, payments of two tills | `Orders` |
| **Cash sessions** (`services/cash-sessions`, `hooks/reject-second-open-cash-session.hook.ts`) | table `cash-sessions`, mutex of its creates | grant, open by payment, count, close | orders, business days | one open session per cashier although several calls open one | `Orders` |
| **Receipts, TSE, fiscal counters** (`hooks/issue-receipt.hook.ts`, `hooks/sign-order-tse.hook.ts`) | receipts, signatures, counters | issue, sign, number | orders, a signing device | look and create are two steps, failures are only logged | `Orders` (receipts) |
| **Sync conflicts** (`services/sync-conflicts`) | table `sync-conflicts` | open, resolve, apply a resolution | outbox, cloud | several steps, each of which may fail | - |
| **Bootstrap** (`workers/cloud-bootstrap-runner.worker.ts`) | status of the pairing, truncated tables | truncate, pull everything, backfill the outbox | outbox, pull | crash in the middle, writes that go on meanwhile | - |
| **Cache of the terminal** (`libs/shared/offline-cache`) | cached lists | merge with the server's list | terminal's views | little | - |
| **Devices, pairing, authentication** | devices, api keys, pairing tokens | pair, verify, rotate | all services | expiry, one-time tokens | - |
| **Working times, discount codes, pre-orders** | one table each | stamp, redeem, reserve | users, orders, cloud | little | - |
| **Print server, mDNS, status page, clients, migrations, domain arithmetic** | - | - | - | input and output, user interface, pure functions | - |

### What makes the parts correct

* *Outbox*: what is acked was delivered; what is rejected was refused, not merely
  delayed; coalescing drops no state; no younger state in the cloud is
  overwritten by an older one; nothing is stuck; every change arrives in the end.
* *Mutex*: one cycle at a time; a trigger is never lost; nobody waits for ever.
* *Pull*: nothing the cursor has passed is missing; only what the cloud has
  dropped is archived; a reload is complete; the edge follows the cloud.
* *Override*: the mode comes on in an outage and goes off after it; it stays
  while changes wait for the cloud or are in conflict; no change is dropped undecided; the cycle
  does not undo what the operator has switched.
* *Terminal outbox*: no order and no cash taken offline is lost unseen, and no
  entry waits for ever.
* *Business days*: numbers are unique per day; a rotation leaves one open day, the one the
  location points to; a day with active tabs is not rotated away.
* *Orders, receipts, drawers*: one receipt per order; no line is billed twice or
  lost by a split; a payment stays what it is; one open drawer per cashier.

## 2. Plan

Done:

1. `SyncOutbox`, the push path, and `RecordSync`, the abstract specification it
   implements; proofs in `SyncOutboxProofs` and `SyncReplicationProofs`.
2. `SyncCycle`, the mutex; proofs in `SyncCycleProofs`. That it excludes is what
   `SyncOutbox` with one worker, `PullCursor` with one cycle and `EmergencyOverride` assume.
3. `PullCursor`, the pull path; proofs in `PullCursorProofs`.
4. `PosOutbox`, the terminal, and `OfflineSales`, the abstract specification it implements;
   proofs in `PosOutboxProofs`.
5. `BusinessDays`; proofs in `BusinessDaysProofs`.
6. `Orders` with receipts and cash drawers; proofs in `OrdersProofs`.
7. `EmergencyOverride`; proofs in `EmergencyOverrideProofs`.

Not done, in the order of their worth:

* the resolution of sync conflicts (several steps, each of which may fail);
* outbox and pull of one service in one module: a pull that overwrites an
  edit not yet pushed;
* the bootstrap after pairing;
* business days that a paired cloud manages.

Every safety property of a passing run is a theorem. Worth having next: an abstract
specification of a day's numbers and drawers for `BusinessDays` and `Orders`, as `OfflineSales` is
one of the terminal, and the modules above that are not written.

## 3. The models

Each module has a constant that says what its environment may do (`Disturbances`,
or `Mixes`, a set of such sets of which a behaviour has one). A property is checked under the
largest set under which the code keeps it, either by the set a run gives or by
a premise of the property (`Orderly`, `Serial`, `Guarded`, `~May(...)`); the violation runs have the one
thing that breaks it. The comments at the constants name every member.

One action is one stretch of JavaScript between two awaits, or what a handler does from one
access to the database to the next.

### `SyncOutbox` and `RecordSync`

| Model | Code |
|---|---|
| `record`, `calls` | the edge's tables and the request handlers that have written a record but not yet its row |
| `outbox`, `nextId` | table `sync-outbox`; ids stand for uuidv7 |
| `pc`, `batch`, `answer` | local variables of `runPushBatch` per running cycle |
| `wire`, `late`, `cloud` | (external) the request under way, requests given up, the cloud's table |
| `Write`, `Remove`, `ReadBack`, `Record`, `RecordFails` | a mutation and `recordSyncOutbox`; the id is drawn in `Record`, long after the read |
| `ReEnqueue`, `RemoveRequeued`, `OperatorRetry`, `Discard` | `reEnqueueOutboxEntry`, and the admin panel's retry and discard |
| `Fetch`, `Coalesce`, `Send`, `ReadAnswer` | `fetchPendingOutbox`, `coalescePendingEntries`, `markOutboxInFlight`, `markOutboxAcked` |
| `SettleRetry`, `Escalate`, `SettleTerminal` | the loop over rejected ops |
| `PushFails`, `PushRateLimited`, `BackoffElapses` | the catch clause of `runPushBatch`, `markOutboxRateLimited`, `nextAttemptAt` |
| `Restart` | process stop and `recoverInFlightOutbox` |
| `Retire` | `runOutboxRetention` |

A record is the version of its content; a row carries the version it would put into
the cloud. Patches of status fail one row at a time
(`Succeeding`), because the code swallows each error.

`RecordSync` is what pushing promises without rows and batches: the cloud follows
the versions of the edge, may skip some, and never goes back. `SyncOutbox` implements it
(`Replicates`) under the mapping edge version = `record[e].ver`, cloud version = `cloud[e]`.

### `SyncCycle`

`Enter` is the synchronous
start of `triggerImmediateCycle`, `StartCycle` what follows `await getActiveConnection`;
`ReloadLoop` is the `while` of `runUsersReloadCycle` together with the occupation that
follows its last test. `Woken` reloads go on before timers and `setImmediate`
callbacks, as microtasks do. The history variable `owed` records that a trigger came and no
cycle has begun since.

### `PullCursor`

Time is the number of changes in the cloud, and a record's content is the time of its last
change. `pull[p]` holds the local variables of `runPullForService` of puller `p`: the
cursor read (`since`), the server timestamp of page 0 (`mark`), what no page has
brought yet (`rest`), the page being applied and the rows it was compared with (`page`,
`seen`), the snapshot and the users still to archive. `Cycles` exclude each other (that is
`SyncCycle`'s business), `Realtime` pullers ask nobody. The model is of the service
`users`, the only one with a snapshot; without `Reconcile` and `Archive` it is the
pull of the others. Equality of content (`isUnchangedRecord`) is equality of time.

### `PosOutbox` and `OfflineSales`

| Model | Code |
|---|---|
| `log`, `box` | what was taken offline, and the stored entry of each (IndexedDB) |
| `replaying`, `pc`, `mode`, `todo`, `entry`, `parked` | `#replaying` and the local variables of each `replayAll` at work |
| `image` | an entry `OutboxStore.#patch` has read and not yet written back |
| `link`, `calls`, `answer` | the socket, and calls from the terminal through the edge and back |
| `edge`, `drawers` | orders with their payment, and cashiers with an open drawer |
| `CreateOffline`, `PatchOffline` | `#enqueueOfflineOrder`, `#patchOffline` |
| `Start`, `Claim`, `NextEntry`, `Ack`, `Park`, `MarkRead`, `MarkWrite`, `Finish` | `replayAll`, `#replayOne`, `#handleFailure` |
| `AskCashier`, `DialogCloses` | `#resolveCashSessions` |
| `LookForId`, `Insert`, `PayVerdict`, `ApplyPayment`, `ApplyWork`, `CallFails` | the edge: `rejectDuplicateOrderId`, `lockSettledOrderPayment`, the patch chain |
| `Drop`, `Reconnect`, `Deadline`, `BufferedCallExpires`, `Restart` | connection, deadline of the socket, reload of the page |
| `Press`, `PressWrite` | the buttons of the settings: retry, sync now, discard |

`OfflineSales` is what all of this amounts to, without calls, copies and verdicts: changes are taken
and held; the edge stores an order once and books one payment of it, or another till's, for good;
the terminal lets go of a change when the edge has what it says, or the operator throws it away. A
stale copy may bring a change back, which does no harm. `PosOutbox` implements it (`BookedOnce`): an entry is
held as long as it is in the outbox, an order is made and paid as the edge's record says.

### `BusinessDays`

| Model | Code |
|---|---|
| `day`, `pointer` | table `businessdays`, `location.currentBusinessDay` |
| `orders`, `drawers` | orders with day, number and status (`active`, `kitchen` for production and produced, `done`); the days that have a cash session |
| `lastAssigned` | the numbers the process remembers (`remember`) |
| `req` | the local variables of each request at work |
| `ReadLocation`, `LookForOrder`, `CheckActiveOrders` | `restrictOrderToBusinessDay` |
| `LookForEnsure` / `LookForApproval`, `Stamp` | `autoEnsureBusinessDay` / `approveClosedDay` |
| `FindOpenDays`, `CloseNext`, `CheckSingleOpen`, `CreateDay`, `PatchPointer` | `rotateBusinessDay` and `ensureSingleOpenBusinessDay` |
| `AssignNumber`, `StoreOrder`, `RefuseOrder` | `assignDailySequenceNumber` and the insert |
| `OpenDay`, `ReadDay`, `CloseDay`, `CheckNotCurrent`, `CheckNoOrders`, `CheckNoDrawers`, `RemoveDay` | `openDay`, `closeDay`, `discardOrphanDay` |
| `Settle`, `Work`, `OpenDrawer`, `Midnight`, `HoursPass`, `Crash` | what happens around it; `Settle` and `Work` patch the status of an order |

It starts from a new location, a healthy one, or one that has drifted (two
open days, a pointer to a closed one, or none), the states
`docs/domains/verwaiste-geschaeftstage.md` reports from the field; with `"tabs"` any of its days
has an active order from before. `"blind"` stands for both looks that fail open, the one for open
days (`ensureSingleOpenBusinessDay`) and the one for the day of the location
(`discardOrphanDay`, whose read ends in `.catch(() => null)`). Days without a `locationId` are left out.

### `Orders`

| Model | Code |
|---|---|
| `order` | table `orders`: status, amounts of the lines, `splitOff`, `splitFrom`, payment and its drawer |
| `receipts`, `drawer` | tables `receipts` and `cash-sessions` of one business day |
| `payLock`, `drawerLock` | the promise chains of `runExclusivePerOrder` and of the creates of cash sessions |
| `reported`, `unnoticed` | (history) targets whose split ended halfway: those the caller is told of (`target-left-open`), and those nobody is told of |
| `ReadSource`, `PlanSplit`, `CreateTarget`, `PatchSource`, `RereadSource`, `AbortTarget` | `orders.split` and `compensateFailedSourcePatch` |
| `PatchStatus`, `Checkout`, `AcquirePayLock`, `CheckPatch`, `FindDrawer`, `WritePatch` | the before-hooks of a patch up to its write |
| `FindReceipt`, `CreateReceipt` | `issueReceipt` |
| `Grant`, `FindOpenDrawer`, `InsertDrawer` | `openAuthorized` and the create of a cash session |
| `PatchDrawer`, `CheckRank`, `WriteRank` | counting and closing |

Lines are amounts; prices, taxes and discounts follow from them. `Refused`
is any step the database or a hook outside the module refuses before its write. Feathers rolls
nothing back, so an after-hook that throws makes a step fail whose write stays: `PatchSource` (whose
`catch` compensates), `AbortTarget`, `WritePatch`, `InsertDrawer`, and
`CreateTarget`, which stands outside of the `try` and leaves its target behind.

### `EmergencyOverride`

| Model | Code |
|---|---|
| `conn` | the fields of the mode in `cloud-connection` |
| `cyc` | where the cycle is, what it has read of the connection (`read`), and whether the operator has switched since (`stale`) |
| `row`, `admitted` | `pending-local-overrides`, and changes let through whose rows are not yet inserted |
| `discarding` | `setEmergencyOverride` between its patch and its delete |
| `Begin`, `HeartbeatOk`, `HeartbeatThrottled`, `HeartbeatFails`, `Counted` | `runSyncOnce`, `runHeartbeat`, `runHeartbeatPhase` |
| `Refresh`, `Reread`, `FindPending`, `Answered`, `CallFails`, `DeleteAccepted`, `MarkConflicts`, `SwitchesOff` | `runReconcileOverrides` |
| `OperatorOn`, `OperatorOff`, `Discard` | `setEmergencyOverride` |
| `Admit`, `Insert` | `cloudManaged`, `recordEmergencyOverride` |
| `LinkChanges`, `Crash`, `Tick` | the cloud (answers, answers 5xx, cannot be reached), the process, the clock |

A row the cloud has taken over while its answer was lost is `applied`: pending on the
edge and sent again.

### Bounds

All of them are constants that appear in guards only; none is a limit of the code
unless said.

| Bound | Meaning and why it is enough |
|---|---|
| `MaxVersion`, `MaxId` (outbox) | changes of a record, rows ever created. Two rows of one record let every status meet every status of a younger row; batch 2 for 100, one or two attempts for ten, a recovery of one or two rows for 500: each boundary of the code is crossed in some run. The theorems have no bound. |
| `Calls` (mutex) | four: one that holds it, one that waits, one queued, one that comes in between |
| `MaxTime`, `OverlapTime`, `MaxMishaps` (pull) | changes in the cloud (fewer beside realtime pulls), failing pulls and restarts. Pages of one record and two records let the cloud change between two pages. `MaxPages` stands for the 200 pages of the loop and is not reached. |
| `MaxEntries`, `Calls`, `MaxMishaps` (terminal) | entries taken offline, calls under way, events that are not progress. Two entries are an order and its payment, two replays the one that was cut off and the next. |
| `MaxDay`, `MaxDate`, `MaxNumber` (days) | days on record, dates, numbers. Three days: two the location starts with and one a rotation adds; an id that no row and no request refers to is used again. The last date stands for all later ones. Hours since the opening (0, ripe, overdue) pass for the day of the pointer, the only one the code asks about. |
| `MaxOrder`, `MaxDrawer`, `MaxAmount` (orders) | a table's order and two splits; three drawers for two cashiers; amounts of two. `RoomForTargets` and `RoomForDrawers` keep a call from starting that would run out of ids. One drawer is patched at a time (two patches that overlap pass the same check). |
| `MaxRow`, `MaxMishaps` (override) | local changes; switches, crashes, failures and limits. Ages saturate: one tick is five minutes without a heartbeat, two ticks are the two hours of a manual activation and of the suppression; the counter of failures saturates at its threshold, three as in the code. |

Without `overlap` in its mix an instance of `BusinessDays` or `Orders` has one
request at work; the requests are then alike. No instance uses symmetry. Each run ends within about three minutes.

## 4. What the runs show

Passing:

| Run | Properties | Says |
|---|---|---|
| `outbox_any` | `TypeOK`, `AckedIsDelivered`, `RejectedWasRefused`, `SupersededHasSuccessor` | overlapping handlers, failing recorders, patches and sibling queries, lost and late pushes, crashes, deletions and retention: acked means accepted, rejected means refused, superseded means there was a younger row |
| `outbox_serial` | `NoOrphanInFlight`, `CoalescingKeepsState`, `NothingForgotten`, `Replicates`, `Converges` | one cycle, handlers that do not overlap, with lost pushes, restarts, re-enqueues and retries: nothing stuck, nothing dropped, the youngest row carries what the cloud lacks, the push path implements `RecordSync`, and every change arrives or is left to the operator once failures stop |
| `cycle_any` | `ExclusiveOutsideGaps`, `QueuedWillDrain`, `AwaitsARun`, `TriggerServed` | the mutex excludes as long as nothing falls into its gap; and whatever overlaps, a queued trigger has a running cycle that drains it, a waiting reload a running cycle that wakes it, and every trigger is followed by a cycle |
| `pull_all` | `TypeOK`, `OwnersStay`, `NothingSkipped`, `ReloadComplete`, `FollowsCloud` | the owner is never archived and the cursor never ahead of the cloud, whatever happens; in orderly runs what the cursor has passed has arrived, a reload leaves the edge as the cloud was when it began, and every change reaches the edge once failures stop |
| `pos_all` | `OrderNeverLost`, `PaymentNeverLost`, `BookedOnce`, `Drains` | overlapping replays, lost connections and answers, deadlines, refusals, restarts, closed drawers, another till, the buttons: no order and no cash is lost unseen; however often an entry is sent, an order is stored once and one payment of it booked; and no entry stays pending for ever |
| `bday_all` | `NumbersUnique`, `ApprovedDayTakesOrders`, `DiscardSparesCurrent`, `RotationHeals`, `ActiveTabsKeepDay`, `YesterdayEnds` | numbers are unique whatever overlaps; with one request at a time, from drifted days with tabs as well, a rotation heals what has drifted, an approval ends on the day that takes the orders, active tabs of the current day keep it, discarding takes empty days only and spares the current one as long as the location can be read, and yesterday ends |
| `orders_all` | `OneReceipt`, `LiveTargetIsBooked`, `RollbackLosesNothing`, `NoDoubleRevenue`, `OneOpenDrawer`, `PaymentFixed`, `CallsEnd` | splits, payments, statuses and drawers, with steps that fail or stop and tills that overlap: one receipt per order, one open drawer per cashier, a payment that stays, no mutex kept; and with one call at a time, a counter-booking that fails leaves no live target unless its abort fails and is reported, no line is lost by a rollback, and none billed twice unless a target was left behind |
| `override_all` | `RowsKeepMode`, `RemovedIsInCloud`, `OperatorDecides`, `OutageOpensMode`, `ModeEnds` | changes waiting for the cloud keep the mode on, none is dropped undecided, the cycle respects the operator, an outage opens the mode for good and a cloud that is back ends it for good where no change is in conflict |

Violations, each a disagreement between what the repository says and what its code does:

| Run | Property | The run shows |
|---|---|---|
| `outbox_overlap` | `CoalescingKeepsState` | two handlers of one record overlap; the older state gets the younger row id and the younger state is superseded |
| `pull_rewrite` | `ReloadIsFull` | a realtime pull writes back the cursor the reload removed |
| `pos_fifo` | `FifoPerOrder` | a patch in backoff is replayed after a later patch of the same order |
| `override_conflict` | `ConflictsKeepMode` | the cycle that marks a change as conflict leaves the mode on; the next one finds nothing pending, counts no conflict and switches it off with the conflict open |

The quotes and source lines are in `PROJECT.json` under `findings`. The type invariants of
`SyncCycle`, `PosOutbox`, `BusinessDays`, `Orders` and `EmergencyOverride` are in no run: they are proved.

### What is claimed under a premise, and what the code does beyond it

Each of these can be seen by adding the disturbance, or dropping the premise, in the
instance named.

* *Outbox.* `Replicates` fails with `"siblings"`: after a failed sibling
  query two states of one record travel in one request whose ops the cloud applies in
  parallel. It also fails with `"late"`: nothing orders a late push before a younger one.
  A crash between a change and its row, or a row that cannot be created, loses the
  change for the cloud; the code logs it and promises nothing.
* *Mutex.* With `"gap"` two triggers that both see a free slot, both read the connection
  and both run; with `"direct"` the operator's `syncNow` runs a cycle beside another one, since
  it takes no mutex. Both contradict the comment at `startCloudSyncSchedulerWorker`
  ("max. 1 Cycle gleichzeitig").
* *Pull.* `FollowsCloud` is for pulls that do not overlap: of two that do
  the one with the older page may write last while the other has moved the cursor on.
  `NothingSkipped` is for records that can be compared and applied: the cursor passes the others, as the comments of
  `applyPulledRecords` say. It also fails with `MaxPages = 1` and two records, a bound that
  stands for 100,000 records in the code. A user created on the edge may be archived
  by a full pull before it is pushed; the pull after the push activates it again.
* *Business days.* Two rotations that overlap may both pass the check for an open day;
  the next one heals it. An order may be stored on a day that
  another request has closed meanwhile. `closeDay` patches the day it has read, also when a rotation
  has closed it, and leaves the pointer on it. With one request at a time, too: `hasActiveOrders` counts orders in status active
  of the pointer's day only. Orders in production or produced, open by `isOrderOpen`, and
  active ones on another open day do not block a rotation, which closes every open day; they
  are then on a closed day (`ActiveTabsKeepDay` says what remains). And `discardOrphanDay` leaves out the
  check for the current day when its read of the location fails, so one call may remove
  that day if it is empty and was opened by a rotation; after that every rotation fails at closing it.
* *Orders.* A create of a split's target that fails after its insert, and a process that
  stops between that insert and the counter-booking, leave a live target whose lines the source still
  has. Nothing in the code notices it, and
  the lines can be billed twice. `LiveTargetIsBooked` excepts these (`unnoticed`) and the ones whose abort failed
  (`reported`), `NoDoubleRevenue` supposes there are none. Splits of one order that overlap lose entries of `splitOff`, since each
  writes back the list it has read. A patch of the status alone takes no mutex, so beside a payment
  it may reopen or abort what is being settled. `UNCLAIMED` is in no row of the status table, so an order goes from completed over
  unclaimed back to active with its receipt. A split whose source was patched but
  cannot be read again is aborted all the same, and its lines are then on no live
  order. A drawer may be closed between the look for it and the write of the payment.
* *Override.* That conflicts do not hold the mode is the run `override_conflict`; `ModeEnds` is about a
  cloud that is back with no change in conflict, and `RowsKeepMode` about changes not yet decided. Against a cloud that answers 5xx
  the mode goes on and off: `runHeartbeatPhase` counts the failure and switches the mode on, but
  only an unreachable cloud ends the cycle, so the reconciliation follows at once, finds no row
  and switches it off without any heartbeat having succeeded, although the comment above
  `runReconcileOverrides` speaks of a heartbeat that is successful again. Rows that are pending when the operator ends the
  mode are not sent until it is on again, since `runReconcileOverrides` returns early; so are
  rows inserted while the cloud decides about others. A manual activation during
  a heartbeat's request may be overwritten as an automatic one, and one
  during a reconciliation may be switched off. A lost answer leads to a second request
  for rows the cloud has taken over.

Deadlock is checked in the runs of `SyncCycle` and `EmergencyOverride`. The others
switch it off: with all bounded changes used up and everything delivered those
systems have nothing left to do.

## 5. Fairness

* `SyncOutbox`: the event loop resumes handlers and the cycle, ticks recur, a backoff
  ends, the cloud works on what reaches it. Nothing is assumed of operator, failures
  or restarts; `Converges` is conditional on failures and restarts coming to an end.
* `SyncCycle`: the event loop resumes every call, and a cycle ends because every
  request to the cloud has a timeout (`cloudFetch`). Triggers need not come.
* `PullCursor`: cycles begin again (the tick re-arms its timer whatever happens), a
  pull that has begun goes on, created users are pushed in the end.
* `PosOutbox`: the browser resumes every await; poll, backoff and deadline are timers; the edge
  works on what it receives; the network comes back; somebody closes the dialog.
* `BusinessDays`: requests go on, tabs are settled, hours pass, and (strong fairness) the
  nightly run, which has a timer of its own, gets its turn between other requests. Nobody has to come to the till.
* `Orders`: calls go on; a mutex, a chain of promises, serves its waiters in their order
  (strong fairness of `Acquire`).
* `EmergencyOverride`: the scheduler begins cycles and ends them (requests have a timeout), time passes, a call of the
  operator and a change that was let through go on. That the cloud stays away or comes back
  for good is a premise of the two properties.

Weak fairness is enough unless said: once enabled, these steps stay enabled until taken.

## 6. What is proved

TLAPS checks every proof; the theorems hold for every number of records, cycles, rows, calls,
orders, days and so on, and under all disturbances but those a property itself excepts. The
assumptions are those of the modules' `ASSUME`s (bounds are naturals, disturbances
are known ones) unless a theorem names more.

* `SyncOutboxProofs`. `TypeCorrect`, `AckedSafe`, `RejectedSafe`, `SupersededSafe` come from
  one inductive invariant: types; every verdict and every op under way belongs to a row
  of its cycle's batch (`Rounds`); every verdict was given by the cloud (`Honest`); ids name one
  row each and none lies in the future (`Identity`); and the three properties
  themselves. `AckedIsDelivered` alone is not inductive because acking reads the answer, which
  must be known to be honest and about this batch. `NoOrphanSafe` assumes
  that patches succeed and the recovery reaches all rows.
* `SyncReplicationProofs`. `CoalescingSafe`, `NothingForgottenSafe` and the refinement `ReplicationSafe` assume
  `Orderly`: one push cycle, handlers of a record that do not overlap, and none of
  the disturbances but failing patches, the network, restarts between handlers and the operator's
  retries. The invariant says what a handler has read is the current state,
  the rows of a record are ordered by their versions, the youngest
  one is never superseded and carries the current state unless a handler is about to
  record a younger one, and nothing in a batch, on the wire or in the cloud is ahead of
  that. A step of the cloud then maps to `Deliver`, a write to `Change`, all else to a stutter.
* `SyncCycleProofs`. `CycleTypeCorrect`, `QueuedSafe` and `AwaitsSafe` hold whatever overlaps. The invariant of
  `ExclusiveSafe` (`Serial`) says that the slot is
  occupied exactly by the one that runs and that whoever is about to occupy it is alone.
* `PullCursorProofs`. `PullTypeCorrect` needs that marks and cursors read are not in the
  future (`ClockInv`), since the cursor takes over a mark. `OwnersSafe` needs that owners
  are unknown to the cloud, hence in no page, in no list of records to archive and in no answer
  (`OwnersInv`). `NothingLost` and `ReloadCompletes` are about pulls that do not overlap (`Orderly`). Their invariant
  (`OrderFacts`) says that a record which has not changed since the first page is on the edge, in the page at
  hand, or among those no page has brought (`OnItsWay`); what has changed since is later than
  the cursor will be. They assume `EnoughPages`: there are no more records than all pages of a pull hold,
  100,000 in the code. Without it the properties are false, since the loop ends and the
  cursor moves on. `Room` counts the pages against it.
* `PosOutboxProofs`. `OrdersSafe`, `PaymentsSafe` and the refinement `SalesSafe`: an entry is deleted only on a
  verdict that is still true when the replay books it. The invariant says that a call which is waited for belongs to
  the entry its replay is at (`Waiting`), that a replay busy with an entry
  has one (`AtEntry`), and that an answer which counts as stored means the edge has the entry
  (`Truthful`); the last is stable because orders are not unmade and a booked payment stays.
  With it an acknowledgement maps to `Release`, an insert to `Store`, a payment to `Book`; calls, deadlines,
  reconnects and restarts are invisible.
* `BusinessDaysProofs`. `NumbersSafe`: the number of an order on its way is remembered until
  the order is stored; while it is, the process hands out greater ones. After a restart the
  stored orders decide, and no request is left from before. `RotationSafe`, `ApprovalSafe`, `DiscardSafe` and `ActiveTabsSafe` are
  for one request at a time, as the properties are, and for every location with days that have
  drifted and tabs on any of them. Their invariant (`SerialFacts`) says that one
  request is at work (`Lone`), a day that was discarded is empty and spared by the pointer unless its read may fail
  (`GoneIsEmpty`), and each step finds what the steps before it have looked up (`CallFacts`): while a
  rotation closes days the day of the pointer has no active tab, when it creates its day no other is open, and when it moves the
  pointer that day is the only open one. Crashes in between keep this, since it does not say
  that a rotation ends. `ActiveTabsSafe` says nothing of tabs in the kitchen or on other open days, and `DiscardSafe` nothing of
  the pointer where a read fails (section 4).
* `OrdersProofs`. `DrawersSafe`: the create that is about to insert holds the mutex and has found
  no drawer of its cashier, and a patch never puts a drawer back. `ReceiptsSafe` and `PaymentSafe`: of the calls that are past
  the mutex of the payment patches no two are about one order, so what the one inside has read is
  still true when it writes. `SplitsSafe` and `RollbackSafe` are for one call at a time. `SplitsSafe` is about counter-bookings that fail,
  before or after they were written: what it leaves out is a create that fails after its insert and a stop of the process,
  and it allows an abort that fails, which is reported. At each step of a
  split, what the source has given away is nothing or just what the target carries.
  `RevenueSafe` counts units of lines, since a sum over receipts would need induction. Its
  invariant (`RevenueFacts`) says that what all live orders still have of a line, all of it together, never
  exceeds what was ordered, unless a target was left behind (`LeftOpen`), and that a receipt bills what its order still has. A split
  keeps the first because source and target exchange equally many units, and the second because an order with a
  receipt is split no more (`MayGive`).
* `EmergencyOverrideProofs`. `RowsSafe`: open rows, and changes about to become one, keep the
  mode on, and a cycle that is about to end it has decided about all of them (`Kept`). `RemovedSafe`:
  what the answer accepted is taken over by the cloud (`Held`). `OperatorSafe`: as
  long as the operator has not switched since, what the cycle has read is what the
  record says (`Known`).

Only model-checked: liveness (`Converges`, `TriggerServed`, `FollowsCloud`, `Drains`, `YesterdayEnds`,
`CallsEnd`, `OutageOpensMode`, `ModeEnds`). Fairness and ENABLED are outside the prover's reach, as are
induction over data and RECURSIVE operators; the modules contain none of the latter.

## 7. What is not modelled

* The cloud, except as the modules need it: its `sync-push` upserts each op without comparing
  versions, its `sync-pull` filters by change time and visibility and pages its answer, its
  `sync-reconcile-overrides` takes each change over or refuses it.
* Payloads, except as versions; field stripping (edge-local fields of users, legacy
  discounts), validation and the tenant check in `sync-apply.ts`.
* Logging, `sync-runs` history, metrics, wording of errors.
* The phases of a cycle other than heartbeat, overrides, push and pull of users: printer
  commands, business days. The rotation of the token, a 401 that ends the pairing, the
  keepalive and the slots of the scheduled mode.
* Prices, taxes and discounts of an order, changes of its lines by patches, who may cancel; counted amounts
  of a drawer; the signature of the TSE, which never blocks an order; the fiscal counters.
* Business days that a paired cloud manages, and the aggregation that follows a close.
* What two modules would have to show together: an edit of the edge that a pull overwrites
  while it waits in the outbox.
* The bulk of the repository by lines, which is user interface (admin, terminal, setup), schemas,
  migrations, print layouts and single-step services: a state machine of it would repeat one
  assignment per action. The parts and the reasons are in `PROJECT.json` under `components`.
