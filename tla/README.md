# Specifications of restock-system

restock-system pulls sales, stock and shipments from the Saihu ERP into
PostgreSQL, computes from them what to buy and what to send to which overseas
warehouse, and lets users edit, export and archive the resulting suggestions.
This directory has TLA+ models of the parts of `backend/app` where processes,
requests and crashes interleave, and of the arithmetic of the engine. TLC checks
them on small instances, TLAPS proves the main invariants for all instances.
Paths below are relative to `backend/app`.

## The system and its parts

```
 scheduler ─┐ enqueue_task            ┌─ sync_* ── Saihu client ── Saihu ERP
 API calls ─┴──────────► task_run ──► worker ─ calc_engine ── suggestion (draft)
                            ▲           └─ retention_purge        │   ▲
                  reaper ───┘                    │          patch │   │ archive, delete,
                                                 ▼                ▼   │ toggle
                                        workbooks on disk ◄── snapshot export
```

* The **task queue** is a table. Producers insert rows under a dedupe key that a
  partial unique index keeps unique among active rows. Workers claim rows with
  `FOR UPDATE SKIP LOCKED`, renew a lease and write the verdict; the reaper fails
  rows whose lease has run out.
* **Sync jobs** run as tasks under session level advisory locks.
* **calc_engine** computes a suggestion in one transaction under an advisory lock
  and then, in another one, turns off the toggle that allows generation. The
  administrator turns it on again, which archives the draft and requires that it
  has been exported.
* **Exports** freeze the items in a snapshot, write a workbook and publish it.
  Retention deletes old workbooks and fails exports that got stuck.
* The **Saihu client** is shared by the sync jobs and by the task that replays
  calls Saihu has refused; its token is refreshed by whoever needs it first.
* **Orders** are written by the sync, by users who correct them and by the
  backfill that follows a change of the list of EU members.
* **Settings** are saved by administrators; the dashboard is marked as outdated and
  the scheduler of the process is reloaded.
* **Products, stock and mapping rules**, which the engine reads, are written by
  syncs, imports and users.
* **Accounts**: every request resolves its user and permissions through a cache
  that versions of the user keep current.

`PROJECT.json` lists every part with the sources it consists of, including those
that are not modelled.

## Modules

| module | models | state and actions |
|---|---|---|
| `TaskQueue` | `tasks/queue.py`, `tasks/worker.py`, `tasks/reaper.py`, `cancel_task`, `purge_task_run` | rows (`status`, `key`, `owner`, `lease`, `attempts`), worker processes (`wstate`, `job`, `lost`, `hb`), calls of `enqueue_task` (`cpc`...), cancel requests (`xpc`...). One action per committed transaction or per step of the event loop. |
| `DedupeSlots` | what the table promises: a slot per key | `Reserve`, `Begin`, `Withdraw`, `Conclude` |
| `TaskLease` | the clock: lease, heartbeat and reaper intervals | settings are part of the state; `Tick` advances the time; rounds of the heartbeat and passes of the reaper may raise (`BeatRaises`, `ReapRaises`) |
| `Replenishment` | `engine/calc_engine_job.py`, transactions of `engine/runner.py`, `patch_generation_toggle`, export, archive, delete | `toggle`, `sug`, `need`, `snapped` and a program counter for each run and request |
| `SnapshotExport` | `patch_item`, `_create_snapshot`, `delete_suggestion`, `retention_purge` | one suggestion with its item, snapshots, logs, files |
| `SaihuSync` | `sync/locks.py`, `common.py`, `all.py`, `inventory.py`, `out_records.py` | `lock`, `state`, `rec`, `seen` and executions (`pc`, `want`, `todo`, ...) |
| `EngineItem` | steps 1 to 6 of `run_engine` for one SKU | one action per step, `OrdersSynced` for a sync that commits in between |
| `WarehouseSplit` | `engine/step5_warehouse_split.py`, `engine/zipcode_matcher.py` | operators |
| `StockMapping` | `engine/sku_mapping.py` | operators |
| `Orders` | `sync/order_list.py`, `services/order_edit.py`, `tasks/jobs/order_info_match.py`, the EU part of `patch_global`, `core/country_mapping.py` | headers (`hdr`), the packages at Saihu (`remote`), the saved list (`eu`), one sync, editors and administrators with what they have read |
| `SaihuClient` | `saihu/client.py`, `saihu/token.py` | the token in memory, in the database and at Saihu, `refresh` tasks, calls of `post`; a step ends where the code awaits |
| `ApiCallRetry` | `tasks/jobs/api_call_retry.py`, `retry_call` of `api/monitor.py`, composed with `SaihuClient` | the rows of the call log, the task with the worker that runs it, executions with the rows they have loaded (`batch`, `cur`), requests |
| `GlobalConfig` | the row of settings and the changes that may be asked for | operators |
| `Dashboard` | `tasks/jobs/dashboard_snapshot.py`, the dashboard part of `api/metrics.py`; its task is an instance of `DedupeSlots` | the row `dash`, executions, viewers |
| `Scheduler` | `tasks/scheduler.py`, start and stop in `main.py` | scheduler objects, the global of each process, coroutines under way |
| `Settings` | `patch_global`, `set_scheduler_status`, composed with `Dashboard` and `Scheduler` | requests with what they have read |
| `Accounts` | `api/deps.py`, `api/auth*.py`, `core/permission*.py` | users, roles, the cache, requests with what they have read |
| `ThirdPartyStock` | `services/third_party_inventory.py`, its endpoints in `api/data.py` | batches, warehouses, current stock, requests |
| `StockCountry` | `sync/warehouse.py`, `sync/inventory.py`, `patch_warehouse_country` | the country of warehouses and of rows of stock |
| `ProductMaster` | `sync/product_listing.py`, the SKU part of `api/config.py` | commodities, listings, configurations |
| `StockSharing` | mapping rules and groups in `api/config.py`, `services/physical_item.py` | rules with their components, groups with their members, requests |
| `Catalog` | the four above together | `area` says which of them a behaviour follows |
| `Inputs` | the common bound on what comes from outside | `used`, `Input` |

`MC*` modules give TLC the symmetry sets and the larger constants; `*Proofs`
modules hold the theorems (`QueueOrdersProofs` those about `TaskQueue`, `TaskLease`
and `Orders`, `ExportRetryProofs` those about `SnapshotExport`, the client and the
replay, `SyncSettingsProofs` those about `SaihuSync` and `Settings`, `PlanningProofs`
those about `Replenishment` and `StockSharing`, `AllocationProofs` those about sums and
shares, on which `EngineProofs` builds). Definitions commented as *Mutant* or *As if*
are wrong variants of the definition that follows them: put in its place, they make TLC
report the property named in `PROJECT.json`, which shows that the property depends on
that line of the code.

### Choices worth knowing

* Transactions run at READ COMMITTED. Where the code reads and later writes
  without a lock (`cancel_task`, `delete_suggestion`, `patch_item`, the toggle
  request between its check and its `UPDATE`), the read and the write are two
  actions. Where a row lock or an advisory lock is held, the lock is a guard.
* Commits may succeed with their answer lost (`ClaimAnswerLost`,
  `MarkSuccessFails`), processes die in any state (`Crash`, `EngineDies`,
  `ExportDies`, `PurgeDies`, `Die`).
* A task that was reaped may live on: a worker in `TaskQueue` keeps running after
  its row is gone; engines in `Replenishment` and runs in `SaihuSync` may overlap. In
  `ApiCallRetry` an execution that has lost its task (`LeaseLost`) replays on until its
  next `ctx.progress`, while the successor runs in another worker (`Elsewhere`). One
  process has its client modelled in full; in the others a call ends in any of the ways
  the marks tell apart.
* The claim order (`priority`, `created_at`) is not modelled: any pending row may
  be claimed. Ages compared with retention cutoffs are a free choice.
* In `SnapshotExport` the rows of a suggestion are one item with one country: its
  quantity, the sum of its split and the purchase quantity, which is what the two
  validations compare.
* In `EngineItem` velocities are exact multiples of 1/2100 units a day (the common
  denominator of the three windows and weights). The code uses floats; where the
  exact value is whole `math.ceil` may give one more, and the model allows both.
* `SaihuSync` looks at every record once per pull. Pages that shift while they
  are fetched are not modelled.
* The ORM writes the columns whose value differs from the one it has loaded. In
  `Orders` the flush of an edit does so too, which is why an edit that loaded a
  header early does not bring an old status back.
* A statement of PostgreSQL finds its rows when it begins and, where it has to wait for
  a lock, changes the row as it is then. In `Orders` the backfill of a changed EU list
  is two actions for that reason (`EuUpdate`, `EuCommit`): rows that come or change in
  between are not mapped by it. In `Accounts` a `DELETE` of permissions takes the rows
  it has seen, not the same codes inserted again by another change (`Committed`).
* In `Orders` every package lies in the window of every pull. A package that is not
  pulled any more keeps the country its last sync or backfill has given it.
* In the modules that extend `Inputs`, requests, changes at Saihu and faults share
  one budget, `MaxInputs`: any mix of that many may happen, at any time.
* Every process registers the permission codes when it starts. `sync_permissions` is
  the start of the process that serves the requests, `SyncedElsewhere` that of the
  worker or the scheduler, next to which this process keeps its cache.
* A payload of the dashboard is represented by the settings it was computed with;
  `_mark_failed` reads and writes the row in one step.
* The parts of `Catalog` write different tables and read nothing of each other, so
  each behaviour follows one of them.

## Runs

| run | states | bounds | checks |
|---|---|---|---|
| `task_queue` | 44,958 | 2 rows, 2 keys (one of an unregistered job), 2 workers, 2 producers, 1 canceller | no two owners of a key (`ExclusiveWhileOwned`), verdicts stand (`VerdictStable`), every task ends (`EveryTaskEnds`), refinement of `DedupeSlots` (`ImplementsSlots`) |
| `task_lease` | 77,382 | lease to 8, heartbeat and reaper interval to 3 ticks, 2 reaper passes in a row that raise | live workers keep their row (`ReapsOnlySilent`), orphans are reaped in time, which is longer by an interval for each pass that raised (`OrphanBounded`) |
| `replenishment` | 88,543 | 2 suggestions, 2 engine runs, 2 toggle requests, 1 deletion | `AtMostOneDraft`, `NoSilentLoss`, `CycleClosed` |
| `snapshot_export` | 86,216 | 2 snapshots, 1 edit, 2 exports, quantities to 1, 1 killed retention run | `FileIsSnapshot`, `ExportedIsBacked`, `StuckIsSwept`, `MissingFileIsExplained` |
| `saihu_sync` | 246,276 | 2 executions, 2 records, 4 starts | the rows mirror Saihu after a success (`SuccessMirrors`), `RunningIsLive` |
| `engine_item` | 216,932 | order lines at each edge of each window; stock absent, zero, short, ample; shared and single components; negative component stock; tied, shadowed and missing zipcode rules | the split follows the orders and loses no unit, steps 1 and 5 see the same units, every country is explained, quantities reach their target by less than a unit more, components are not spent twice |
| `orders` | 798,821 | 2 packages, batches of 1, 1 editor, 2 changes of the EU list at a time, 3 inputs | syncs keep edits (`SyncKeepsEdits`), edits keep what a sync has refreshed (`EditsKeepRefresh`), the two country columns agree (`UnlockedMerged`), headers converge (`Converges`) |
| `api_calls` | 349,905 | 2 callers, 2 executions of the replay, 2 manual retries at a time, 2 retries, 2 attempts, 2 logged calls, 2 tokens, 3 inputs | one refresh at a time (`SingleFlight`), replays are bounded and a queued call has an attempt left (`QueueAlive`), calls end (`CallEnds`), queued calls are settled (`QueuedSettles`) |
| `settings` | 478,185 | 2 requests, 2 refreshes, 1 viewer, 2 overlapping calls of the scheduler, 4 scheduler objects, 3 inputs | outdated figures are marked (`OutdatedIsMarked`) and the mark is cleared (`MarkIsCleared`), one scheduler runs (`OneRunning`), a reload takes effect (`ReloadIsEffective`) |
| `accounts` | 364,969 | 2 requests, 3 users, 3 roles, a cache of 1, 2 inputs | `CacheCurrent`, `SuperadminKept`, `PermissionsClosed` |
| `catalog` | 414,006 | 2 requests, 2 warehouses, 2 SKUs, 2 groups, 4 inputs | imported stock is that of one batch (`StockIsOneImport`), not of a cancelled one (`CancelledIsNotStock`), no combination counts a stock twice (`ComponentsDistinct`), countries converge (`CountryConverges`), SKUs get their configuration (`SkusConfigured`) |

Why the bounds are enough: every hazard here needs at most two actors in conflict
and one row that outlives another (a reaped row and its successor, a draft and
the one that replaces it, two versions of a snapshot, two confirmations of one
batch). The instances have these, and the bounds on retries, attempts and batches
are small enough to be reached; the proofs remove the bounds for most safety
properties. `CHECK_DEADLOCK FALSE` in `catalog.cfg`: when the inputs are used up,
parts without a sync have nothing left to do.

### Races the properties name

Some properties hold but for races that the code does not exclude. A history
variable records exactly these, and the property holds in every other behaviour.

* `NoSilentLoss`, `CycleClosed` (`excuse`): a run of the engine dies between its two
  commits, begins between those of another, or commits between the check and the
  archiving of a toggle request. The architecture document says that generating a
  suggestion turns the toggle off; a run that dies does not get to it.
* `VerdictStable`: a cancel request has checked the status and updates it without a
  guard, so that a task claimed in between is cancelled while it runs. The runbook
  says that only pending tasks are affected.
* `ReapsOnlySilent` speaks of workers whose heartbeat is alive: `_heartbeat_loop`
  ends at its first exception, although a comment in `Worker.start` says that the
  rule of two beats protects against one failure.
* `delete_suggestion` counts snapshots without a lock, so that one committed before
  the `DELETE` goes with the suggestion; `ExportedIsBacked` and `FileIsSnapshot`
  hold in spite of it.
* `QueueAlive` (`reopened`, `outrun`): of two requests for one call that read it at the
  same time, the second queues it again after the replays of the first have used up its
  attempts; of two executions that have loaded the same counter, both compare the limit
  with what they have loaded while both count the row up, so that it can stay queued
  with no attempt left. `QueuedSettles` says nothing of a call after its last attempt.
* `RunningIsLive` (`died`): after an execution that died, `sync_state` says running until
  the next one. `SampleIsVelocity` (`synced`): an order sync commits between step 1 and
  step 5.
* `OutdatedIsMarked` (`excuse`): a refresh that has read the old settings clears the
  mark, or a request compares with a row another request has changed since.
* `OneRunning` (`shared`), `ReloadIsEffective` (`alone`): calls of the scheduler's
  functions overlap, and one starts an object the other has replaced.
* `SuperadminKept` (`crossed`): two requests count the other superadmins before
  either commits. `CacheCurrent` (`joined`): a user joins a role whose change is not
  committed yet, or another process starts with other permission codes, which adds to
  no version of a user.
* `StockIsOneImport` (`crossed`), `CancelledIsNotStock` (`overtaken`): confirmations
  overlap; a cancellation has read `pending` before the confirmation commits.
* `ComponentsDistinct` (`mixed`, `checked`): two saves of one rule overlap; SKUs are
  put into a group after the check.

### Where code and documentation disagree

`scheduler_process` is expected to find a counterexample to
`OnlySchedulerEnqueues`. The architecture document says that jobs are only enqueued
in the process with `PROCESS_ENABLE_SCHEDULER=true`. Saving a setting of the
scheduler, or switching it on, calls `reload_scheduler` in the API process that has
the request, which starts a scheduler there.

`docs/runbook.md:164` says that a task whose worker was restarted is marked as failed
after at most `WORKER_LEASE_MINUTES` minutes. The reaper only looks every
`reaper_interval_seconds`, and a pass that raises is logged and waits for the next
interval (`Reaper._run_loop`). What holds is `OrphanBounded`: the lease, one interval,
and one more for every pass that raised in a row. Even with no such pass a row may stay
running for a whole interval past its lease: it does when a pass comes just before the
lease is over.

## Fairness

* `TaskQueue`: a call that has begun runs on; containers start; an idle worker
  polls; handlers end, as their requests have timeouts; final writes are
  attempted; a lease nobody renews runs out; the reaper loop runs. Nothing is
  assumed of crashes, failing writes, heartbeats or cancellations. At least one
  worker incarnation survives, since the container is restarted.
* `SnapshotExport`: requests end (possibly by dying); retention is started every
  day and a run goes on unless it is killed, which happens a bounded number of
  times (`MaxKills`); a row that stays in place gets old enough to be picked
  again and again (strong fairness, as retention is not always at that step).
* `Orders`, `Catalog`: the scheduler starts the sync again and again and a worker
  executes it; that a run fails is an input, of which there are finitely many.
* `ApiCallRetry`: some coroutine of the client goes on, since HTTP requests have
  timeouts, and some process goes on with the replay: the scheduler, the reaper or an
  execution, whichever can. This is less than the code gives, where each of them goes
  on. Nothing is assumed of tokens that expire, calls that are refused, leases that are
  lost and workers that fail or die, but that inputs are finite.
* `Settings`: the worker goes on with the refresh it has begun, the reaper runs, and
  someone looks at the dashboard from time to time (`MarkIsCleared` is about that).

## Proofs

For all values of the constants: any number of rows, keys, workers, requests,
packages, users, records, and any bounds on the settings. The only assumptions are
the named `ASSUME`s. They say that bounds are naturals, that placeholder values are
not members of their sets, and what the inputs are: generated items are consistent
(`SnapshotExport`), the key of a group is not the code of a SKU (`StockSharing`), a
view depends on no other code and is registered with its actions, and the first users
include an active superadmin (`Accounts`), codes and postal codes submitted for an
order are such (`Orders`), sheets are finite (`ThirdPartyStock`), target days are
positive and the components of a mapping too, as a check constraint of the table has it
(`EngineItem`). TLC evaluates all of them in the runs.

Every proof has the same layout: an inductive invariant, a lemma for each action or
group of actions that disturbs it, and theorems that derive the properties.

* **`QueueOrdersProofs`**: `IInv` adds to the properties that ids from `nextId` on are
  unused and that rows that never ran have no attempts. `ActiveUnique` is kept by the
  insert because the index refuses it otherwise, by the other actions because none
  makes an inactive row active. `ExclusiveWhileOwned` follows from `ActiveUnique`, as
  an owner's row is running and has one owner. `VerdictStable` is an action property
  proved from `IInv`. The refinement (`ImplementsSlots`) needs `IInv` on both sides of
  a step: a key has one active row at most, so that what happens to a row is what
  happens to its slot (`RowMoves`). For the clock, `Slack` bounds the remaining lease
  from below by the time since the last round, which `2 * beat < lease` keeps
  positive; `ReapedInTime` relates the age of an overdue row to the time until the next
  pass and to the passes that have raised since the last good one: each of them costs a
  whole interval (`GraceGrows`), and only a pass that commits sets the count back, with
  the row gone or its lease not over. For the orders, `OrdersInv` relates what each party holds to the headers as
  committed. A row in the open batch was computed from the header that is still there,
  as the row lock keeps others out, so the protected columns it copied are the present
  ones (`SyncKeepsEdits`). A header an editor has loaded is still there and still
  locked if it was, so the flush of the changed columns sets the lock and touches
  neither status nor items (`FlushedRow`, `EditsKeepRefresh`). `UnlockedMerged` is
  kept by upserts and backfills for any list and any rows a backfill has found, and
  edits lock the row.
* **`PlanningProofs`**: `RInv` says that one run is inside the advisory lock and that
  the drafts its `UPDATE` has found are all there are, hence `AtMostOneDraft`. `Clean`
  is the second layer: as long as no excuse is on record, no draft exists while a run
  computes and none is unexported while a toggle request is under way. For rules and
  groups, `SharingInv` says that a SKU is a member of one group at most, that checks
  are never ahead of the groupings, and what a save under way has checked.
  `ApartStays` is the key lemma: setting members apart, by disabling or deleting a
  group, makes no two SKUs the same stock, as each resolves to its only group or to
  itself.
* **`ExportRetryProofs`**: for the exports, `XInv` says that each export has a
  snapshot of its own without a log, whose frozen item is its context, that later ids
  are unused and that versions do not exceed ids. `NextVersionValue` shows that
  `max(version) + 1` extends the versions `1..m` to `1..m+1`. For the client,
  `FutureIsFlight` says that a refresh that has not got its result is the one whose
  future the manager keeps, hence `SingleFlight`. For the replay, with any number of
  executions beside each other, the bound on replays is not inductive: what is, is that
  the attempts of a row and the executions that have it in hand are together at most
  `MaxAuto - 1` and the number of executions. An execution loads a row only while it
  has an attempt left and holds it once (`FewHold`, `RetryLoad`), and a mark counts one
  up and takes one hold away (`LessInHand`, `RetryMark`). A mark that queues a row again
  has compared the limit with the counter the row still has, or the row is on record as
  `outrun`, so one that waits has an attempt left.
* **`SyncSettingsProofs`**: `SInv` says that who is past the locks holds them, that
  start times exceed every earlier `last_seen_at`, and what the rows are in each phase
  of `sync_out_records`. The strict comparison of the ageing is what makes the rows of
  the own run survive. For the settings, `MarkInv` is nearly the property. `Consistent`
  describes the scheduler objects, the global of each process and the calls under way:
  a call that is alone has in hand what the global refers to, so that what runs is
  current or was started by a call that was not alone. `ReloadInv` says what a call
  that is alone has read and built. `ReloadTakesEffect` assumes that one process does
  everything (`OneProcess`): with a second one, the settings may change behind a reload.
* **`AllocationProofs`** is what the engine needs of quantities: sums over finite sets
  do not depend on the order (`AccRemove`), and can be added, scaled and split. The
  inductions look for a minimal counterexample among the subsets of a finite set
  (`SubLeast`). `LargestRemainders` is about the rounding both the warehouse split and
  the sharing of components use: rounding down leaves fewer units than there are
  shares that are not whole (`LeftOver`), and exactly that many come first by
  remainder (`RankCount`), so the whole quantity is given out and no share is off by a
  unit.
* **`EngineProofs`**: `EngineInv` says of each step that its results are what its
  inputs give: velocities are those of the orders unless a sync has committed since
  (`SalesInv`), the mapping and the stock step 2 has read are what the tables may hold
  (`StockInv`), every country has its quantity or a reason (`QtyInv`), and the sample
  of a restocked country was split as `explain_country_qty_split` does (`ItemInv`).
  The properties follow from facts on the operators. `SplitFacts`: the quantity is
  first divided between orders with and without a known warehouse, then by weights or
  evenly, and nothing is lost on the way. `SampleFacts` and `SoldGrows`: each line
  counts once, and the three windows lie within each other. `Rounded`: the rounding of
  step 3. `Conserves`: a group needs no more of a component than its commodity was
  given of it (`Builds`), and commodities are given no more than there is
  (`Allotted`).
* **`AccountsProofs`**: `LastChecked` says that a removal that has counted the other
  superadmins, and was not overtaken, leaves one. `ClosedInv` says that what a change
  of permissions saves is closed, and so is what its `DELETE` leaves, and that two
  changes that wait for their commits have no row in common. `CacheInv` says that
  every entry of the cache is one the user's version has had, and is right if the
  version is the present one; whom the change of a role has not bumped was put into it
  meanwhile. When another process changes the codes, every user there is counts as
  exempt (`StartedElsewhere`).
* **`ThirdPartyProofs`**: `ThirdPartyInv` says that, unless confirmations overlapped,
  a confirmation under way has the items the batch still has, and that the rows which
  came after its `DELETE` were entered by hand; that stock of a batch whose
  cancellation is under way came in since that has read it; and that an edit never
  turns a manual row into an imported one. `TotalsAreSums` shows that the totals by
  warehouse and SKU are those of the items after they were linked to their warehouses.

The theorems of `PlanningProofs` and `ThirdPartyProofs` about parts of `Catalog` are
about `SharingSpec` and `ThirdPartySpec`, the parts on their own. A behaviour of
`Catalog` is one of each: a step of another part leaves the variables alone.

The theorems about `ActiveUnique`, `AttemptOnce`, `SnapshotSound`,
`VersionsContiguous` and `OneInJob` have no run of their own: they hold for every
instance.

Most leaves are first-order steps that Zenon finds, and the proof modules say so with
`USE Zenon`; leaves with arithmetic or updates of functions and records cite `SMT`.

Only model-checked: the liveness properties (`EveryTaskEnds`, `StuckIsSwept`,
`Converges`, `CallEnds`, `QueuedSettles`, `MarkIsCleared`, `CountryConverges`,
`SkusConfigured`, `MissingFileIsExplained`), which are out of the prover's reach. Every
other property of a passing run is a theorem.

## Not modelled

* Of the parts above: shifting pages of Saihu and rate limits; `recalculate_item`;
  downloads; the check of `target_days` against `lead_time_days`, which two requests
  can get past together; renaming a mapping rule; `update_role`, which writes a name
  and a description; the lockout after failed logins; rows of stock that Saihu does
  not report any more, which keep their last quantity; listings, whose country the
  backfill of the EU list does not touch.
* The figures of the dashboard, data queries, workbook layouts: functions of the
  database without a state of their own.
* Shops, zipcode rules, country names, the daily archive: single-row writes nobody
  races with.
* Request middleware, logging, error pages, signing and hashing, migrations and the
  frontend.
