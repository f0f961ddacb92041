# Spice Town Labels: TLA+ specifications, model checks and proofs

This directory holds the formal model of the label printing system in this
repository: what happens to a label from the moment somebody (a scanner, a
manager at the review panel, a catalog sync) asks for it until it is printed, through the
threads, processes and machines that may interleave, fail or restart on the
way. `PROJECT.json` is the index: components, runs, the map from definitions to
source lines, mutants, hazards, findings and theorems. This file is the guide.

## 1. The system

The app is a Flask program served by gunicorn with one process and four request
threads (`Procfile`, `-w 1 --threads 4`), with SQLite as its only store. Two
deployments share the code:

* **local mode**: the process that serves the scanners also drives the printer,
  through an in-memory queue and one worker thread;
* **remote mode** (`PRINT_MODE=remote`): the hosted app only inserts `print_jobs`
  rows; an agent at the store (`scripts/print_bridge.py`) polls for them over
  HTTP, fetches each label as raster bytes and streams them to the printer.

### 1.1 Inventory

| Component | State it keeps | Operations | Interacts with | What is hard about it |
|---|---|---|---|---|
| Bridge API `app/routes/bridge.py` | `print_jobs.status`, `claimed_at` | claim next (with stale re-queue), raster, complete, ping | agents over HTTP; request threads over SQLite | interleaving of statements on several threads; lost replies; claims that time out while the agent lives |
| Store agent `scripts/print_bridge.py` | the job in hand, its attempt | claim, fetch, send, report, back off | bridge API, printer | at-least-once printing: lost reports, restarts, a printer that prints what it reported as failed |
| Print queue `app/services/print_queue.py` | `queue.Queue`, worker thread, row status | enqueue, process, stop, start | request threads, sync thread, printer | bounded queue, gap between commit and put, crash with the queue in memory, retries |
| Printer transports `app/services/printer.py` | none | send | worker | ambiguous failures (timeout after the label is accepted) |
| Automatic labels `app/services/auto_print.py` | pass lock, `reviewed_at`, `label_printed`; `label_events` | price pass, events pass | loader, queue or remote rows, review panel | claim / check / enqueue / release over several commits, against three other writers |
| Review panel and scanner printing `app/routes/api.py` | the same rows | print, print selected, dismiss | queue, price history | rows read before and written after other commits |
| Loader `app/services/loader.py` | products, price history, label events, refresh lock | upsert, bulk load, retire keys | provider, cache, scheduler | a map read before the feed, batches, partial loads, duplicate rows |
| Cache `app/services/cache.py` | product freshness, sliding window | get, refresh one, record | loader, provider | scan-time refresh during a bulk load |
| Scheduler `app/services/scheduler.py`, switches `label_settings.py` | jobs of APScheduler; two switches | periodic and nightly refresh, then the label pass | loader, automatic labels | overlap with manual refreshes; switches flipped during a pass |
| Rate limiter `app/services/ratelimit.py` | tokens, last refill | acquire, back off | Toast provider | boundaries, several waiting callers |
| Toast provider `app/providers/toast_provider.py` | OAuth token and its lock | ensure, invalidate, call | Toast API | logins and sleeps under a lock, late 401s, expiry margin |
| KloudC sign-in `app/services/kloudc_auth.py`, `routes/kloudc.py` | answer cache, call windows, hand-off cookie | check, redeem | KloudC API, request gate | answers stored out of order, grace, limits under a flood |
| Gates and demo mode `app/__init__.py`, `dashboard_auth.py`, `api.py` | session, caches | admit or refuse | every request | order of checks |
| Catalog sync `scripts/toast_sync.py`, `sync_catalog.sh`, the workflow, start-up import in `app/__init__.py` | `products.csv`, `price_changes.json`, commits | sync, push, pull, deploy, load, import | repository, loader, price history | crash between two files, wiped databases, repeated import, pushes that race |
| Hand-entered products `POST /api/products/custom` | none of its own | create or update one | products | a price that moves without a price log, hence without a label |
| Print history `app/services/print_history.py`, `/api/print-history`, `/api/last-print` | none of its own | describe jobs, last print | `print_jobs`, `price_history` | labels from before the price was recorded; a warning that must match the shelf |
| Scanner page `static/js/scanner.js` | product on screen, timers | lookup, search, print, poll | API | answers out of order, double clicks |
| Search ranking, shortening, label drawing, file provider | none | string, file and image work | | pure |

### 1.2 What makes each modelled component correct

* **Bridge**: one agent per claim until the claim times out; `done` means the
  label was handed to the printer, which is all the agent knows; reprints are bounded;
  settled rows are never handed out again; oldest first; every job is settled in the
  end.
* **Print queue**: no accepted row is forgotten; at most one job printing;
  nothing sent to the printer after a verdict (in particular not after "busy"); jobs
  leave the queue in the order they entered it; every job settled unless the
  process dropped it.
* **Price review**: no price change is printed twice by automatic passes; a change
  marked as printed has a label with its price or a newer one; staff decisions
  are final; when all is quiet the shelf is current; every change is reviewed.
* **Catalog**: a price that a load or a scan moved is the newest in the price log, for
  otherwise its label is never printed; each event gets one label at most, and is
  handled in the end; the catalog catches up with the point of sale after any
  race or failure.
* **Catalog sync**: every change of the newest sync reaches the review queue, once,
  whether the database survived or not; hand edits are never overwritten.
* **KloudC sign-in**: limits on outside calls hold; nobody is let in after the end
  of the session; the grace for outages never overrides a no; and it does work
  for staff who were signed in, during an outage or a flood.
* **Toast client**: the rate is never exceeded; the cached token is live; every
  call ends, although logins sleep under a lock.
* **Print history**: it shows the price that is on the label, and the warning "already
  printed at this price" is given exactly when the shelf shows that price, as far as
  the code can know either.

## 2. Modules

| Module | Models | Kind |
|---|---|---|
| `JobLifecycle` | what both print modes promise about a row: `queued -> printing -> done | error`, with or without claims that time out | abstract specification |
| `Bridge` | bridge API, request threads, store agents, network | detailed; implements `JobLifecycle` with `Retakes = TRUE` |
| `PrintQueue` | enqueuing threads, bounded queue, worker, process | detailed; implements `JobLifecycle` with `Retakes = FALSE` |
| `PriceReview` | sync, automatic pass, scanner print, review panel, dismissal, printer, one product | detailed |
| `PrintHistory` | the price log, labels queued by every workflow, and what staff are told about them; one product | detailed |
| `Catalog` | loads, scan-time refreshes, hand edits, label events and their pass, switches | detailed |
| `CatalogSync` | sync script, workflow, repository, pulls, deploys, start-up load and import | detailed |
| `KloudcAuth` | request threads that check tokens or redeem codes, KloudC | detailed |
| `TokenBucket` | the rate limiter | shared by `ToastClient` |
| `ToastClient` | callers of the Toast API with bucket, OAuth token and retries | extends `TokenBucket` |
| `MC...` | one per specification: the instance for TLC | |
| `BridgeProofs`, `PrintQueueProofs`, `PriceReviewProofs`, `PrintHistoryProofs`, `CatalogProofs`, `CatalogSyncProofs`, `KloudcAuthProofs`, `ToastClientProofs` (with the bucket's) | theorems | proofs |

Definitions whose names end in `Mutant` are deliberate bugs, each written next
to the definition it distorts. No specification uses them; `PROJECT.json` says
which property must notice which.

### 2.1 Bridge

One `status` and `claimedAt` per row; one record per request thread saying at
which statement of `claim_next` or `complete_job` it is, and which agent waits
for its reply; one program counter, job and attempt per agent.

The atomicity is SQLite's. `claim_next` starts with the stale UPDATE. When it
matches nothing it has still opened a write transaction, so the candidate's
SELECT and the claiming UPDATE run under the write lock: `NextAtomic`. When it
matches rows the code commits, which drops the lock: `NextRequeue`, `NextPick`
and `NextClaim` are then three steps, and the conditional UPDATE in the last
decides. `complete_job` reads (`CompleteRead`) and writes (`CompleteWrite`) in two
steps, because its read holds no lock.

The agent's steps are those of `main` and `print_job`. `Send` has three outcomes: handed
over, failed before the printer had the bytes, failed after. Handed over (`HandOver`) is
what a normal return of `send_to_printer` or `spool_to_file` means: the bytes are in the
socket or in a file. The agent ignores the printer's status, so that a label came out is
more than it knows, and no property says so. A report of "done" that raises lands in the
same `except` as a failed print, as in the code, which is why after a lost reply the
raster is sent again. Faults (`LoseReply`, `LoseRequest`, `FetchFails`, `Crash`) are
bounded by `MaxFaults`; a `TimeOut` without a fault happens only when no thread is left
to answer. A claim may become older than the cutoff at any moment (`GoStale`).

`handed` and `requeued` are history variables: no guard reads them. `handed` counts
hand-overs and saturates at `PRINT_RETRIES + 2`, one above the bound any property mentions.

### 2.2 PrintQueue

`InsertRow` and `PutId` are two steps, as in `enqueue`: the row is committed
before its id is in the queue. The worker's commits, its `get` and its `send` are
steps. `StopWorker` is the atexit hook; `Shutdown` and `Crash` end the process,
which loses everything but `status`; `Boot` starts a worker on an empty queue and
reads no rows, as `create_app` does. `WorkerCommitFails` and `RejectCommitFails`
are commits that raise ("database is locked"). `lost` is history: the open jobs
an exit or a failed commit dropped. The code does not recover them, and the
properties name that exception rather than hide it. `ahead` is history: the jobs
that were in the queue when a row was inserted. `SubmissionOrder` is therefore weaker
than "jobs print in submission order": two requests may insert in one order and put in
the other, which the model does and the property exempts. `HandOver` is the transport's
success, which for CUPS is that `lp` accepted the job; `handed` counts these.

### 2.3 PriceReview

All writers of one product's `price_history` rows and the jobs they queue.
Changes are numbered in commit order, and timestamps are compared through those
numbers: `recorded_at` of change *v* and `created_at` of a job are in order iff *v*
had committed when `created_at` was set. `reviewed_at` is whoever stamped it,
which is exactly what `_release` and the marking step compare. Products do not
share rows, so one product stands for all; a pass is its turn at that product.
A label shows the price at the moment of rendering, in both modes.

A pass is `PassRead` (with the lock), `PassClaim` (the conditional UPDATE),
`PassCheck`, `PassEnqueue`, then `PassMark`, or `PassRelease` after a refusal.
`PassRaises` is any other exception: the `finally` frees the lock and the claim
stays. The scanner queues first and reads and clears the rows later; the panel
reads a row, queues and writes it by primary key. `Crash` ends the process: in
local mode nobody works on its jobs any more, in remote mode the agent goes on.

### 2.4 PrintHistory

One product, its price log and its print jobs. The clock is a counter of stamps
(microseconds in the code: no two are equal), and `Pause` jumps further than the
matching windows of `_match_legacy_change` and the week of the import. `PassClaim`,
`PassRead`, `PanelRead` and `ScanRead`, then `Enqueue`, then `PassMark` or `Mark` are the
workflows of `PriceReview`, one at a time: their races are checked there. The price is
read in one step and the job inserted in another (`work`), so a sync may commit in
between. `upgraded` says whether `print_jobs` has the columns that record price and
change; a `Restart` may add them, so jobs of both kinds mix, and may import changes
from `price_changes.json` (`Import`).

How labels are printed is left to `PrintQueue` and `Bridge`; what they allow is allowed
here. A label is drawn (`Draw`) any number of times, for a retry or a second agent, at
the effective price of the moment; a drawn label comes out (`ComeOut`) now, later, again
or never, before or after another job's; and the verdict (`Fail`, `Done`) says nothing of
either, except that "done" needs a label that was sent.
`Candidates`, `MatchLegacy`, `InferPrice`, `PriceOf`, `Listed`, `LastPrint` and
`AlreadyAtThisPrice` are the functions of `print_history.py` and its two routes, and
the properties compare them with history: the prices its `drawn` labels show, the
changes a job `covers`, whether the price `moved` between reading, INSERT and drawing,
and the price on the `shelf` with the job (`out`) of its label.

### 2.5 Catalog

A row per product with its price, the newest price in its log, and its label
event. A load is `BeginLoad` (lock, map), `ReadFeed`, then `LoadRecord` and `LoadCommit` per
batch, and `EndLoad`. `LoadRecord` reads what SQLAlchemy would: until the first commit
the objects of the map have the values read with it, afterwards they are read
again. It is a step of its own because a scan or a hand edit may commit between it
and the commit. The scan's refresh is `ScanFetch`, `ScanStore`, and `create_custom_product`
is `EditRead`, `EditCommit`: it writes a price and no log row, which `byHand` remembers of
the row until a load or a scan moves its price. The pass over the events has its lock,
its reading of the switches, and claim, label and mark as three steps. `PassFails` is a
refusal by the queue, after which the claim is given back; `PassBreaks` is any other
exception, in this pass or in the one over price changes before it: the lock is freed
and the claim stays for good (`lost`). Failures (`LoadFails`, `PassFails`, `PassBreaks`,
`ScanFails`, `Crash`), flipped switches, hand edits and labels printed by staff share one
bound. Keys are (barcode, name) pairs; in the instance
two keys have one name, so that one is the other's new barcode.

### 2.6 CatalogSync

The two files live in three places: the newest commit (`head`), the app's disk
(`disk`), and a run of the script (`ci` on a fresh checkout, `byHand` on the store's
machine). By hand the files are written one after the other, a pull also replaces
one after the other, and the script may die in between; then `disk.whole` is false
until the next complete sync, and `before` remembers the catalog there was when it
last was true. `BootLoad` may fail without stopping the start, as in the code, and
`BootImport` uses whatever `price_changes.json` is there. `Deploy` and `Restart(TRUE)`
lose the database. A load is one step here; `Catalog` has its interleavings.

### 2.7 KloudcAuth

`check` is one step up to the slot (it runs under the lock) and one step after the
reply; KloudC decides in between, at a moment of its own, so that replies may be
stored in another order than they were decided in. The cache is a sequence in the
order of stores, the limiter's callers are a sequence in the order of use, as in
the two `OrderedDict`s. `last` (the answer just given), `outside` (the calls of the
last minute), `callers` (those of each caller) and `verdict` (the last definite answer
stored) are history.
Two assumptions state what the constants of the code give: the limiter forgets a
caller only after more callers than there are calls a minute, and the cache holds
every answer stored during a grace. Without the second `RecentYesStillWorks` would
be false, which is what its mutant (a cache one entry too small) shows.

### 2.8 TokenBucket and ToastClient

The bucket is counted in units, so that a token may accrue in parts, and refilled
lazily as in the code. `budget` is history: an ideal bucket refilled at every tick.
A call of the client is a stage, two retry counters (its own and that of the login
nested in it), and what is left of a sleep, a flight and a gate's timeout. The lock is
held from `BeginLogin` to `LoginReply`, `LoginRefused` or the last `Raise` of the login's
retry loop. All times are what is left of them, so nothing in the model bounds the
run. Toast may revoke a token early (`Revoke`), which is what makes a 401 late.

## 3. Runs

| Run | Asks | Instance | States |
|---|---|---|---|
| `bridge` | safety and refinement of remote mode, and no deadlock | 2 agents, 2 threads, 2 jobs, 1 retry, 1 fault; symmetry on agents and threads | 1.04 M |
| `bridge_live` | every job is settled | 1 agent, 2 threads, 2 jobs, 1 retry, 2 faults | 320 k |
| `bridge_verdict_flips` | does a verdict stand, as the comment and the test say? (violated) | 2 agents, 2 threads, 1 job, 2 faults | |
| `print_queue` | safety, refinement and liveness of local mode, and no deadlock | 2 threads, 3 jobs, queue of 2, 1 retry, 1 fault | 610 k |
| `price_review` | passes against scanner and dismissals | 2 passes, 1 scanner, 2 changes, 1 fault, both modes | 339 k |
| `price_review_panel` | passes against the panel | 2 passes, 1 panel, 2 changes, 1 fault, both modes | 259 k |
| `scan_marks_unprinted_change` | is a change the scanner clears on its label, as the comment says? (violated) | 1 pass, 1 scanner, 2 changes | |
| `print_history` | is the history true, and the warning? | 1 product, 2 prices and 1 sale price, 2 changes (moves, sales, edits, restarts and imports), 2 jobs, 2 drawn labels, 1 pause; symmetry on prices | 3.13 M |
| `catalog` | price log, events, convergence, and no deadlock | 1 nightly and 1 manual refresh, 2 keys of one name, 2 prices, 1 hand-set price, 1 change, 1 trouble, cap 1 | 328 k |
| `catalog_sync` | does every change reach the queue once, do hand edits survive, and no deadlock | 2 keys, 4 feeds, 2 feed changes, 1 hand edit, 1 crash or failure, 2 weeks | 1.93 M |
| `kloudc` | limits, end of session, grace, and no deadlock | 2 threads, 1 staff token, 2 made-up ones, 3 callers of whom the limiter remembers 2, 2 calls a minute, cache of 2; symmetry | 863 k |
| `toast_client` | rate, token, every call ends, and no deadlock | 2 callers, 3 token names, 1 retry in each loop, 1 revocation, burst of 1 1/2 | 341 k |

Why the bounds are enough to see the interesting cases:

* two agents and two threads are what every race of the bridge needs: the old
  holder of a timed-out claim against the new one, a lost request still running
  against its retry, two claims of one candidate. Two jobs are needed for the
  order of claims. One retry exercises both branches of the loop. One fault
  reaches every fault action; liveness is run with two, so that a fault can hit
  the recovery from a fault;
* three jobs and a queue of two make the queue full with a job in the worker's
  hand; the stop sentinel competes for the same places;
* two changes of one product are what `newest` and the merged group are about;
  two passes are a sync and a manual refresh. One fault is a refusal, an
  exception or a crash, at any point;
* two jobs of one product are a newest one and one it must not be confused
  with, in the order they come out in too; two moves give a label two candidates to
  be matched with; a restart takes the place of one of them and mixes labels from
  before and after the upgrade; two drawn labels that differ are two jobs' or one
  job's before and after a move;
* in `catalog` a nightly and a manual refresh meet at both locks, a scan may fall
  between any two steps of a load, and one trouble (a failure, a hand edit, a flipped
  switch) hits any of them. A cap of one label a pass leaves the second event to the
  next pass;
* the four feeds of `catalog_sync` are a stub, one item, that item repriced and
  listed twice beside a second one, and the first one excluded while the second is
  repriced. Two feed changes make a sync's `before` differ from the first catalog;
* in `kloudc` a cache of two entries is the smallest that keeps a yes through a
  minute's two calls, so a flood of two made-up tokens is the worst one. The third
  caller makes the limiter forget one, whose calls are then older than a minute, so
  that up to symmetry it leads to the states that two callers have. The session
  ends within the clock's bound, and KloudC changes its mind once;
* in `toast_client` a bucket of three half tokens makes a caller find a part of a
  token; one retry in each loop makes the login give up once and be retried by the
  outer loop.

Symmetry is used only where the properties are invariants or `[][A]_vars` (`bridge`,
`kloudc`, `print_history`), which treat the permuted agents, threads, callers, tokens
and prices alike. Deadlock is checked except in the price review and print history
runs: there the system does come to rest, when the bounded changes are all
reviewed and the labels printed.

### 3.1 Fairness

* `Bridge!Fairness`: threads that serve a request go on; agents keep polling
  (`main` "keep trying forever") and their calls end (`urlopen(timeout=60)`);
  claims grow old. The actions are not subject to faults: no fault has to
  happen, and none is fair. Enqueuing is not fair either.
* `PrintQueue!Fairness`: the worker thread runs, a request that inserted a row goes
  on, and a process told to stop ends (`stop` joins for five seconds). Nothing
  makes a process start again, a client call or a fault happen.
* `PriceReview!Fairness`: passes run after every sync and the scheduler keeps
  syncing, and the printer works. Staff need do nothing.
* `Catalog!FairSpec`: the scheduled refresh comes back for ever (APScheduler) and finds
  `_refresh_lock` free now and then, hence strong fairness of its `BeginLoad`; a load or
  a pass that has begun goes on. Manual refreshes, scans and failures are not fair.
* `ToastClient!Fairness`: time passes, and threads run. A request in flight ends before
  its timeout is over, because `Tick` waits for it. That Toast answers well is never
  assumed: a call that ends may end with the last exception of its retry loop.
* `CatalogSync`, `KloudcAuth` and `PrintHistory` have safety properties only.

### 3.2 What the runs found

* **A verdict can flip** (`bridge_verdict_flips`). `complete_job` checks the status
  it has read and writes later without looking again. The "done" request is cut
  off on its way back while it stands between the two; the agent treats that as
  a failed print, gives up and reports "error"; the error is written, and then
  the first request overwrites it with "done". The comment in `complete_job` and
  `test_complete_done_and_idempotent` promise that a late report does not flip a
  settled job; the test is sequential. What survives is `SettledStaysSettled`: a
  settled row stays settled, one way or the other.
* **A scanner print can clear a change it did not print**
  (`scan_marks_unprinted_change`). `/api/print` queues the label first and then
  clears all unreviewed changes. A change that a sync commits in between is marked
  as printed, though the label may have been rendered before it; the automatic
  pass then has nothing left to print and the shelf keeps the old price.
  `QuietShelfIsCurrent` names this exception.

Other behaviour of the code that a reader should know of, met while modelling. No
run is spent on it: either a property exempts it by name, or it stands here only.

* A first load that is cut short leaves a catalog that is not empty, and the next
  load takes all the other items for new ones (`loader.py`, `record_events`).
* A load and a scan of one new item may insert two rows of its key; the load
  then follows the newest and the scan the oldest (`CatalogFollowsFeed` asks for
  some row).
* A late yes of KloudC replaces a no it gave afterwards, until the yes expires.
  `NoGraceAfterNo` speaks of the answers in the order they are stored.
* `price_at_print` is read before a label is queued, and the label is drawn when it
  is printed; a sync in between makes the history wrong. `HistoryShowsTheLabel` exempts
  these labels (`moved`).
* The docstring of `last_prints_for` takes it that a failed job produced no label. It may
  have: `lp` timed out with the job accepted (`printer.py:173`), the commit of "done"
  failed (`print_queue.py:242`, `266`), or the report of it was lost
  (`print_bridge.py:155`). The warning then speaks of an older label. A label that a
  restart dropped, on the other hand, counts as the last one for ever, and after a stale
  re-queue or an inversion in the queue an older job's label comes out last. What is on
  the shelf then is not known, and `WarningIsTrue` speaks only of the case where it is of
  the newest job that is not said to have failed.
* A price set by hand (`create_custom_product`) is not logged: no pass prints a label for
  it, it is in no review, and a load or scan that finds the item at another price overwrites it.
  `LoggedPriceIsCurrent` exempts the rows by name (`byHand`).
* An exception in a pass other than the two it catches leaves the event in its hand
  claimed (`PassBreaks`, `PassRaises`), and nothing ever looks at a claimed event again.
  `EventsAndLabelsAgree` exempts it (`lost`).
* Two requests may commit their rows in one order and put their ids in the other:
  `SubmissionOrder` is about what is in the queue at the INSERT, not about row ids.
* A late 401 drops an OAuth token that another thread has just fetched. It costs a
  login, and no property forbids it.
* A label of before the upgrade cannot always be told: `Knowable` lists what must not
  have happened (a sale, a price set by hand, another change reviewed as near).
* `price_changes.json` that lies there for more than a week is imported again at the
  next start although a load logged its changes: `ReportedOnce` compares rows of one
  week.

## 4. Proofs

`BridgeProofs` proves about `Spec` of `Bridge`, for any sets of agents and threads,
any number of jobs, retries and faults (from `BridgeAssumption`: the three numbers
are naturals and `None` is no agent):

* `TypeCorrect`: `TypeOK`;
* `Inductive`: the inductive invariant `IInv`, from which `DoneIsHandedOver`,
  `ClaimsAreExclusive` and `ReprintsAreBounded` follow;
* `SettledStays` and `NobodyOvertakes`: the two action properties;
* `Refinement`: `Bridge` implements `JobLifecycle`.

None of the safety properties is inductive alone. `DoneMeansHandedOver` needs that a
"done" on its way to the database, in an agent about to report it (`HoldersInv`)
or in a request thread whose agent may long be gone (`ThreadsInv`), is about a
job that was handed over. `OneHolderPerClaim` needs that a held job is not in the queue unless
its claim was taken back, so that a claim that wins creates the only holder
(`HoldersInv`). `BoundedReprints` counts hand-overs by the attempt of the one
holder (`PrintsInv`), which again needs that there is one. `IInv` is their
conjunction with `TypeOK`, and TLC checked it as an invariant of the `bridge`
instance before it was proved. The proof has one lemma per kind of step (a claim
that wins, an attempt, a hand-over, a call that fails) and one for all the steps that
only let go (`Harmless`); `StepSafe` puts them together, an action at a time.

`NoOvertaking` needs one more invariant, `OrderInv`: rows are inserted in the order
of their ids, and a thread that has picked a candidate knows that no older job
still waits for its first claim. `Refinement` needs `DoneMeansHandedOver`'s
strengthening: the step that writes "done" must find the label handed over.

What `JobLifecycle` promises is proved of it alone (`LifecyclePromise`: a job shown as
done was handed to a printer), through the module's instance, and `Refinement` carries it
over to the bridge (`LifecycleDone`).

`CatalogProofs` proves about `Spec` of `Catalog` (which `FairSpec` contains), for any keys,
refreshers, prices and bounds:

* `PriceLogIsComplete`: `LoggedPriceIsCurrent`, with the types the steps read
  (`TypeInv`). A load's or a scan's commit (`WrittenRows`) moves a price and its log
  together, a hand edit's (`EditedRows`) a price alone and says so, and nothing else
  writes either;
* `OneLabelPerEvent`: `EventsAndLabelsAgree`. It is not inductive: that an event about to
  be closed has no label, and that the one being queued has none yet, needs
  `PassInv`. A refresher in a pass holds `_pass_lock`, the events it has still to look
  at are open, and the one in its hand is claimed. A pass that breaks off lets go of
  the one and leaves it to `lost`. Everything outside the pass is
  one case (`OutsideIsQuiet`); a pass's step disturbs one row (`OnePass`).

TLC checked both invariants, `TypeInv` and `LabelInv`, on the instance of `catalog`.

`ToastClientProofs` proves of the bucket, from `BucketAssumption` (positive capacity,
rate and cost, and a capacity that holds one token):

* `BucketObeysRate`: `GrantsObeyRate`, for any callers. The property is not inductive: a
  grant looks at the lazy level and `budget` is the eager one. The invariant is that
  the two are equal (`NothingAccruedIsLost`), which needs that the time since the last
  refill may be cut off at the capacity and that writing the level back loses
  nothing;
* `WaitIsExact`: after the wait `acquire` computes there is a token, and not before.

It proves about `Spec` of `ToastClient`, for any callers, times and
retries (from `ClientAssumption` and `MarginAssumption`):

* `ClientObeysRate`: every step of the client is a step of the bucket or leaves it
  alone (`BucketIsDriven`), so that the bucket's theorem carries over;
* `LoginHoldsTheLock`: `TypeOK` and `LockInv`, by which the holder of `_token_lock` is
  exactly the thread that is logging in;
* `CacheOutlived`: `CachedTokenLives`, by the invariant `TokenInv`: a token on its way lives
  at least as long as the cache will keep it plus what is left of its flight
  (`UnderwayInv`), and a cached one at least as long as its entry (`EntryInv`), or was
  revoked. `MarginAssumption` is where 60 seconds of margin meet 30 of timeout.

`PrintQueueProofs` proves about `Spec` of `PrintQueue`, for any threads, jobs, queue sizes,
retries and faults (from `PrintQueueAssumption`):

* `TypeCorrect`, `JobsAreTracked`, `OneJobAtATime`, `PrintsInOrder`: the four invariants of the
  run `print_queue`;
* `VerdictsAreFinal`: the action property;
* `Refinement`: `PrintQueue` implements `JobLifecycle` with claims that never time out.
  `DoneIsHandedOver` and `FinalVerdicts` are what the rows have from it: a job shown as done
  was taken by the transport, and without timeouts a verdict is final and nothing is sent
  after it.

All of them come from one invariant. An open job is with its request (`RequestsInv`), in
the queue once (`QueueInv`) or the worker's, whose place in its loop says what the row
shows and how often it may have been handed over (`WorkerInv`); `RowsInv` says that there is no
fourth place but an exit or a failed commit (`lost`). `SubmissionOrder` is not about the
queue, so it needs `OrderInv`: of two jobs the earlier one that still waits is in front
of the later one or already in the worker's hand. `OpenJobsAreTracked` counts places,
and the proof turns "nowhere else" into cardinalities.

`PriceReviewProofs` proves about `Spec` of `PriceReview`, for any passes, scanners, panel
requests, changes and faults and both print modes:

* `MarkedChangesHaveLabels`, `NoChangeIsPrintedTwice`, `QuietShelf`: the invariants;
* `StaffVerdictsAreFinal`: the action property.

`PassLabelsAreDistinct` needs that what a pass has read and not yet printed is consumed by
no label (`PassInv`), which holds because a consumed change is never open (`RowsInv`) and
one pass works at a time. `MarkedHasLabel` needs the plans: a pass or a panel request
that is about to mark has a label for what it will mark (`PassInv`, `PanelInv`).
`QuietShelfIsCurrent` needs that labels show no older price than that of the moment
they were queued, and that the shelf shows the last one out (`JobsInv`).

`PrintHistoryProofs` proves about `Spec` of `PrintHistory`, for any prices, windows of time
and numbers of labels, price moves, pauses and hand edits (from `PrintHistoryAssumption`: the
numbers are naturals and `None` is neither a number nor a price):

* `HistoryIsTrue`: `HistoryShowsTheLabel`;
* `WarningsAreTrue`: `WarningIsTrue`.

Both rest on `ToldIsShown`: the price that is told of a job is the one on every label
drawn for it. For a job with a recorded price that is `LabelInv`: unless the price
`moved`, the record and all drawn labels have the effective price of the INSERT. For an
old job it takes more. `PriceThen` is what the price log tells of a moment; `LegacyInv`
says that a job queued at the base price has the `PriceThen` of its queueing, which
later rows of the log do not change (`ThenKept`, `ThenGrows`) and a price set by hand,
or a change imported into an empty log, does. `_match_legacy_change` goes by the nearest
review mark instead. It finds the same price because the changes one label covers are
reviewed and marked together (`CoverInv`, from `WorkInv` about the pass or click under
way): at equal distance the newest one wins, and if no other candidate is as near and no
newer change waited, that is the newest before the label (`MatchedThen`).
`WarningIsTrue` also needs that the label on the shelf was drawn for its job
(`ShelfInv`); its conditions make that job the one the warning speaks of (`LastPrint`).

`CatalogSyncProofs` proves about `Spec` of `CatalogSync`, for any items, feeds, prices and
bounds, from `SyncAssumption` (a catalog is a file, so its keys are finitely many):

* `NoChangeReportedTwice`: `ReportedOnce`. It is inductive only with `Follows`, that from
  every row of the log on the price of its item moves on to the one on file: a row that
  is added now differs from the price on file, so the row that moved it there lies
  between it and any earlier row with the same price;
* `SyncedChangesReachTheQueue`: `ChangesReachTheQueue`. Its heart is `FilesInv`: whatever
  died in between, files that are of one sync name every price that sync changed, with
  the price it has now. The import decides by the week's log, and that every row is
  there in the end needs `Follows` again;
* `SalesByHandSurvive`: `HandEditsSurvive`, by `WritersInv`: a run of the workflow that can
  still push has the sales of the newest commit.

`KloudcAuthProofs` proves about `Spec` of `KloudcAuth`, for any threads, tokens, callers, times
and limits (from the three assumptions of the module):

* `SessionsEnd`: `SessionEndHolds`. By `SessionInv` an entry of the cache and the cookie end
  with the session, and only a session KloudC knows can get a yes;
* `NoIsFinalForTheGrace`: `NoGraceAfterNo`, by `CacheInv`: the cache has one entry for a token
  and it is the last verdict stored. The lemma that carries it is `RenewedKeeps`: what an
  ordered dictionary keeps when a record is stored last and the oldest one may go;
* `LimitsHold`: `CallsWithinLimit`. What the limiter remembers of the last minute is what
  happened in it (`MemoryInv`), for a caller only while it is tracked. That a forgotten
  caller has no call in the minute is `OldestIsQuiet`, a pigeonhole: the callers are
  kept in the order of use, so if the oldest had a call, all `MaxTracked` of them had, and
  there are fewer calls than that. It is the only use of `TrackedAssumption`;
* `GraceOutlivesAFlood`: `RecentYesStillWorks`, with `CacheOutlastsGrace`. Its invariant,
  `GraceInv`, is inductive given `IInv`. It says that there is a list of all calls ever made
  (no variable keeps one) with at most `MaxChecks` of them in any minute (`Paced`), in which
  every call still out and every entry of the cache has a call of its own (`Traced`), an
  entry one of at most `Timeout` before it was stored. The cache is in the order of
  storing (`OrderInv`). So when an entry is dropped for a new token, the `MaxEntries` calls
  behind the entries and the one that comes back are all different (`DroppedIsOld`, a
  pigeonhole again); were the dropped one still in its grace, they would all be among the
  last `MaxEntries` calls (`LateCallsAreFew`). Every yes in its grace is then in the cache
  (`KeptInv`), as the last definite answer.

TLC checked each of these inductive invariants on the instance of its run before it was
proved, `GraceInv` with the list and the two maps kept in variables.

Every safety invariant and action property of the passing runs is a theorem. Only
model-checked are the liveness properties (`EventuallySettled`, `ChangesAreReviewed`,
`ClaimsResolve`, `EventsAreHandled`, `CatalogFollowsFeed`, `EveryCallEnds`): liveness under
fairness and `ENABLED` are beyond this prover, as is induction over data and any module
that declares a recursive operator. No module here declares one.

## 5. What is not modelled

* The scanner page (`scanner.js`): one page's JavaScript, with its own races (a late
  lookup replaces a newer one, "Print selected" can be clicked twice). They are in
  the list of hazards; the project keeps to the server and its agents.
* Label drawing, name shortening, search ranking, CSV, JSON and menu parsing, the
  signatures of cookies: pure functions on strings, bytes and images.
* The dashboard's own sign-in (a signed cookie and a row of a file that another
  program writes) and the demo mode (canned answers), which keep no state that
  other components read.
* In the loader: re-keying rows that carry a supplier's name as their barcode,
  retiring such keys, the flag for suspicious prices, columns other than the price.
  In the cache: the window of the miss-rate monitor, which only writes a warning.
* A switch between the print modes. Rows a local worker left in `printing` have no
  `claimed_at`, and the bridge never re-queues those; the modules keep the mode
  fixed.
* Retention, migrations other than the one of `print_jobs`, logging, metrics,
  command-line helpers.
* The order of two agents' system clocks: only the server's clock decides on
  stale claims.

## 6. Plan

Every safety property that is checked is proved. What is left:

* the safety half of the liveness properties: the measures that make progress (attempts
  of an agent, rows a pass has before it, batches of a load) and that no step turns one
  back, as action properties of the invariants that are proved;
* a price log as an abstract specification of its own (a load or a scan adds a row when,
  and only when, it moves the price on file), which `Catalog` and `CatalogSync` would
  both implement.

## 7. Running

    tlc -workers 2 -config Bridge.cfg MCBridge          # and the other pairs of PROJECT.json
    tlapm BridgeProofs.tla                              # and the other ...Proofs modules
