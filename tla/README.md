# A TLA+ verification of dash_options

`dash_options` is a Dash application with detached Python workers around a
PostgreSQL database. Traders look at option prices, volatility surfaces and
portfolio risk; calibrations of volatility surfaces run as durable background
jobs and are published under a certificate. The numerical engine is a separate
package, `options`, which the repository only calls.

The control logic that is hard to test sits where several processes, threads or
late browser answers meet over shared state: the job queue and its workers, the
daily and settlement runs that publish at most once through crashes, the guards
of the database, the caches and previews of the dashboard processes, and the
pages whose callbacks answer in any order. That is what the modules here model.
Valuation formulas, charts, grids and layouts are outside.

Paths below are relative to `src/src/dash_options/`.

## 1. Inventory

### Calibration execution (`calibration/execution/`)

| Part | State | Operations | What makes it correct |
|---|---|---|---|
| Job queue, `repository.py` | rows of `vol_calibration_jobs` and `_job_items`; a worker keeps only the claim it was granted | submit, request_cancel, claim, heartbeat, claim_item, complete_item, invalidate_from, complete, fail, abort | one live owner; progress exact; checkpoints survive crashes; success means every expiry; a job does not wait for ever |
| Daily run, `daily_runner.py`, `daily_store.py` | pinned inputs and candidate (insert-once artifacts), a stage row, the job row, the publications | submit_daily, run_daily, retry_daily, run_daily_batch, reuse of an accepted candidate | a job publishes once; nothing is published after cancellation, by a former owner, or on a changed lineage; a verified stage means a publication |
| Settlement worker, `settlement_worker.py` | job, candidate state, source events | reconcile, submit, run_one, guard, save, heartbeat | duplicates reuse jobs; holds are not overwritten by a former owner |
| Settlement operations, `settlement_operations.py` | sessions, promotion gate, retry audit, alerts | import_calendar, approve_promotion, retry_settlement, refresh_alerts | an automatic publication rests on evidence that still holds; the operator hears of what ended badly |
| Gas batches, `gas_batch_runner.py`, `calibration/workspaces/batch_controller.py` | the queue row; a page's job reference | submit_batch, poll (restarts dead workers), cancel, completed_batch, the detached worker | a batch succeeds on the source it was asked for; a page applies only a complete batch whose inputs it still shows |
| Fit pool, `fit_pool.py` | process pools, pending futures | stream of observed expiries, parallel starts, fallback to serial fits, withdrawal | one budget of processes; nothing runs on after the session |
| Database guards, `migrations/versions/20261029_03_baseline.py` | runs, publications, intraday pointer, publication stages and their points | triggers, checks and unique indexes over any statement | settlement and intraday lanes stay apart; a sealed stage keeps its points |
| Publication lookups and classification, `publication_status.py`, `metadata.py`, `errors.py`, `settings.py` | none (reads) | committed_publication, matching_active_publication, classification of errors | a commit whose answer was lost is found again |

### The rest of the application

| Part | State | Operations | What makes it correct |
|---|---|---|---|
| Workspace load cache, `core/workspace_cache.py` (used by `calibration/data_cache.py`) | LRU entries with deadlines, one lock per key in use | get_or_load, clear | forced refreshes are fresh; no caller starves; loads of a key are serialized (they are not, section 6) |
| Snapshot store, `core/snapshots.py` | immutable entries, a latest pointer, locks and a generation in a shared disk cache | publish, latest, resolve, bump | what a reference names is what it was |
| Volatility surfaces, `shared/surfaces.py`, `features/vol_surface/` | the active dataset and slices of a process; the reference a page keeps | build, activate, slice, watch, refresh | what is shown is what it is called |
| Portfolio cache, `features/portfolio/greeks.py` | two levels of cached valuations under a generation | ask, refresh | a refresh is seen in every process |
| Aspect jobs, `features/portfolio/aspect_jobs.py`, `aspect_worker.py` | one state per job and a map of the active requests | submit, poll, progress, finish, alarm | at most two jobs, one per request |
| Quote review, `features/vol_trades/ice_quotes/jobs.py` | records behind a lock that runs out, futures behind a mutex, subscriptions | ask, leave, cancel, launch, poll | nobody waits for a review nobody works on |
| Intraday preview, `features/vol_trades/intraday/` | preview jobs, pages, drafts, the intraday pointer | submit, poll, review, save, reopen, publish | a trader replaces only what his proposal has seen |
| Bloomberg refresh intake, `features/vol_trades/refresh.py` | unfinished jobs of each product, advisory locks | two kinds of request, poll | no two families refresh one product |
| Calibration pages, `calibration/workspaces/ttf.py`, `jkm.py` | browser stores | open, edit, calibrate, poll, publish | a surface is published as it was calibrated |
| Governed pages, `calibration/workspaces/hh.py`, `brent.py` | a candidate kept on the server or its fingerprint in the browser | load, calibrate, publish | a surface is published as it was reviewed, once |
| Pricer, `features/pricer/` | session stores, panels | add, duplicate, remove, edit, calculate, reload | results belong to the inputs beside them |
| Live prices, `features/live_prices/` | jobs of a process, the connection lock, retained snapshots, the desk curve | refresh, join, accept | the desk curve replaced is the one reviewed |
| Authorization, trade ledger, correlations, prices, health, layout | none that several actors change | reads, validation, export, presentation | outside (section 7) |

### How the parts interact

A page submits a job and starts a detached worker; the worker knows the database
only. Ownership is a row: `worker_id`, `attempts` and `lease_expires_at`. A
heartbeat thread inside the worker renews the lease and sets a flag when it
cannot; the main thread reads the flag, and every write that matters repeats the
ownership test in its own transaction. Between two such transactions the worker
may lose the job to another without noticing. Publication happens in the
`options` package, which calls the worker's guards back inside its transaction.
Pages poll the row and restart workers whose lease has run out.

The dashboard processes share a disk cache with locks that run out; each keeps
globals, futures and small caches of its own, and its request threads share those.
A page is a set of browser stores: a callback reads them when it is asked, works on
the server, and its answer replaces stores when it arrives, whatever happened to them
meanwhile.


## 2. Plan

Modules are parameterised by CONSTANTS with named assumptions, have one action
per operation, and state invariants as conjunctions of named parts; none that a
theorem reaches declares a RECURSIVE operator. Done, in order of importance:

| Modules | Composes / abstracts |
|---|---|
| `JobLedger`, `JobQueue`, `JobQueueProofs` | the ledger is what the queue promises to submitters; the queue refines it |
| `GasBatch`, `GasBatchProofs` | extends the queue: each write is a queue statement |
| `DailyRun`, `DailyRunProofs` | the daily runner over job rows, artifacts and publications |
| `SettlementWorker`, `SettlementAlerts`, `SettlementWorkerProofs` | guards, holds, sweep, reconciliation and promotion; alerts are an operator over its rows |
| `PublicationGuards`, `StageSeal` | the database under the three above |
| `SurfacePage`, `GovernedPage` | pages over batches and publications, both kept abstract |
| `WorkspaceCache`, `WorkspaceCacheProofs`, `PortfolioCache`, `SurfaceFeed` | threads and processes over caches and snapshots |
| `AspectJobs`, `QuoteReview`, `IntradayPreview`, `RefreshIntake`, `LivePrices` | jobs of the dashboard |
| `FitPool`, `PricerWorkspace` | the pools of a run; the session of a trader |
| `ServerProofs`, `SurfaceProofs`, `PartsProofs` | theorems of the components of `MCParts`: server side, volatility surfaces, pages; the last puts them together |
| `MCJobQueue`, `MCGasBatch`, `MCDailyRun`, `MCWorkspaceCache`, `MCCacheCalls`, `MCSettlementCalls`, `MCSettlementWorker`, `MCSurfaceFeed`, `MCParts` | instances for TLC |

Every safety property that a run checks is proved (section 5). What is left, in
order: an abstract specification of a governed publication (each date goes from one
verified revision to the next, and names the job that made it) which `DailyRun` and
`SettlementWorker` both implement; one of the load cache (a call returns a value that
was current at some moment of it) for `WorkspaceCache`; the types of `lru` and
`holder`.

## 3. Modules

### `JobQueue`: the PostgreSQL queue

Variables are the tables: `job` (rows of `vol_calibration_jobs`), `item` (rows of
`vol_calibration_job_items`), and `claim`, what a worker process remembers. One
action is one statement of `repository.py`, which is one transaction: `Submit`,
`RequestCancel`, `Claim`, `Heartbeat`, `ClaimItem`, `CompleteItem`,
`InvalidateFrom`, `Complete`, `Fail`, `Abort`; the order of actions of a worker is
left open, so that the results hold for every caller. `Abandon` is a process that
ends, dies or never hears the answer. Every caller mints a new `worker_id` for each
claim, so `worker_id` and `attempts` are one token. Time is kept as what is left of
`lease_expires_at` and `next_attempt_at`; `Tick` lets it pass for the database and
for the worker's own idea of its lease alike. Payloads, results and fingerprints are
left out. A key that is submitted again keeps its row, whether its inputs match or
are refused.

`JobLedger` is the promise: a key goes through queued, running and one final
status, tries only grow, results that were kept can only be lost while it runs.
`ImplementsLedger` maps the rows to it.

### `GasBatch`: the detached batch worker

Extends `JobQueue`: every write of the process is a queue action, conjoined with the
step of its program (`runner`). `moved` says which expiries of the official source
differ from the snapshot in a payload, `late` remembers for which jobs that happened
before their last result, `basis` what each saved result was seeded from. A call of
`run_one` goes claim, `check_source`, rounds of the engine (`Visit`, then `Save`,
`Take`, `Record` for each fit), `Done`, `check_source` again, `CompleteBatch`.
`check_cancel` (`Alive`) reads the heartbeat's flag and the row and not the lease;
fenced statements look at the lease. The heartbeat thread is `Beat` and `BeatFails`.

The numerical engine is outside the repository and is modelled from how the worker
and the tests use it: it visits expiries in order, continues after one that fails,
takes a checkpoint over when its dependencies are those it would have now, and
raises `StaleCalibrationCheckpoint` otherwise. The worker reads its checkpoints once
per round; the model reads them as the engine meets them, which is the same for an
owner, and a former owner writes nothing. Source changes only lead away from the
snapshot. Checkpoints without an expiry (`invalid_date`) are never written by this
code and left out.

### `DailyRun`: the daily settlement run

One product and one settlement date: `source` and `lineage` (the active publication of
the preceding date) are versions that others may move, `pubs` the publications of the
date, `job` the row, artifacts and stage of each job, `worker` the runner processes,
whose `pc` names the next transaction of `_run_claimed`. A candidate is named by what
it was fitted to, since a fit is deterministic. Each transaction is a step;
`Guarded` is the fence of the settlement worker that every one repeats. `Verify`,
`Match`, `Announce`, `Activate` follow publication: look for a commit whose answer
was lost, then for an equal active revision, then stage and activate, where
`publish_hybrid_surface` calls the guard in its own last transaction. `Hold`,
`Abort`, `Unavailable`, `Fail` are the handlers of `run_daily`, `Run` its crash
recovery, `Retry` the audited retry. Left out: expiry checkpoints and the progress
column, delays between attempts, the slots of the batch command. The heartbeat's
flag only ever leads to `Fail`, which may happen at any working step.

### `SettlementWorker`, `SettlementAlerts`: automatic settlement

A job is named by what its idempotency key is made of (date, mode, version of the
snapshot), so a second reconciliation of the same snapshot finds the first one's row.
`source`, `phase` and `reviewed` are the snapshots, the clock and the sessions;
`gate` is the promotion row; `pubs` the publications of each date. A process
(`worker`, one transaction per step) goes `Look`, `Submit`, `Claim`, `Fit`, then `SaveShadow`, or
`SaveCandidate`, `Recheck`, `Activate`, `Record`, `SavePublished`, `Complete`; `Fenced`,
`Hold`, `Abort`, `Fail`, `Refuse` are its handlers, `BeatFails` and `Crash` its
faults. `ApprovePromotion` repeats the evidence test over the promotion window,
`RetrySettlement`, `RequestCancel` and `ImportCalendar` are the operator's. The
alerts a daemon keeps are a function of the rows, `KindsOf`, in `SettlementAlerts`.
Rows of `vol_settlement_source_events` and the status report, which nothing decides on,
are left out.

### `PublicationGuards`, `StageSeal`: the database

Who writes is left open: `InsertRun`, `UpdateRun`, `InsertPublication`,
`UpdatePublication` and `WritePointer` try any new row, and the triggers, checks
and unique indexes of the baseline migration let it pass or not. `StageSeal` has
sessions whose transactions overlap: the trigger on points reads the stage `FOR
SHARE` and keeps that lock to the end, which is what holds a seal off.

### `SurfacePage`, `GovernedPage`: calibration workspaces

`SurfacePage` is a TTF or JKM page: `sheet` its stores, `awaited` the answer of each
callback that is under way, `batches` and `surfaces` what the server has. A
callback is asked in one step and answers in `Arrives`, over the stores as they are
by then; the digest test of `batch_controller.py` is inside. `GovernedPage` is an HH or a
Brent page (chosen in Init): HH keeps its candidate on the server (`candidates`) under
its owner, Brent keeps a fingerprint and rebuilds (`RebuildCandidate`). Publishing is a
chain of reads (`CheckCandidate`, `VerifySource`, `CheckBase`) before `CommitGoverned`,
whose transaction compares the base once more; corrections, deployments, expiries,
changes of identity and other publications fall between them.

### `WorkspaceCache`: the load cache

Threads call `get_or_load`; each critical section is one step. `entry` is the LRU
store, `keyLock` the registered key locks and `holder` who holds each; a lock object lives
on after it is unregistered while threads still hold or wait for it. Versions stand for
values, the time to live is a counter. `MCCacheCalls` restricts it to the three
sub-instances of section 4.

### `PortfolioCache`, `SurfaceFeed`: caches over the snapshot store

`PortfolioCache`: each key carries a generation, so `Refresh` invalidates by
bumping it; a request reads the generation (`Ask`), looks in the cache of its process,
then in the shared one, or loads behind a lock that runs out. `SurfaceFeed`: a request
prepares a snapshot (find it or build and publish it), activates it by four
assignments to the globals of its process (`SwapDataset`, `ClearSlices`,
`BumpGeneration`, `NameActive`) and reads slices by generation, while another thread
may be anywhere in the same; the watcher of sources is a request of its own. A page that
reports a click prepares twice: `FeedbackPage` is the first answer of
`initialize_vol_surface_page`, whose reference the page will name, followed by the unforced
preparation inside `refresh_data_feedback`, which activates whatever is the latest snapshot
by then, builds one if there is none, and may fail; `AnswerPage` stores the first reference.
A page without a click prepares once. `page.lost` marks a click whose count the session
already says was answered (section 7).

### `AspectJobs`, `QuoteReview`, `IntradayPreview`, `RefreshIntake`, `LivePrices`: jobs of the dashboard

`AspectJobs`: job states and the map of active requests in the disk cache; deadline, alarm of
the worker and poll of a page end a job in any order. `QuoteReview`: the record of a
selection behind a lock that runs out after ten seconds, its future behind a mutex,
taken in either order; `CancelLeft` and `MarkCancelled`, `JoinReview` and
`LaunchReview` are the two halves of the two orders. `IntradayPreview`: runs in a pool of one
thread that read the pointer first (`LoadInputs`) and fit later, proposals that wait on pages
and in drafts, and publications that compare the pointer they are given.
`RefreshIntake`: one statement of the submission per step, with the advisory locks
taken in the order of products. `LivePrices`: tabs join a job that has not begun to acquire
quotes; the desk curve accepted replaces the head a tab displays.

### `FitPool`, `PricerWorkspace`

`FitPool`: the stream of a product and the starts of its expiries share one executor lent by
the session; a pool breaks at any time, and each of the three decides what to shut
down and whether to fit serially. `PricerWorkspace`: workspace and kept results are
session stores saved by different callbacks; a reload restores each as it was last saved.
`Place` is where a structure stands in the order.

### `MCParts`

Extends thirteen modules: those from `PublicationGuards` on, but for the load cache (section 4 says how the run is to
be read); their definitions carry names of their own for that reason.
`ReviewedBeforeReplaced` joins the two properties about replacing what was reviewed.

## 4. Runs

| Run | Configuration | What it shows |
|---|---|---|
| `queue` | 1 batch, 3 expiries, 2 workers, 3 attempts | type, exact progress, exclusive leases, no orphaned item, complete success, checkpoints kept, the refinement; a queued job ends, or its last attempt is the one running |
| `gas` | 1 batch, 2 expiries, 2 workers, 2 attempts | no success on a source that changed before the last result; the engine restarts at most once per claim; good results are discarded only when stale |
| `gas_live` | 1 expiry, 2 workers | a submitted batch ends, or has used its claims up |
| `gas_resume` | the same | expected violation, section 6 |
| `daily` | 1 job, 2 processes, 2 attempts and a retry, 2 source versions, another publisher | success implies a verified publication of the job's candidate; a lost commit is found; what a job has saved and what it ended as stands, whoever still runs it; every submitted job is settled |
| `daily_shared` | 2 jobs, 2 processes | reused candidates fit; only current inputs are activated |
| `settlement` | a shadow and a publishing job, 2 processes, publications by hand, 1 fault, a retry; or shadow jobs of 2 versions and a publishing job of the second, 1 process | success is on record; a recorded revision is kept; a hold stands until it is retried or cancelled; alerts say what ended badly and only that; an automatic publication rests on evidence that stands; every job is settled |
| `settlement_beat` | a shadow and a publishing job, 2 processes, 1 fault | expected violation, section 6 |
| `cache` | 3 threads, 2 keys, 1 entry | forced refreshes are fresh, locks do not leak, every waiting caller is answered |
| `cache_serial` | 3 threads, 1 key | expected violation, section 6 |
| `feed_render` | 2 threads of one process, 3 requests | expected violation, section 6 |
| `parts` | thirteen components of two or three actors each | one invariant or action property of each component, and their types |

**How `parts` is to be read.** The thirteen components of `MCParts` share no state. A
behaviour chooses one of them (`part`) and the others rest in their initial states,
so the state space is the sum of the thirteen, not their product, and nothing is lost:
an invariant of one component cannot depend on another.

**Bounds.** Two workers are enough for every takeover, since a third process meets the
same row as the second; three expiries let one be invalidated between an earlier and
a later one, two let one depend on another. Attempts go to the limit, where the code
branches. One lease tick separates a live lease from an expired one; delays and
leases longer than that only add waiting. Two jobs are needed where they share
candidates or workers, and nowhere else do rows of different jobs meet.

`cache` checks three sub-instances, chosen by `focus`: two threads that evict each
other's keys, two threads under a source that changes, and three threads on one key,
where the third arrives after the lock of two others was retired. Two lock objects
are enough for those (a third could only be registered while two are still held or
waited for), and the two invariants are proved for any number of them. `cache_serial`
runs with three.

`settlement`: one date, since jobs of different dates meet only in the promotion window, which is
that date; `MaxFaults` bounds failures, cancellations and lost leases, and the second claim of a
job is the one a retry grants. `MCSettlementCalls` checks two sub-instances, chosen by `focus`.
"hands" has one version of the snapshot and two processes, of which the second only
publishes, and publications by hand. "evidence" varies the versions instead (`MaxVersion` 2, the
publishing job of the second: only a correction can publish on stale evidence) and needs one
process, because what can go stale there is moved by the source. Fairness is asked of the
steps an instance has. Every safety property of the run is proved for any bounds (section 5).

In `parts` the limits of the code are kept but small, so that they are reached: one
active aspect job (two in the code), one entry of `_FUTURES` (eight), one unfinished
preview (four), one job a process (four). The rest are bounds on how much happens:

| Bound | Value | Why it is enough |
|---|---|---|
| `MaxTickets` | 3 | a job loses its entry to a second and the third meets both |
| `Configurations` of runs | 2 | the worst ones: settlement scope with intraday evidence, which `BrentGuard` has to refuse for Brent and to let pass for TTF, and the intraday run of a draft on its base |
| `MaxSource`, `MaxGeneration` | 1 | a load before and a load after one change and one refresh |
| `Interests` | 3 pairs | one editor changes his mind while another shares his first choice |
| `MaxReviews` | 2 | a fit is cancelled and launched again |
| `Windows`, `MaxIntraday`, `MaxPreviews` | 1, 2, 1 | one publication by another while a proposal waits; the queue holds one run at a time |
| `Reopeners` | 1 trader | drafts are read only by who saved them |
| `MaxOpens`, `MaxAwaited`, `MaxEdits`, `MaxBatches`, `MaxSurfaces` | 1, 1, 1, 1, 2 | when the trader acts, one other answer may still be under way; a change of date, an edit and a foreign publication may each fall into every gap |
| `MaxStructures`, `MaxInputs`, `MaxClicks`, `MaxReloads` | 2, 1, 1, 1 | the place of one panel can be taken by another |
| `LastExpiry`, `Budgets`, `MaxProducts`, `MaxPools` | 2, {1, 2, 3}, 2, 4 | serial, equal and different budgets; a pool lost in the first product and met in the second |
| `MaxVersion`, `MaxCalls`, `MaxRefreshes`, `MaxRare` | 2, 2, 1, 1 | two requests, of threads of one process, interleave at every read; one lost lock, dropped snapshot or watcher |
| `MaxUpsets`, `MaxCalibrations`, `MaxGoverned` | 1, 2, 2 | any one correction, deployment, expiry or change of identity in any gap |
| `MaxJobs`, `MaxCurves`, `MaxEvents` | 2, 2, 1 | a capture and another one or an accepted curve beside it; one time-out, restart, reload or curve of somebody else |

Each property is shown to be able to fail: every module holds a few "slips", operators
beside the real ones that a careless change could put in their place (a claim at the
attempt limit, a donor of another lineage, a source comparison over listed expiries
only), and under each one TLC finds its property violated.

**Fairness.** `JobQueue`: time passes, a worker process ends (its calibration is a
bounded loop), and a job that is claimable again and again is claimed, because
pages poll it or its command is rerun. `GasBatch`: a process keeps executing, time
passes, the page of a batch keeps starting workers for it (`BatchController.poll`
runs on an interval), and not every one dies before its claim. `DailyRun`: a process
keeps executing, an unattended lease runs out, and an unfinished job is run again by
its owner or the batch command, which is an operational duty: there is no scheduler in
the repository. `SettlementWorker`: the daemon is supervised and polls
(`run_settlement_daemon`), so each process keeps taking its next step, and the lease
of a job nobody works on runs out; that a cancellation, a retry or a promotion ever comes
is not assumed. `WorkspaceCache`: every thread keeps executing and loaders return;
a key lock is not assumed to be fair. `parts` states no fairness and checks no
liveness.

## 5. Proofs

`JobQueueProofs` proves, for any jobs, finite set of expiries, workers, attempts and
lease lengths, that `IInv` is an invariant: `TypeOK`, `AbsentBlank` (a key not
submitted has no history), `TokensUnique` (no two claims share a token), `GrantsHonoured`
(a lease a worker still believes in is its own in the row, unless the job ended), and
the four safety properties. Exclusive leases are not inductive alone: that two
workers never hold a granted lease needs the row to vouch for each of them, hence
`GrantsHonoured`; and that no item is orphaned needs tokens not to repeat. Each action
has an effect lemma that says what it does to one row; invariants cite the effects.
`ProgressExact` is proved by its own induction with the cardinality facts of the
library.

It also proves that the queue implements `JobLedger` (each step maps to a
ledger step or a stutter, under `IInv`) and the action property `CheckpointsKept`.

`GasBatchProofs` proves that the batch workers are a behaviour of the queue
(`BatchSpec => Spec`). A process issues a queue statement only for a job it was started
for, with a result it has, which needs the type of the process rows and the invariant
`RunnersOK`. What is proved of the queue, the ledger included, then holds of every batch. Its second half is
about the rounds of the engine. `EngineInv` speaks only of the process that owns a
batch: everything it has visited has a result that is seeded from the good ones before
it (`VisitedOK`); in a second round everything good is so seeded and nothing good
stands behind an open expiry (`SecondRoundOK`), so that there is no third; when it
rereads the source nothing is open, so that a change from then on is not a late one.
The lemma `OwnerStands` says that what others do does not disturb it, from the
exclusive leases of the queue. `SucceededFresh`, `Converges` and `KeptUnlessStale`
follow.

`DailyRunProofs` and `SettlementWorkerProofs` argue alike. A process that lost its job may
believe anything; what its `pc` says of the rows (a stage is verified, a
candidate was fitted to the current inputs) holds as long as the row still carries
its claim. `IInv` is: types; for each job what its status says of its artifacts; for each
publication who made it; for each process, `WorkerOK`; and `TokensUnique`, from which it
follows that a step of one process leaves what another knows alone, or takes its claim.
`CurrentActivation` follows from the fence in the last transaction, `OwnCommitFound` from a
revision naming its job and from a second claim looking for it first. `SavedStands` needs more
than the fence: `WorkerOK` has to say that a process which may still write stands before
the artifact it is about to write, so that a row that carries its claim has not saved it
yet, that only a running row is held by a claim (`LeasesRun`),
and that whoever could publish holds a row that is not settled
(`SettledPublishNothing`). `RevisionKept` rests on `RevisionsFirst`: a job publishes only
where its date has no revision yet, so the one it recorded is the one a later claim finds
by its key (`RecordOK`), and what a former owner still writes is refused by the row. In the settlement worker, `RanksOK` (the order in which jobs
were created is strict) makes "the last job of a date" one job, which
`PublishedOnEvidence` and `AlertsExact` need.

`ServerProofs`, one inductive invariant a section: `LanesInv` (every
intraday pointer names a publication of its own draft and base, the active ones are of
settlement runs); `SealInv` (who has added points holds a share of an open stage);
`IntakeInv` (a submission holds the locks of a prefix of its products in the order of
`NextLock`, and when it inserts has found no job of the other family under them);
`PortfolioInv` (an entry of a generation is not older than the refresh that began it);
`AspectInv` (a job within its deadline is the active one of its request, so that counting
active entries counts jobs); `PoolInv` (the pool that is not shut down is the one the session
lends); `QuoteInv` (a record that says running names a fit, or the request that is about to
launch or end it).

`SurfaceProofs`: `FeedInv` says for each process that its cached slices are of its dataset
unless a thread, then the holder of its lock, is between the assignments of an
activation, and that a slow reader holds a generation already past; for each request, that
it will refer to data not older than its click, because it is forced until it publishes what it
read; for a page in its second preparation, that the reference it put aside does so
already; and for a forced reader, the same from when it asked. `AnsweredAfresh` follows. `SheetInv`: whatever batch state is on a page or on its way to it names the inputs
its table was fitted to.

`PartsProofs`: `SeenInv` (what a proposal publishes over is what it had seen), `LiveInv`
(a job is joined only before it acquires quotes; a tab may accept over what it was
shown), `GovernedInv` (how much of the chain of checks a publish request has behind it),
`PricerInv` (places of panels are unique, an answer is kept for the inputs it was asked for). The components
share no variable, and a behaviour of `MCParts` is a behaviour of one of them while the
others rest (`OnePart`); so `PartsTypeOK` and `ReviewedBeforeReplaced` are put together from
the theorems of the components (`EachPart`).

`WorkspaceCacheProofs` proves, for any threads, keys and lock objects, that forced
refreshes are fresh and that no key lock leaks. `CacheInv` carries them: the types of
`source`, `entry`, `keyLock` and `thread`; for each thread, that it refers to a lock
object only between registration and the finally clause, that what it asked for is
not ahead of the source, and that what a forced call has loaded is not older than that;
and `NoLeakedLock` itself. Neither the order of eviction nor who holds a lock plays a
part, so `lru` and `holder` do not occur in it. `NoLeakedLock` rests on the finally
clause running on every way out, `ForcedIsFresh` on a forced call not taking the entry
it finds on its second look.

TLC checked the invariants that are longest to prove before they were: `EngineInv`
(2.8 million states of `gas` and the whole of `gas_live`), `IntakeInv`, `PortfolioInv` (5.8
million), `AspectInv` (1.1 million) and `FeedInv` (4.4 million), on the instances of
section 4 or larger ones.

Only checked with TLC: `Drains`, `Ends`, `Settles` and `Answered` (liveness: the prover does
not reach fairness and ENABLED), and that the violations of section 6 are there. Not
stated by any theorem: the types of `lru` and `holder`.

Assumptions, each named in the module that declares the constant: expiries are a finite set of
naturals; the null values are not members of what they stand beside, and `Silent`, a
calculation that is not under way, is not an answer either; bounds are naturals, positive where
there is nothing to do at zero (`MaxVersion` of `DailyRun` and `SurfaceFeed`,
`MaxProducts` of `FitPool`); `GovernedPage` has an identity and a choice of candidate;
the dates of `SurfacePage` have a last one, which is the default of its page. TLC evaluates them in the run of the module.

## 6. Findings

*Key locks of the load cache.* The class promises "per-key load serialization"
(`core/workspace_cache.py:20`). The `finally` clause unregisters a key lock when
its first holder leaves although others wait on the same object; a caller that comes
next registers a new lock and loads beside the waiter. `cache_serial` shows three
threads doing it. Values stay right (`cache`); a load may be made twice.

*A batch that died on its last claim.* "resumes after an interrupted lease"
(`docs/releases/2026/2026-10-29-pre-reorganization.md:465`). When the worker of a gas
batch dies on the last permitted claim the row stays `running`; the poll of the page
starts a worker on every tick, whose claim is refused. `daily_runner.py:388-398` and
`settlement_worker.py:250-253` handle that case, the gas batch does not.
`gas_resume` shows it, under the same fairness with which `gas_live` passes.

*A missed heartbeat holds a settlement.* "Permanent source, model, certificate or
concurrency failures are held; execution failures receive at most three claims."
(`docs/releases/2026/calibration-extraction.md:200-202`). The heartbeat thread sets
`lost` for any exception of the renewal, an outage of a moment included
(`settlement_worker.py:113-114`); the guards of staging and publication turn `lost` into a
`PermissionError`, which `run_one` records as a hold that `retry_settlement`
refuses. `settlement_beat` shows it.

*A render is not of the snapshot it prepared.* "Resolve or publish the immutable page
dataset used by every renderer." (`shared/surfaces.py:652`). A render activates the reference of
its page and then reads the generation, the cached slices and the dataset of the process
(`surfaces.py:748-754`) without the lock that activations take and without comparing them
with its reference; another request may activate a newer snapshot in between
(`surfaces.py:640-648`). `feed_render` shows a render that answers with rows of a snapshot it
was not asked for. The operational reader of the same module avoids it, and says why
(`surfaces.py:807-808`: "Never read mutable worker globals after resolving the
reference: another thread may activate a newer revision."). What does hold of renders is
`SlicesOfDataset`: rows read late are never kept where a later reader takes them for the
active dataset.

## 7. Not modelled

*Whole parts.* Layouts, charts, grids, formatting and exports; the numerical engine and
everything it computes; configuration, health probes and other reads; authorization and
flags (pure functions of one request); the trade ledger (validation and export of
rows, it keeps nothing); correlations and the Prices page (presentation of queries);
tables of the schema without triggers. Of the pricer, the exchange workspace, the fields
that fill each other and the valuation; of the daily run, expiry checkpoints, the
batch wrapper's scrub of history and its slot locks; of the calibration pages, a page
reload with its session stores, and the traded-options tab; of the intraday pages,
charts and strips.

*Atomicity.* One database statement, one operation of the disk cache and one assignment
of a Python global are atomic. Dash is assumed to drop the earlier answer of a callback when the page
asks the same callback again, as its renderer does; answers of different callbacks arrive
in any order.

*Behaviours read in the code and not covered by a property:*

- `gas_batch_runner.py:320`, an expiry failed and a later checkpoint is stale: which fit the
  restarted engine makes is up to the engine; `daily_runner.py:433`, the wrapper
  rewrites history rows; `workspace_cache.py:91`, a degraded value gets a shorter time to live.
- `refresh.py:404`: the job joined may end before the page polls it. Modelled
  (`JoinedEnded`), no property speaks of it.
- Aspect jobs: a poll that read a job before it ended may overwrite the end.
- Intraday: a page that goes from request A to B and back to A may take the older answer of A, which
  has the same inputs.
- The disk cache may cull the generation key of the portfolio, which starts again at its first value.
- A publish answer that arrives after the trader chose another date.
- Volatility surfaces: a Refresh that is clicked before the first answer of a reloaded page has
  arrived. The session still carries the `refresh_count` of before, so that the click may
  land on a count already answered and is taken as served (`features/vol_surface/page.py:1700-1706`),
  although the page then says "Data refreshed from …" (`page.py:1672`). `PageRefreshed` exempts such a
  page (`page.lost`); without the exemption TLC finds it shows older data than it was asked for.
- Live prices: an acquisition begins before its progress message is recorded, so that a tab may
  join a capture begun just before its click; two processes may retain an older complete
  snapshot over a newer one; a tab may join a job whose process died until it is late;
  a late poll of the desk curve may replace a fresh capture on the page; the lock of
  the Bloomberg connection can run out under its owner (modelled); the two time-outs, of a submission
  and of a poll ten seconds later, are one "late".
- Volatility surfaces: the label "Latest on COB" stays while a product is pinned; a slice dropped
  between the test and the read is a `KeyError` (modelled, the render fails); a poll compares the latest date over all commodities with the cached publications of two of them.
