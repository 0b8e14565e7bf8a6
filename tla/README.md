# TLA+ verification of the Slot Lab console

Slot Lab is a local FastAPI console. It samples slot machines by starting
analyzer subprocesses, keeps the raw spins as chunk files per cell (machine,
mode), and generates versioned reports from them. HTTP requests, batch workers,
the fleet-refresh queue, auto-inspect sweeps and disk cleanup are threads of one
process that work on the same cells. They coordinate through a lock registry, a
limiter of analyzer slots, SQLite rows, in-memory dictionaries and JSON files.

The modules beside this file model that coordination (who may touch a cell
when, what a crash or a cancel leaves behind, what a queue, batch or sweep
reports when it is over), the files it works on (chunk indexes, report index,
configuration, versions), and the accounts of the analyzer (which win is
credited to what, and whether the report adds up). TLC checks small instances;
TLAPS proves the invariants of every module but the parser family for every
instance.

Paths below are relative to the repository; `backend/` is
`src/web_console/backend/`.

Contents: 1 The system. 2 Modules. 3 Runs. 4 Bounds. 5 Fairness. 6 Proofs.
7 Disagreements. 8 Not modelled. 9 Plan.

## 1. The system

| Component | State | Operations | What makes it hard | What makes it correct |
|---|---|---|---|---|
| `CellLockRegistry` (`backend/cell_lock_registry.py`) | operations per cell, sampling info, global names, one mutex | try_acquire_cell, release_cell, update_sampling_run_id, try_acquire_global, release_global | release has no owner; the exclusion rules INV-1 .. INV-6 are spread over if-branches | conflicting operations never held together; exactly the held operations are stored |
| `ConcurrencyLimiter` (`backend/rate_limiter.py`) | a semaphore and a separate counter | acquire (foreground blocks, background polls), release | the two change in separate steps; background probes take permits they give back | cap and foreground reserve hold; the counter does not drift; nobody starves through probes |
| Cell flows (`backend/app.py`, `fleet_refresh.py`, analyzer `main`) | chunk files, analyzer processes, run rows | sample, ad-hoc run, generate report, six kinds of delete, automatic and manual cleanup | lists made before a lock is taken; locks narrower than the work they protect; waits that end before the process | one writer per cell; no needed chunk deleted; the retention quota kept; locks returned |
| `RunManager` (`app.py`) | process table, watcher threads, run rows | start_run, _watch_run, cancel_run, delete_run, recovery of orphans | processes outlive the console; the watcher may die; rows are deleted under it | after a restart every row and process is accounted for |
| `BatchRunManager` (`app.py`) | batches in memory and rows, one thread per item | start, _run_one, cancel, persist, restore, resume | a cancel at any place of an item; copies persisted late; waits that give up | the cell lock covers the analyzer; nothing is "completed" that was not sampled |
| `FleetRefreshManager` (`backend/fleet_refresh.py`) | queue and item rows; cancel flags in memory | POST, DELETE, run_queue, recovery in `StateStore` | every statement commits alone; a crash or an exception between any two | restart re-queues exactly the interrupted item; locks and slots returned; queue ends |
| `BatchGenerateManager` (`app.py`) | batches in memory, `batches` rows, futures of a process pool, scope directories, run rows | start, cancel, `_run`, `_persist`, `_restore_persisted`, prepare and finalize wrappers | a cancel lands in three phases; broken pools; copies persisted outside the lock | a job runs under its lock; the verdict agrees with the items |
| `AutoInspectManager` (`auto_inspect_manager.py`) | sweep and item rows; cancel event and failure window in memory | start_sweep, workers, cancel, trip, finalize, resume | workers, a canceller and a resume thread write the same rows with read-then-write | one claim per item; ended items stay; a trip is earned; the sweep ends |
| Report index and retention (`report_index.py`, `reports_retention.py`, `app.py`) | `index.json`, `latest.json`, version directories | append by three producers, two deletes, cleanup, tagging, prune, reconcile | half of the writers rewrite the index without its lock | a finalized report is listed; a reconcile repairs |
| Chunk sidecar, rawdata index (`fresh_slotlab/chunk_index.py`, `rawdata_index.py`) | derived indexes of chunk files | update, bulk removal, re-association, rebuild | two processes, one lock each; staleness tests by keyset and count | an index a reader trusts tells the truth; a resumed run overwrites nothing |
| Configuration files (`config_writer.py`, `app.py`, `machine_variants.py`) | JSON files, a lock per file, mtime caches | edits of servers, settings, locks, attributes, machines.json | three disciplines: plain, cached, locked | locked files lose nothing; edits one after the other stay |
| Versions and provenance (`app.py`, `machine_md5.py`, `summary_md5_patch.py`) | md5 pairs of server, chunks, summaries, rows, entries; analyzer version | refresh, sample, generate, stamp, backfill, reconcile | a pair is copied four times, each time in another step | a tag names the source; the three readers agree |
| Analyzer process (`fresh_slotlab/player_impact_analyzer.py`, `analyzer/core/base_pipeline.py`) | the loop's totals, the chunk directory | replay, sample in concurrent batches, bail out, report | budgets that mix counts and indexes; write failures; features in dependency order | the report is of the chunks the loop counted; the budget is kept |
| Parser, trigger paths, features, report engine, gate (`fresh_slotlab/analyzer/`) | tallies per chunk, merged per cell | two passes over the rounds, merge, plug-ins, four layers of the gate | each section is built by another plug-in from another tally of the same rounds | every win credited once; the sections add up; the gate tells the truth |

How they interact. Every worker that samples takes SAMPLING on the cell in the
registry, the fleet queue also takes a background slot in the limiter, and both
then call `RunManager.start_run`, which starts an analyzer process that reads
and appends chunk files. Report generation takes GENERATING, hardlinks the
chunks it selected into a scope directory and reads that. Deletes take DELETING
on the modes they remove; disk cleanup takes only the global name
`disk_cleanup` and looks at the active cells once. The analyzer and the console
both write the two chunk indexes. A finished run appends to the report index and
stamps the versions. Queues, batches and sweeps are SQLite rows; after a restart
`StateStore`, `RunManager` and each manager repair their own rows and resume or
cancel the work.

## 2. Modules

| Module | Models | How state and actions correspond |
|---|---|---|
| `CellLockRegistry` | the registry class | one action per method, atomic because of the mutex. `held` and `heldGlobal` are the callers' own flags (`cell_acquired`, `acquired_modes`, `acquired`), which guard every release in the code |
| `AbstractCellLock`, `CellLockRefinement` | what callers believe the registry is | a lock with an owner per (cell, operation); the owner is read off `held` |
| `ConcurrencyLimiter` | acquire and release at the grain of semaphore and lock | `at[t]` is the statement a caller has reached |
| `AbstractSlotPool` | the class docstring's promise | N slots; background enters below N - Reserve |
| `CellOps` | all flows that touch the chunks of a machine; EXTENDS the registry | `at[t]` is the place in the handler, `snap[t]` the list it made earlier, `todo[t]` the modes it still has to visit, `chunks` the files, `proc` the analyzers. Every lock call is an action of `CellLockRegistry`. `cast` names the threads, endpoints and cells that take part in a behaviour |
| `RunLifecycle` | `RunManager` and `BatchRunManager` with their rows and the recovery | `run[r]` is a row with its process and its watcher, `worker[b][c]` the place of `_run_one`, `copy` the batches table, `snap` a copy not yet written, `stale` the rows recovery still has to treat |
| `FleetRefresh` | queue, item runner, POST and DELETE handlers, recovery | one action per commit; `worker[q].in` is the exception block the thread is in; the limiter is the atomic pool its refinement justifies |
| `BatchGenerate` | one batch with its wrappers, its pool and its row | the driver's places follow `_run`; `snap` holds a copy taken under the lock and not yet written |
| `AutoInspect` | one sweep, from discovery to the end, with the runs it starts | one action per commit; polls that change nothing are not steps; `raw` and `report` are what a cell has of each roster version |
| `ReportIndex` | the report store of one cell under its eleven writers | `pc[v]` is the producer of a version, `m` the maintenance calls, with the list each read before it writes |
| `ChunkIndex` | chunk files, `_chunks.json`, the entry of `_index.json` | `th[t]` is what a thread has read of the directory and the sidecar; two processes have a lock each |
| `ConfigFiles` | the JSON configuration files and the requests that edit them | `th` holds each request's copy, `heap` the dicts the cache hands out, `wanted` the content if requests ran one after the other |
| `Provenance` | md5 pair and analyzer version of chunks, summaries, rows, entries | `rep[r].at` is the step the report has reached, `rep[r].src` the pairs it was really made from |
| `Analyzer` | one analyzer process from arguments to exit | `stored` are the chunk files, `flight` the requests of a batch not yet answered, `merged` and `lost` the chunks the loop counted, `fails` the bail-out counters |
| `ChunkParser` | the two passes over a chunk, the win rules, trigger sessions | one action per round; `pass` is what the first pass found |
| `TriggerPath` | the trigger path extractor | EXTENDS `ChunkParser`; rides on its rounds |
| `RoundTallies` | bands, streaks, chains, collects, free spins by index | EXTENDS `TriggerPath` |
| `ReportFeatures` | eight feature plug-ins, as operators on a merged record | EXTENDS `RoundTallies` |
| `ReportEngine` | merge, report rows, gate | EXTENDS `ReportFeatures`: one specification from round to report |
| `MC_*` | the instances TLC checks | symmetry sets, values |
| `*Proofs` | theorems | section 6 |

Some proof modules extend two or three component modules, so the definitions of
those components carry their name: `LimiterSpec`, `StoreSpec` (the report index),
`AnalyzerSpec`, `RegistrySpec`; the others are called `Spec`.

Definitions whose comment begins "Mutant of" are wrong versions of the next
definition. They are never used by a specification; substituting one for the
original must make TLC report the property it is meant for, which shows that the
property depends on that code.

Abstractions worth knowing:

* `CellOps`: a chunk is its index and the run that wrote it. All chunks carry
  the current machine md5 and no mode is protected by the operator's rawdata
  lock, so `Deletable` is what the retention quota alone leaves. What versions
  do to chunks is in `Provenance`, what indexes say of them in `ChunkIndex`.
* A wait for an analyzer is one step that is enabled when the process has ended,
  or, for `MayAbandon`, at any time (queue cancel, the two-hour limit).
* An item of a queue, batch or sweep is its position and names one cell.
* History variables: `late` in `FleetRefresh` (items started after an accepted
  cancel), `exposed` in `ReportIndex`, `outrun` and `missed` in `ChunkIndex`, `wanted` and
  `disturbed` in `ConfigFiles`, `rep[r].src` and `.fault` in `Provenance`. They are
  read by properties only. `budget` holds what is left of the bounds.
* `Analyzer` does not compute the statistics: the interval after a chunk and the
  return of the player are any of the cases the code tells apart. In the parser
  family credits are whole numbers, so the code's tolerance of 0.5 is 0.

## 3. Runs

Twelve runs, one per question. Sizes are distinct states.

| Run | Question | What it shows |
|---|---|---|
| `CellOps` (1.7 M) | Which flows on the chunk files are safe with which? | Three casts. Whatever is in play, conflicting operations are never held together (`HolderExclusion`) and every way out returns its locks (`LocksReturned`). Tiered deletes and cleanups with lists of their own never take a cell below its quota (`RetentionQuota`). The flows that keep the registry's discipline lose no chunk a live analyzer or a report needs (`NoLiveDataLost`, `ReportInputPresent`) |
| `ConcurrencyLimiter` | Do two counters make a pool? | cap, reserve (`ReserveForForeground`), refinement of `AbstractSlotPool`, and background progress once foreground work is over |
| `RunLifecycle` (0.8 M) | Does the console know what it has started? | the cell lock covers every analyzer of a batch (`LockCoversRun`); once recovery is through, rows and processes agree, though a kill of a stale worker, a spawn or an insert of recovery may fail: what still runs has a failed row that says so (`EveryRunAccounted`); what the batches table calls completed was sampled to the end (`CompletedWasSampled`); an ended batch is settled and every batch ends |
| `FleetRefresh` (1.6 M) | Does recovery lose or repeat work, and is everything returned whatever raises? | two queues on one slot with any two of: a second POST, a restart, a raising call, a DELETE, a busy cell. `BothReturned`, `CountersNeverOverstate`, `OnlyOwedWorkIsDone` (no finished item again; after a cancel at most one more), `QueueEnds` |
| `BatchGenerate` (0.5 M) | Does a batch end with a right verdict? | busy cells, two cancels, a broken pool, finalize errors, two restarts, of which workers of the pool may survive: a job of the living console is locked throughout, and nothing vouches for the report of a stray one (`LockSpansJob`); `VerdictRight`, `BatchEnds` |
| `AutoInspect` (0.7 M) | Do workers, cancel, trip and resume agree on the rows, and what is a completed item worth? | `WorkUnderLock`, `EndedSweepSettled`; `VerdictsJustified`: a trip is earned, counters never overstate, a completed item has a report of its version made from the rawdata the cell had; `SweepEnds` |
| `ReportIndex` (1.6 M) | What may index.json and latest.json lose? | of the reports whose append was done only those that changed between the unlocked read and the write of a maintenance call, lost their directory under their producer, or were left half done by a step that failed or a kill (`FinishedReportsStayListed`); otherwise latest.json names a listed version; a reconcile nothing overtook lists every report on disk, and what entries it leaves without one (`ReconcileRepairs`) |
| `ChunkIndex` (6.9 M) | What may the two caches of a chunk directory get wrong? | the inverted indexes agree with the table (`IndexesAgree`); what a reader trusts is true unless a cache was written from a directory that had changed since, or the refresh of the root entry for a chunk just written failed or was cut off by a kill (`OnlyOutrunOrMissedMislead`); a resumed run never writes over a chunk (`ResumeNeverOverwrites`) |
| `ConfigFiles` (4.0 M) | What do three disciplines of editing guarantee? | read-modify-writes lose nothing; plain and cached edits stay if no two meet and none fails, beside reads that write and imports, and the caches answer them |
| `Provenance` (2.5 M) | Does a tag name the data, and do all readers say the same? | `TagTellsTheSource`, `ReadersAgree`, `FixableCanBeRegenerated` |
| `Analyzer` (2.7 M) | Is the report of the chunks that were counted? | `ReportFaithful` (contents, reasons for failing, order of the features), `BudgetKept` |
| `ReportEngine` (0.5 M) | Does the report add up? | `AccountsClose` (every win credited once and in one session, streaks, chains, collects), `ReportAddsUp` (sections agree whatever the split into files), `GateTellsTheTruth` |

Some properties name the code's known exceptions instead of hiding them:
`BatchGenerate!BatchEnds` (a driver thread that died in submit), `SweepEnds` (a
worker that died, an item no worker claims), `QueueEnds` (a stranded queue),
`LockCoversRun` (an item that was given up and says so), `LockSpansJob` (futures
that raised, workers that outlived their console), `EveryRunAccounted` (a worker
that would not die), `FinishedReportsStayListed` (`exposed`),
`SequentialEditsStay` (`disturbed`), `NoLiveDataLost` (flows outside
`Disciplined`), `OnlyOutrunOrMissedMislead` (`outrun`, `missed`),
`TagTellsTheSource` (`rep[r].fault`). Each exception is reachable in its run and is described in
section 7.

`CHECK_DEADLOCK FALSE` appears where the system really stops: a queue, batch,
sweep, analyzer or report is over and the bounded requests are used up. In
`CellOps` and `ConcurrencyLimiter` a state without successor would be an error
and is checked for.

## 4. Bounds

* `CellOps`: `MaxChunk` 3 lets a run continue after a chunk deleted in the
  middle; `Keep` 1 makes the quota bite with two chunks; two cells are needed
  only for machine-wide deletes, two runs for two writers. A product of all
  flows is out of reach, so a behaviour has one of three casts; a discipline is a
  condition on the cast. The proofs remove these bounds.
* `ConcurrencyLimiter`: three callers of each priority, three slots, one
  reserved: both the pool and the background threshold can be exhausted from
  either side, and two pollers compete. The proofs remove the bound for safety.
* `RunLifecycle`: two batches that meet on a cell; three runs (two of a batch
  and a recovered one, or a report beside); one restart, one fault, two cells
  named by requests. Proved for any number.
* `FleetRefresh`: two items and two queues on one slot; `MaxRetries` 2 gives a
  retry and a skip; `MaxTrouble` 2, so that one trouble can hit the handler of
  the other; a second POST counts as one. Liveness is watched for one queue,
  the other is its environment.
* `BatchGenerate`: two items give every order of completion and every mixed
  verdict; two restarts cover a restart of a restored batch; two cancels cover
  a cancel that finds a cancelled batch.
* `AutoInspect`: two items, one of them structural (its failure does not
  count), two workers, a threshold of one failure, two roster versions, two
  troubles of any kind, a new version among them. The failure window never
  overflows its ten entries.
* `ReportIndex`: one version of each origin of which two are begun, two maintenance
  calls of any kind, one fault (a removal that leaves something, an append, read
  or rewrite that raises, a kill), `MaxClock` 0 (all versions of the same second,
  which is when ties matter). A producer that fails with its summary on disk needs
  no fault. The proof removes the bounds.
* `ChunkIndex`: two workers of one batch, three indices, one analyzer run
  beside two console calls, one failing sidecar write or kill of either process
  at any point; a write of the root entry may fail whenever it comes. The proof
  covers any number of everything, but of failed sidecar writes and kills two
  (section 7).
* `ConfigFiles`: three requests of any kind on three threads, so that two edits
  meet beside a third; any read may find its file unreadable and any write fail;
  a variant row and its key; two md5s of the key; no halls file or an old one.
* `Provenance`: two reports, two chunks, two versions of the server and of the
  analyzer, one chore (a new analyzer, a reconcile, a cleanup, an upload) and one
  trouble: a crash, a failure or a lost update of `_index.json`. Two lost updates
  would mislead `FixableCanBeRegenerated` (section 7): the proof says that while
  the entry's count tells, the banner is right (`BannerRight`).
* `Analyzer`: every cache of two files of four kinds and three of three files, seven
  command lines, four features with the code's dependencies; bail-out limits of
  two and three.
* `ReportEngine`: cells of one or two rounds of sixteen kinds, of three rounds of
  thirteen and of four of five, in one robot, two robots or two files, under five
  manifests. Pays without a win, a spin without a cost and a wild nudge occur in
  cells of up to two rounds; the five kinds of the longest build chains. `Unit`
  720720 divides by every count that occurs, so shares are exact.
* Requests, busy cells, faults and restarts are bounded by the named constants
  `MaxRequests`, `MaxCancels`, `MaxBusy`, `MaxFaults`, `MaxBreaks`, `MaxTrouble`,
  `MaxCrashes`, `MaxCalls`, `MaxChores`.

## 5. Fairness

Weak fairness of the steps a started thread takes by itself: a daemon thread or
request handler is scheduled by the operating system until it returns. Nothing
obliges a client to send a request, a queue to be cancelled, a fault to happen,
or another operation to give a cell back: those actions have no fairness. Where
the code waits for such an event it has a deadline (30 minutes for a cell, two
hours for a run, the wall time of a sweep item), and the timeout is part of the
fair thread step. Analyzer runs and pool jobs end (`WF` of `AnalyzerExit`,
`JobEnds`, `SampleEnds`, `GenerateEnds`): each is bounded by its target or killed
by the operator. In the limiter `FgTake` and `FgTimeout` share one fair action,
since a blocked foreground caller either gets a permit or gives up. In
`RunLifecycle` the startup of the console is fair: `__init__` runs to its end.
The other modules have no liveness property and no fairness.

## 6. Proofs

Every theorem below is of the form "for all values of the constants that satisfy
the named assumptions". In each module the property a run checks is not
inductive by itself; the module defines a conjunction of named parts that is,
TLC checked that conjunction on the run before it was proved, and the proof
has a lemma per part or per kind of step.

`CellOpsProofs`, first part: the registry (any threads, cells, runs and global names;
`RegistryAssumption`, `FreeAssumption`: placeholders are not values)

* `TypeCorrect`, `RegistryInvariant`, `HoldersExclude`: exclusion alone is not
  inductive, because an acquire looks at `registry` while exclusion speaks of
  `held`. `IInv` adds that `registry[c]` is exactly the set of operations
  somebody holds, and `AcquireIsSafe` turns the test of `registry` into a fact
  about holders.
* `RegistryImplementsOwnedLock`: every step is an Acquire, a Release or a
  stutter of `AbstractCellLock` under `Owner`.

`CellOpsProofs`, the flows (any cast, cells, runs, chunk bound and quota;
`CellOpsAssumption`: the classes of threads are disjoint)

* `FlowsUseRegistry`: `Spec => RegistrySpec`, every step of the flows is a step
  of the registry or leaves it alone. So `FlowsExclude` follows from
  `HoldersExclude`, and so would any theorem about the registry.
* `LocksFollowPlaces`, `LocksAreReturned`: `LockInv` says, thread class by
  thread class, what a thread holds at each place of its handler (`PlaceOk`,
  `HoldOk`), and which runs are alive where (`ProcOk`). `LocksReturned` is the
  idle line of that table.
* `FilesFollowLocks`, `InputIsPresent`, `LiveDataKept`: in a disciplined cast
  `DataInv` ties files to locks: a live analyzer has a worker that waits for it
  and holds SAMPLING on its cell, and its next index is above all present ones;
  a deleter that unlinks holds DELETING on the one cell its list names; what a
  generator reads is on disk. An overwrite or an unlink under a reader would
  then need two operations the registry excludes.
* `QuotaKept`: `QuotaInv`: when only tiered deletes and cleanups are in play,
  every list names only indices above the quota and no numbering restarts while a
  protected chunk is missing; so the first `Keep` chunks of a cell, once there,
  stay. The proof showed the property to be false as first stated (section 7,
  "stale list").

`CellOpsProofs`, last part: the report store (any versions, producers and
maintenance calls; `StoreAssumption`: versions are finitely many numbers, the
placeholder is no version and no entry)

* `StoreInv`: `PlacesOk` (the step of a producer determines its directory and its
  row), `ListedOk` (nothing is listed, or in a list some call has read, before its
  summary is written), `EndedListed` and `EntriesTell` (the property, at every
  step: an ended report on disk is listed also in the copy a producer has read
  under the lock; an entry without a report is owed by a call that will drop it),
  `NoneBeside` and `GuardHolds` (a call that holds DELETING has no producer beside
  it, so the list it read still covers the directory), `RemovedOk` (what a call
  has chosen to drop is gone), `RepairOk` (what a reconcile writes),
  `LatestTells` (which call will still repair latest.json).
* A maintenance call reads without the lock and writes later, so all of it is
  stated for versions outside `exposed`; the proof is what shows that `exposed`,
  which grows at a few places only, is everything the code loses. It grows by the
  versions concerned: what changed between a call's read and its write, what a
  removal took from under a producer or left half done, what was to be dropped by
  a rewrite that raised, what an unreadable index lost, and, at a kill, what was
  owed. A producer that fails after its summary was written adds nothing to it.
* `FinishedStayListed`, `LatestIsListed`, `ReconcileLeavesNoGap`. The last is the
  step a reconcile takes from any state the invariant allows, with directories
  without entries, entries without directories and bare directories about.

`FleetRefreshProofs`, first part: the limiter (any finite sets of callers, any N
and Reserve the constructor accepts: `LimiterAssumption`)

* `LimiterInvariant`: type, cap, conservation of permits, exactness of the
  count. `Inv` counts the threads that hold a permit and those that are counted
  with one operator `CountIn`; `CountMove` says how a count changes when one
  thread moves. The conjunct that makes the background bound inductive is that
  the test of the count and the increment are one step (`BgRecheck`).
* `ReserveKept`; `LimiterImplementsPool`: refinement of `AbstractSlotPool`.

`FleetRefreshProofs`, the queues (any queues, items and slots; `FleetAssumption`)

* The invariant is per queue: `PlaceOk` (what the rows say at each place of the
  thread), `Holds` (the cell and the slot are held exactly between acquire and
  release), `CountOk` (counters are at most the items, less the one whose verdict
  is written and not counted, since the exception handler may replace that
  verdict), `RaisedOk`, `LateOk` (an accepted cancel keeps its flag until a
  crash). Steps of one queue leave the parts of the others alone (`Still`).
* `ResourcesReturned`, `CountersTrue`, `OnlyOwed`, and `TypeCorrect`.

`BatchGenerateProofs` (batches of any length N, any bounds; `BatchAssumption`:
items are 1 .. N, the placeholder is no copy)

* `IInv`: `SpanInv` (a job in flight has its lock; an item a stray worker is at is
  cancelled wherever it is recorded, its run failed), `PhaseInv` (at each place of
  the driver, which items are ahead, behind or left), `ItemInv` (what an item's
  status says of its job), `CountInv` (the counters lag by the item that is
  written and not counted), `CopyInv` (no copy on its way to disk calls a batch
  ended that has an unsettled item) and `VerdictRight`.
* `TypeCorrect`, `LockSpan`, `VerdictHolds`.

`AutoInspectProofs` (any items, workers, versions and bounds; `SweepAssumption`)

* `IInv`: types, the turns of the threads (who may act at which status of the
  sweep), the locks, what an ended sweep leaves, the reports (a generate run
  shows the rawdata of its version), the window (failures counted so far are
  failed items) and the counters (a worker's selected counts are at most what the
  rows hold when it writes them).
* `LockDiscipline`, `SweepSettles`, `VerdictsHold`, `TypeCorrect`.

`RunLifecycleProofs` (any cells, batches, runs, restarts and faults;
`RunAssumption`: there is a cell, the names of the other starters are no batch
ids, `None` is neither a batch nor a run)

* `IInv`: `RunOk` (row, process and watcher of a run in step, and what remains
  of that after a crash), `ConsoleOk`, `BatchOk` (an id that was ever used shows
  in the table), `ItemOk` (place of the thread, status of the item, lock),
  `SpanOk` (a run of a batch and the thread that started it), `OneRun` (an item
  has at most one run), `TruthOk` (every copy of a batch, in memory, in the table
  or on its way there, calls completed only what has a completed run).
  `LockCoversRun` needs `SpanOk` and the lock line of `ItemOk`;
  `CompletedWasSampled` needs `OneRun`, since `_run_one` looks its run up again.
* `LocksCoverRuns`, `RunsAccounted`, `CompletedSampled`, `BatchesSettled`,
  `TypeCorrect`.

`ConfigFilesProofs` (any threads, requests, files' contents and upstream answers;
`ConfigAssumption`: `None` is no thread or server, the requests are those of the
module)

* `IInv`: `Shape` (the domains a step relies on; contents have no type), `PlaceOk`
  (which requests come to which step), `RmwInv` (the per-file lock is held exactly
  between read and write, and what was read is what the file holds), `Alone` (two
  requests that work on a file show in `disturbed`; a GET joins them once it has
  found that it must write), `Agree` (an undisturbed file is what it should be at
  every step), `CopyOk` and `WriteOk` (so is every copy of it, at each step of its
  request; the GET that fills `machines_static.json` found it empty and it still
  is) and `CacheOk`: unless a save is between its write and its cache, or a merge
  between its assignment and its write, the cache is right, whatever time it is
  stored under, since a reader keeps the guard while it reads and a save that
  overtakes it then waits for the guard and stores its own.
* `RmwIsSerial`, `SequentialStays`.

`ProvenanceProofs` (any reports, chunks, versions, retention and analyzers;
`ProvenanceAssumption`: reports are numbers, an analyzer version is not 0, the
version of a summary that has none)

* `IInv` follows a pair through its copies, report by report: `PlaceOk` (kind and
  step), `PickedOk` (the chunks it picked are there until something overtakes
  it), `StampOk` (the pair to stamp is one of those it picked), `SourceOk` (what
  it is made from is what it picked), then `TagOk`, `RowOk`, `EntryOk` for the
  summary, the row and the index entries. `TagTellsTheSource` is about the
  finished report alone and says nothing of the four steps before it.
* `TagsTell`, `ReadersSaySame`; `LostUpdateShows` (one lost update of an index that
  was true leaves one whose count differs from the directory's), `BannerRight`
  (while the count tells, the banner is right, for any number of troubles) and
  from the two `OneTroubleIsHarmless`.

`ChunkIndexProofs`, first part: the indexes (any workers, md5s, runs and calls;
`CurrentAssumption`, `PlaceAssumption`: workers have places of their own, the
thread names are no workers)

* `IInv`: `PcOk` (which thread can be where), `SideOk` and `ViewOk` (a sidecar on
  disk, or in a thread between its read and its write, has the inverse image of
  its table in both indexes, unless it is of the legacy form), `Fresh` (a run has
  seeded from every chunk on disk and its workers hold distinct later indices),
  `RootTells` (the root entry counts a directory of which what is left is on
  disk, or a worker owes it a refresh, or missed it) and `SideTells`: row by row who still has to
  correct it, and how many failed writes it takes until nobody has.
* `IndexesAlwaysAgree`, `ResumeIsSafe`, and `RestTells`: for the root entry with any
  number of failures, of which only those of a worker's refresh are excepted (a
  delete or a status read that fails to write it misleads nobody: the entry then
  tells of more files than there are); for the sidecar with up to two failed
  writes or kills. That bound came out of
  the proof (section 7, "third failure").

`ChunkIndexProofs`, second part: the analyzer that reads those files (any command
lines, caches, limits and plug-ins; `ArgumentsAssumption`: caches are finite,
budgets and concurrency positive; `RequiresAssumption`: no plug-in requires
itself through others)

* `RunInv`: `PlaceOk`, `ReplayOk`, `MergedOk` (a merged chunk is still on disk as
  it was merged, unless its write failed), `AllCounted` (a resumed run has
  counted all of the version), `NumbersOk` (every index given out is merged,
  awaited or failed), `BailOk` (a batch starts within the limits, so it ends at
  most its own size beyond them), `ReportOk` and `EmitOk` (what has been emitted
  is a beginning of the order). `BudgetKept` is about the end of the loop only and
  needs `NumbersOk` at each answer.
* The order of the plug-ins is a recursive function. `SortIsRounds`, `SortRight`
  and `SortWhole` say for any acyclic requirements that it lists every chosen
  plug-in once and after what it requires; they argue from a least
  counterexample (`LeastNatural`, from the well-foundedness of < on the naturals),
  which needs no induction theorem.
* `ReportsAreFaithful`, `BudgetIsKept`, `RunsTyped`.

Model-checked only:

* All liveness properties (`BackgroundServed`, `BatchEnds` twice, `QueueEnds`,
  `SweepEnds`): the prover has no rule for fairness and ENABLED.
* `AccountsClose`, `ReportAddsUp`, `GateTellsTheTruth`: they compare sums and counts
  folded over rounds, robots and files. What such a fold computes for every input
  takes an induction over the data with a lemma per tally, and the library's
  theorems on it take an operator as a parameter, which the installed provers
  cannot instantiate. One fact of the kind, the order of the plug-ins, could be
  had from a least counterexample; the tallies are many and most have no
  such short statement. The run covers every cell up to the sizes in section 4.

## 7. Disagreements

Places where the code does other than a comment, docstring or document says, and
behaviours a reader of the code would not expect. No run expects a violation:
the properties are stated so that they hold, with the exception named where
there is one. Most entries are counterexamples TLC gave to a stronger
property; others were met while translating. Lines are where to start reading.

Cells and chunks

* Stale list (found by the proof of `QuotaKept`): a cleanup or tiered delete works
  from a list of chunks made earlier (`app.py:3645`). After a forced delete
  in between, a new run numbers from 1 again, and the old list removes chunks
  below the retention quota. `RetentionQuota` is therefore stated for casts
  without forced and version deletes; with one, TLC needs one cell, two runs,
  a cleaner and a 19-state behaviour to break it.
* Abandoned wait: `_fleet_batch_item_runner` (`app.py:12848`) returns on a cancel
  or after 7200 s and leaves the analyzer running; SAMPLING is released under
  it, and the next sampler is a second writer. INV-4
  (`cell_lock_registry.py:42`) says one SAMPLING per cell.
* Ad-hoc run: POST /api/runs holds GENERATING only around `start_run`
  (`app.py:9414`); a forced delete of the mode then removes chunks under the
  live analyzer. Repository `README.md:210`: "Chunk data that is still needed
  by an active run must not be deleted."
* `_run_generate_report` selects its chunks (`app.py:9647`) before it asks for
  GENERATING, so a sampling in between makes the selection stale.
* `_auto_cleanup_for_space` reads the active cells once (`app.py:3645`) and
  unlinks later, so a cell that starts sampling in between loses chunks.
* A forced machine delete locks the modes it finds on disk (`app.py:8684`) and
  then removes the whole tree, against the comments at 8675 and 8760.

Runs and sampling batches

* A crash between Popen and `insert_run` leaves an analyzer nobody knows, and so
  does an `insert_run` that raises while recovery resumes a run; an index update
  that raises kills the watcher and leaves the row 'running'.
* Recovery goes on when a stale worker cannot be killed ("stale worker process may
  still exist", `app.py:6271`), and a SIGTERM only asks the analyzer to stop after
  its chunk (`player_impact_analyzer.py:238`): either way it may sample a cell
  beside the run recovery starts in its place.
* `_spawn_resume_for_orphan` (`app.py:6422-6477`) says `start_run` rejects a
  locked cell; `start_run` never asks the registry, so resumed orphans hold no
  lock, two orphans of a cell are both resumed (docstring 6430), and the row of a
  generate report is resumed as a sampling run.
* The 'queued' row of an asynchronous generate is not recovered after a restart
  (recovery reads 'running' only), and one deleted meanwhile is inserted anew.
* A batch ends 'completed' whatever its items (`app.py:5545`), so the resume
  endpoint, which wants 'cancelled', 'failed' or 'partial' (9103), serves batches
  of an earlier life only; it skips `rate_limited` items. The comment near 5529
  claims that every terminal status is persisted; two returns skip the persist.
* `cancel_batch` writes its copy after it has let the lock go: it can overwrite
  the terminal row. A cancel between 'running' and the run id (5035, 5367) stops
  nothing. The wait for a run gives up after 7200 polls.
* A refusal or error in prepare leaves the run row 'running' (`app.py:10020`).

Fleet queue

* Stranded queue (`fleet_refresh.py:515`): a cancel between the last pass and
  this test leaves the row 'running' without a thread; docstrings at 144 and 568.
* Overlapping POSTs both start a queue (`app.py:12911`; the docstring at 12903
  says "Single-instance enforcement"), and a restart resumes one of them
  (LIMIT 1), leaving the other 'running'. The mutual exclusion of queue and
  sweep (`auto_inspect_manager.py:277`) is the same kind of check-then-insert.
* A database error after an item was marked completed reaches the handler for a
  failed item (`fleet_refresh.py:461`, `490`), which queues or fails it.
* The cancel flag is in memory (`fleet_refresh.py:146`): a restart after an
  answered DELETE resumes the whole queue.

Batch generate

* Leaked lock: a future that raised or was cancelled skips finalize
  (`app.py:4351`) and keeps its cell locked until a restart, against the comment
  at 10115.
* `_persist` (`app.py:4128`) writes its copy outside the lock: a canceller's
  older copy can overwrite the final row, against the comment at 4436-4439. A
  restart then restores a finished batch as cancelled.
* Cancelled futures end as 'failed'; the docstring (`app.py:4223-4228`) says
  pending items become 'cancelled'.
* The workers of the process pool survive a hard kill of the console and finish
  what they were given; restart forgets their cells, so they read chunks without
  GENERATING and leave a full report that no row or index names.
* A pool that breaks during submit kills the driver thread (`app.py:4326`): the
  batch stays 'running' with its locks until a restart.

Auto-inspect

* `_sample_cell` names no cache to `start_run`, so its chunks go to a scratch
  directory, and the generate run replays only the cell's old rawdata of the
  enqueued pair (the docstring at `auto_inspect_manager.py:1574-1610` says the
  opposite): a cell without rawdata of its version always ends 'failed', a
  thin one 'completed' but never fresh, so that every later sweep takes it
  again. The comment at the resume that `_sample_cell` "will see existing chunks"
  is false for the same reason.
* The wall-time message says "sampling aborted", but the analyzer keeps running;
  the same for a cancel. A resume marks an item completed by its generate run
  although its sample missed the target. The generate run uses the request's
  defaults instead of the sweep's.
* A resume puts an item of the generate phase back to 'running'
  (`auto_inspect_manager.py:1907`, "The worker will re-claim and re-dispatch
  generate"), but workers claim 'pending' items only: the sweep never ends and
  `start_sweep` answers 409 from then on.
* A cancel during discovery is lost; a trip overwrites 'cancelled'; the counters
  can stay too low (`:2101`, select and update are two statements); a restart
  while scanning completes a sweep without items; a worker that dies on a database
  error leaves the sweep 'sampling'.

Report index

* delete_run (`app.py:6928`), delete_report_version (10815), cleanup (12169, "now
  serialized") and `_mark_stale` (1563) read and write index.json without the
  index lock, against `README.md:212-213`.
* cleanup_old_reports deletes newer and unfinished versions and their rows
  (docs/API_REFERENCE.md, CONSOLE_OPERATIONS.md:126); its survivor may be
  unlisted, and it repoints only the `report_version` of latest.json (12191; docs
  at 12262). Interleaved with a prune it may remove every report of a cell.
* A run fails with its summary on disk when it had no spins (`app.py:6687`) or the
  analyzer's exit code was not 0 (6737), a generation when something raises after
  the engine (9923): the directory is full, its row failed and no entry names it
  until a reconcile lists it like any other. An import whose append raises says so
  on stderr only (11052).
* Deletes pass over directories that stay: delete_run (`app.py:6912`), cleanup
  (12127) and the all-data delete (8840) drop the entries and rows of reports that
  are still on disk, and delete_report_version drops the row before the removal
  that may fail (10793).
* A reconcile keeps the entries of versions whose directory is gone altogether: it
  walks directories only, although deletes that stop half-way leave them.
* An import in replace mode (11077) and the all-data delete remove the tree
  without the index lock, the former without any cell.
* Prune and reconcile may list a version twice; the zombie branch of reconcile
  (11466) is unreachable; rebuilt entries get created_at = now; generations of
  the same second share a report_version.

Chunk indexes

* A rebuild of the sidecar scans before it takes the lock
  (`chunk_index.py:428`; docstring 537); `_migrate` reads unlocked; a rebuild and
  `update_chunk_entry` drop the config_id; a chunk whose header cannot be read
  makes the index stale for ever; the comment that no other process writes it is
  wrong. `rawdata_index.update_entry` scans before its lock.
* Third failure (found by the proof of `RestTells`): sidecar writes may fail
  unnoticed (the callers catch and log). With one or two failures a reader still
  sees by the key set that the sidecar is old, or a row is right. With three it may
  not: a space cleanup unlinks chunk 3 after a run has read the directory, the
  run's rebuild is not saved, a worker writes chunk 3 anew with the current md5,
  its update fails, and so does the cleaner's removal: the sidecar lists exactly
  the files on disk, with the old md5 for chunk 3. `OnlyOutrunOrMissedMislead`
  therefore counts to two.
* "failure here only means the next UI status refresh falls back to a filesystem
  scan (which self-heals the index)" (`writer.py:161-163`; the same at
  `rawdata_index.py:371`) is not so when the count is right again: a status read
  writes the entry of chunks 1 and 2, a space cleanup (which leaves the entry
  alone) unlinks chunk 2, a run writes chunk 2 anew with another md5 and its
  refresh fails in `_save_index`, or the analyzer is killed between `os.replace`
  and it. The entry says two chunks of the old md5 and the fast path trusts it.
  This is what `missed` records; without that exception TLC finds the trace.

Configuration

* save_servers' comment (`app.py:595`) against the unlocked load, modify, write of
  its callers; `_set_rawdata_lock` the same, and it reads the mtime after the
  write outside its guard; `_merge_machine_static` changes the shared cached dict;
  delete_server writes two files in two steps; `_save_server_snapshot` is a
  plain write; `_do_refresh_machines_md5` fetches before it locks.
* Two GETs write. That of the static attributes fills an empty file from the
  summaries (`app.py:8152`): an edit that lands between its look and its save is
  lost (TLC finds it when the GET is not counted as an edit). That of the halls
  writes its backfill (`app.py:7724`) over a refresh that came between.
* An unreadable file is taken for an empty or default one and then written back
  (`config_writer.py:170`, `app.py:3328`, `app.py:987`).
* An import rewrites the static attributes from the reports there are
  (`app.py:11106`) and so forgets what `_merge_machine_static` calls
  history-preserving (`app.py:3502`): features of deleted reports.

Versions

* A crash or exception between the engine's write and the stamp leaves a summary
  with the roster's pair; a reconcile may list it before it is stamped, or though
  its row failed; a worker whose stamp fails prints and completes its row.
* A report of untagged chunks, and a sampling under a local config, carry the
  roster's pair (comment near `app.py:9805`: the source chunks'). A default
  generation mixes server and local-config chunks and stamps the first chunk's.
* Two lost updates of `_index.json` give a cell the banner calls fixable whose
  batch generation answers 404. The machines summary is cached by directory mtimes
  while `patch_summary_md5` writes in place. The banner's report count knows only
  the flat server pair; variants never count as analyzer-stale.

Analyzer

* The fuzzy tolerance of 999 pp (`app.py:6509`) lets a resumed run stop after two
  chunks (`player_impact_analyzer.py:952`); `aimd_tune` grows the concurrency on
  failures of the machine class; MIN_CHUNK_SPINS raises the chunk size; a
  from-cache run is truncated while the engine reads the whole directory; a chunk
  that was rejected once aborts later resumes; a failed run appends both end
  events and exits 0; the budget mixes indices and counts; the break for an empty
  batch is unreachable.
* A resume replays the whole version before it looks at its budget, so a run that
  an unreadable file aborts may have merged more than it was asked for
  (found by the proof of `BudgetIsKept`, which speaks of runs past the replay).

Parser, features, engine

* The cost-based helper and the charged test disagree on some rounds, so that a
  win is credited twice or dropped (`parser.py` near 2506, "invariant always
  holds"); the session tier's bet is the last robot's; the collect flag's
  comment (2058-2063) says "every time CollectCount ticks up" but the previous
  count is not reset at a cycle reset; "previous round's PayIds" (2395) are those
  of the previous paid round.
* Sessions of a block with several triggers count as zero-win sessions of each of
  its paths, although the note says they are credited to each; the flat table
  drops paths that occur only in such blocks.
* The ladder's mean is too low when some rounds lack ExtraRatio; the docstring's
  invariant on arc rounds fails for rounds without "Freespin N"; an unknown path's
  arcs are overwritten by the alarm row.
* The bankruptcy replay charges an in-line continuation's echoed cost again,
  counts rounds instead of paid spins, and never charges machines without a cost.
* `report_engine.py:887` and 1007 read keys the parser does not produce, so the
  server's TotalWin never overrides (docs/API_REFERENCE.md:320-326) and symbol
  rates are 0; `buckets_complete` is always true; a required anchor with only
  zero-win sessions is reported missing; the win of a trigger that no round
  itemises (`_bcm_cycle`) is booked per SpinType (`parser.py:1461`) and yet in no
  row of payouts by SpinType, which lists hits; the section decides "at least two
  real values" chunk by chunk; denominators of the per-SpinType shares differ.

## 8. Not modelled, and why

* Statistics over floating-point data: percentiles, confidence intervals, rates as
  such, the bonus correction of the return. In the parser: symbols, reels, lock
  and jackpot counters, payline rows, ratios and depth curves of annotated chains,
  AccCredits. Of the plug-ins, the machine-family ones and
  `upstream_feature_breakdown`. The emitter of settled bands and cycle chains.
* Post-run inference: runs two scripts and records their results.
* The frontend: it polls; every request it can send is an action that may
  happen at any time.
* Scripts, deployment, the batch development sampler: run by hand beside an idle
  console.
* Rules that pick cells for a sweep beyond freshness, the event log, alerts and the
  timer arithmetic of the scheduler: a cron fire is a `start_sweep`.
* The hashes themselves: a version is a number, an md5 pair a value.
* In `ConfigFiles`: the interpretation documents, autotune's probing before it
  saves, a stat that fails.

## 9. Plan

Modelling is complete in the sense of section 2, and every safety property of
a run is proved but the three of the parser family. Worth adding:

1. That the `lock` of `RunLifecycle` is the SAMPLING part of the registry's, as
   `CellOps` shows for its flows.
2. For the tallies, a lemma per fold by least counterexample, beginning with the
   three sums `AccountsClose` compares: total, credited and sessions.
