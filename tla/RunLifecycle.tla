----------------------------- MODULE RunLifecycle -----------------------------
(***************************************************************************)
(* RunManager and BatchRunManager of src/web_console/backend/app.py: the   *)
(* analyzer subprocesses, the thread that watches each of them, the rows   *)
(* of the runs and batches tables, and what a restarted console makes of   *)
(* them (_recover_orphan_running_runs, _restore_persisted_batches).        *)
(*                                                                         *)
(* A crash of the console loses the batches, the registry, the watchers    *)
(* and the handlers; the rows and the subprocesses survive it.  The report *)
(* index is modelled in ReportIndex, the limiter in ConcurrencyLimiter,    *)
(* the other users of the cell locks in CellOps.                           *)
(***************************************************************************)
EXTENDS FiniteSets, Naturals

CONSTANTS Cells,       (* (machine, mode) pairs                              *)
          Batches,     (* batch ids; a resumed batch takes a new one         *)
          Requests,    (* the sets of cells a POST /api/batch-run names      *)
          Concurrency, (* BatchRunRequest.concurrency                        *)
          MaxRuns,     (* bound: rows of the runs table                      *)
          MaxRequests, (* bound: cells named by POSTs of batches, runs, reports*)
          MaxCrashes,  (* bound: restarts of the console                     *)
          MaxFaults,   (* bound: writes that raise, cancels, deletes, kills  *)
                       (* that fail                                          *)
          None         (* nobody, no run                                     *)

Runs == 1..MaxRuns

(* Who starts a run, when no batch does: nobody yet, POST /api/runs, a     *)
(* report generation, the recovery of orphans.                             *)
Others == {"nobody", "api", "report", "orphan"}

ASSUME RunAssumption ==
    /\ Cells # {}
    /\ Requests \subseteq (SUBSET Cells \ {{}})
    /\ Concurrency \in Nat \ {0} /\ MaxRuns \in Nat
    /\ None \notin Batches \cup Runs
    /\ Others \cap Batches = {}

VARIABLES
    console, (* "up", "down", or starting: "recover"                         *)
    run,     (* per run: its row, its subprocess and its watcher             *)
    managed, (* RunManager._running                                          *)
    batch,   (* BatchRunManager._batches: status, item statuses, cancel flag *)
    copy,    (* the batches table                                            *)
    snap,    (* the copy a cancel handler has taken and not yet written      *)
    worker,  (* where the thread of each item is                             *)
    lock,    (* the batch that holds SAMPLING on a cell                      *)
    stale,   (* rows the recovery has still to treat                         *)
    heir,    (* the run that recovery has spawned for the row it treats      *)
    said,    (* what recovery's message says of the worker of a row          *)
    budget   (* what is left of the bounds                                   *)

vars == <<console, run, managed, batch, copy, snap, worker, lock, stale, heir, said, budget>>
memory == <<batch, copy, snap, worker, lock>>
recovery == <<console, stale, heir, said>>

----------------------------------------------------------------------------
Final == {"failed", "completed", "cancelled"}
Ended == {"completed", "failed", "cancelled", "attached", "rate_limited"}
NoRun == [cell |-> CHOOSE c \in Cells : TRUE, by |-> "nobody", row |-> "none", proc |-> "none",
          out |-> "none", stop |-> FALSE, step |-> "unused", watch |-> "none"]
NoBatch == [status |-> "none", item |-> [c \in Cells |-> "absent"], cancel |-> FALSE]
NoCopy == [status |-> "none", item |-> [c \in Cells |-> "absent"]]
SpendN(what, n) == budget[what] >= n /\ budget' = [budget EXCEPT ![what] = @ - n]
Spend(what) == SpendN(what, 1)

Statuses == {"none", "running", "completed", "cancelled"}
Items == [Cells -> {"absent", "pending", "running"} \cup Ended]
Places == {"gone", "enter", "semaphore", "disk", "slot", "starting", "wait", "judge", "over"}
Rows == {"none", "queued", "running", "deleted"} \cup Final
Procs == {"none", "alive", "done"}
Outs == {"none", "crash", "zero", "data"}
Steps == {"unused", "queued", "popen", "registered", "past"}
Words == {"nothing", "terminated", "may still exist"}
Watches == {"none", "wait", "final", "pop", "dead"}
RunState == [cell : Cells, by : Batches \cup Others, row : Rows, proc : Procs, out : Outs,
             stop : BOOLEAN, step : Steps, watch : Watches]

TypeOK ==
    /\ console \in {"up", "down", "recover"}
    /\ run \in [Runs -> RunState]
    /\ managed \subseteq Runs /\ stale \subseteq Runs /\ heir \in Runs \cup {None}
    /\ said \in [Runs -> Words]
    /\ batch \in [Batches -> [status : Statuses, item : Items, cancel : BOOLEAN]]
    /\ copy \in [Batches -> [status : Statuses, item : Items]]
    /\ snap \in [Batches -> [status : Statuses, item : Items]]
    /\ worker \in [Batches -> [Cells -> Places]]
    /\ lock \in [Cells -> Batches \cup {None}]

Init ==
    /\ console = "up"
    /\ run = [r \in Runs |-> NoRun]
    /\ managed = {}
    /\ batch = [b \in Batches |-> NoBatch]
    /\ copy = [b \in Batches |-> NoCopy]
    /\ snap = [b \in Batches |-> NoCopy]
    /\ worker = [b \in Batches |-> [c \in Cells |-> "gone"]]
    /\ lock = [c \in Cells |-> None]
    /\ stale = {} /\ heir = None
    /\ said = [r \in Runs |-> "nothing"]
    /\ budget = [request |-> MaxRequests, crash |-> MaxCrashes, fault |-> MaxFaults]

----------------------------------------------------------------------------
(* start_run: Popen, then the row, then _running and the watcher thread.   *)

(* The next row of the runs table.                                         *)
NewRun(r) ==
    /\ r \in Runs /\ run[r].step = "unused"
    /\ \A x \in Runs : x < r => run[x].step # "unused"

Process(c, by) == [NoRun EXCEPT !.cell = c, !.by = by, !.proc = "alive", !.step = "popen"]

Popen(c, by) == \E r \in Runs : NewRun(r) /\ run' = [run EXCEPT ![r] = Process(c, by)]

(* insert_run, _running and the watcher: nobody looks between the three.   *)
RegisterRun(r) ==
    /\ run[r].step = "popen"
    /\ managed' = managed \cup {r}
    /\ run' = [run EXCEPT ![r] = [@ EXCEPT !.row = "running", !.step = "registered",
                                           !.watch = "wait"]]
    /\ UNCHANGED <<memory, recovery, budget>>

(* UPDATE runs SET status: a deleted row stays deleted.  How the process   *)
(* ended is forgotten with it.                                             *)
UpdateRun(r, s, w) ==
    run' = [run EXCEPT ![r] = [@ EXCEPT !.row = IF run[r].row = "deleted" THEN "deleted" ELSE s,
                                        !.watch = w, !.stop = FALSE, !.out = "none"]]

(* The analyzer ends: with data, with no spins at all, or by crashing.  An *)
(* exit that no watcher waits for leaves nothing but its chunks.           *)
AnalyzerExit(r) ==
    /\ run[r].proc = "alive" /\ run[r].step # "popen"
    /\ \E o \in IF run[r].step = "past" THEN {"none"} ELSE {"crash", "zero", "data"},
          s \in {FALSE, run[r].stop} :
          run' = [run EXCEPT ![r] = [@ EXCEPT !.proc = "done", !.out = o, !.stop = s]]
    /\ UNCHANGED <<managed, memory, recovery, budget>>

Killed(r) == [r EXCEPT !.proc = "done", !.stop = FALSE,
                      !.out = IF r.proc = "alive" /\ r.step = "registered" THEN "crash" ELSE @]

----------------------------------------------------------------------------
(* _watch_run.  stop, once the process is done, is stop_reason = user_stop. *)

WatchFailed(r) ==
    /\ run[r].watch = "wait" /\ run[r].proc = "done" /\ run[r].out = "crash"
    /\ UpdateRun(r, "failed", "pop")
    /\ UNCHANGED <<managed, memory, recovery, budget>>

WatchNoSpins(r) ==
    /\ run[r].watch = "wait" /\ run[r].proc = "done" /\ run[r].out = "zero"
    /\ UpdateRun(r, IF run[r].stop THEN "cancelled" ELSE "failed", "pop")
    /\ UNCHANGED <<managed, memory, recovery, budget>>

(* _update_report_index; what it raises ends the watcher thread.           *)
WatchIndex(r) ==
    /\ run[r].watch = "wait" /\ run[r].proc = "done" /\ run[r].out = "data"
    /\ \/ run' = [run EXCEPT ![r].watch = "final"] /\ UNCHANGED budget
       \/ run' = [run EXCEPT ![r].watch = "dead"] /\ Spend("fault")
    /\ UNCHANGED <<managed, memory, recovery>>

WatchFinal(r) ==
    /\ run[r].watch = "final"
    /\ UpdateRun(r, IF run[r].stop THEN "cancelled" ELSE "completed", "pop")
    /\ UNCHANGED <<managed, memory, recovery, budget>>

WatchPop(r) ==
    /\ run[r].watch = "pop"
    /\ managed' = managed \ {r}
    /\ run' = [run EXCEPT ![r].watch = "none"]
    /\ UNCHANGED <<memory, recovery, budget>>

----------------------------------------------------------------------------
(* The handlers of /api/runs and of a single generate-report.              *)

CreateRun(c) ==
    /\ console = "up"
    /\ \A r \in Runs : run[r].row # "running"
    /\ lock[c] = None
    /\ Spend("request")
    /\ Popen(c, "api")
    /\ UNCHANGED <<managed, memory, recovery>>

(* The row of a report is running for as long as GENERATING is held.       *)
Generating(c) == \E r \in Runs : /\ run[r].by = "report" /\ run[r].step = "registered"
                                 /\ run[r].cell = c /\ run[r].row = "running"

InsertReport(c, row, step) ==
    \E r \in Runs :
        /\ NewRun(r)
        /\ run' = [run EXCEPT ![r] = [NoRun EXCEPT !.cell = c, !.by = "report",
                                                  !.row = row, !.step = step]]

GenerateRow(c) ==
    /\ console = "up" /\ lock[c] = None /\ ~Generating(c)
    /\ Spend("request")
    /\ InsertReport(c, "running", "registered")
    /\ UNCHANGED <<managed, memory, recovery>>

(* With async, the request writes a placeholder row and a thread does the  *)
(* rest: it finds the cell free, and writes the row anew if it has been    *)
(* deleted, or is refused.                                                 *)
GenerateQueue(c) ==
    /\ console = "up"
    /\ Spend("request")
    /\ InsertReport(c, "queued", "queued")
    /\ UNCHANGED <<managed, memory, recovery>>

GenerateStart(r) ==
    /\ run[r].step = "queued"
    /\ \/ /\ lock[run[r].cell] = None /\ ~Generating(run[r].cell)
          /\ run' = [run EXCEPT ![r] = [@ EXCEPT !.row = "running", !.step = "registered"]]
       \/ /\ run[r].row = "queued"
          /\ run' = [run EXCEPT ![r] = [@ EXCEPT !.row = "failed", !.step = "registered"]]
       \/ /\ run[r].row # "queued"
          /\ run' = [run EXCEPT ![r] = [@ EXCEPT !.step = "registered"]]
    /\ UNCHANGED <<managed, memory, recovery, budget>>

GenerateEnd(r) ==
    /\ run[r].by = "report" /\ run[r].step = "registered" /\ run[r].row = "running"
    /\ \E s \in {"completed", "failed"} : UpdateRun(r, s, "none")
    /\ UNCHANGED <<managed, memory, recovery, budget>>

(* cancel_run: the stop flag, or a tree kill when it cannot be written.    *)
CancelRun(r) ==
    /\ console = "up" /\ r \in managed
    /\ Spend("fault")
    /\ \/ run' = [run EXCEPT ![r].stop = IF run[r].proc = "alive" THEN TRUE ELSE @]
       \/ run' = [run EXCEPT ![r] = Killed(@)]
    /\ UNCHANGED <<managed, memory, recovery>>

DeleteRun(r) ==
    /\ console = "up"
    /\ run[r].row \in Final \cup {"queued"} /\ r \notin managed
    /\ Spend("fault")
    /\ run' = [run EXCEPT ![r].row = "deleted"]
    /\ UNCHANGED <<managed, memory, recovery>>

----------------------------------------------------------------------------
(* BatchRunManager.  _persist_batch copies the batch under the lock and    *)
(* writes the copy after it has let the lock go; the cancel handler, whose *)
(* copy nothing repairs, takes the two steps apart.                        *)

Copied(b) == [status |-> batch'[b].status, item |-> batch'[b].item]
Persist(b) == copy' = [copy EXCEPT ![b] = Copied(b)]

FreshIds == {b \in Batches : copy[b] = NoCopy /\ batch[b] = NoBatch}

StartBatch(b, cells) ==
    /\ console = "up" /\ cells # {}
    /\ FreshIds # {} /\ b = CHOOSE x \in FreshIds : TRUE
    /\ batch' = [batch EXCEPT ![b] = [status |-> "running", cancel |-> FALSE,
                    item |-> [c \in Cells |-> IF c \in cells THEN "pending" ELSE "absent"]]]
    /\ Persist(b)
    /\ worker' = [worker EXCEPT ![b] =
                     [c \in Cells |-> IF c \in cells THEN "enter" ELSE "gone"]]
    /\ UNCHANGED <<run, managed, snap, lock, recovery>>

PostBatch(b, cells) ==
    /\ StartBatch(b, cells)
    /\ SpendN("request", Cardinality(cells))

(* The endpoint that resumes an interrupted batch under a new id.          *)
ResumeBatch(b, new) ==
    /\ batch[b].status \in {"cancelled", "failed", "partial"}
    /\ StartBatch(new, {c \in Cells :
                          batch[b].item[c] \in {"failed", "cancelled", "pending", "running"}})
    /\ UNCHANGED budget

Go(b, c, pc) == worker' = [worker EXCEPT ![b][c] = pc]
At(b, c, pc) == worker[b][c] = pc
SetItem(b, c, s) == batch' = [batch EXCEPT ![b].item[c] = s]

(* The finally block of _run_one: the cell, the semaphore and the slot are *)
(* given back.  A return inside the try skips the persist that follows it. *)
Leave(b, c, s) ==
    /\ SetItem(b, c, s) /\ Go(b, c, "over")
    /\ lock' = [lock EXCEPT ![c] = IF @ = b THEN None ELSE @]
Quit(b, c, s) == Leave(b, c, s) /\ UNCHANGED <<run, managed, copy, snap, recovery, budget>>

ItemCancelledQueued(b, c) ==
    /\ At(b, c, "enter") /\ batch[b].cancel
    /\ SetItem(b, c, "cancelled") /\ Go(b, c, "over")
    /\ UNCHANGED <<run, managed, copy, snap, lock, recovery, budget>>

(* Mutant of AcquireSampling: the answer of the registry is not looked at. *)
AcquireSamplingUnchecked(b, c) ==
    /\ At(b, c, "enter") /\ ~batch[b].cancel
    /\ lock' = [lock EXCEPT ![c] = b] /\ Go(b, c, "semaphore")
    /\ UNCHANGED <<run, managed, batch, copy, snap, recovery, budget>>

AcquireSampling(b, c) ==
    /\ At(b, c, "enter") /\ ~batch[b].cancel
    /\ lock[c] = None
    /\ lock' = [lock EXCEPT ![c] = b] /\ Go(b, c, "semaphore")
    /\ UNCHANGED <<run, managed, batch, copy, snap, recovery, budget>>

(* The cell is taken: attach to a run of the same md5, else fail.          *)
AttachOrReject(b, c) ==
    /\ At(b, c, "enter") /\ ~batch[b].cancel
    /\ lock[c] # None
    /\ \E s \in {"attached", "failed"} : SetItem(b, c, s)
    /\ Go(b, c, "over")
    /\ UNCHANGED <<run, managed, copy, snap, lock, recovery, budget>>

InSemaphore(b) == {c \in Cells : worker[b][c] \in {"disk", "slot", "starting", "wait", "judge"}}

AcquireSemaphore(b, c) ==
    /\ At(b, c, "semaphore") /\ Cardinality(InSemaphore(b)) < Concurrency
    /\ Go(b, c, "disk")
    /\ UNCHANGED <<run, managed, batch, copy, snap, lock, recovery, budget>>

(* The disk loop looks at the cancel flag on every pass and once after it. *)
DiskCancelled(b, c) ==
    /\ At(b, c, "disk") /\ batch[b].cancel
    /\ Quit(b, c, "cancelled")

DiskExhausted(b, c) ==
    /\ At(b, c, "disk") /\ ~batch[b].cancel
    /\ Quit(b, c, "failed")

MarkRunning(b, c) ==
    /\ At(b, c, "disk") /\ ~batch[b].cancel
    /\ SetItem(b, c, "running") /\ Go(b, c, "slot")
    /\ UNCHANGED <<run, managed, copy, snap, lock, recovery, budget>>

NoSlot(b, c) == At(b, c, "slot") /\ Quit(b, c, "rate_limited")

StartRun(b, c) ==
    /\ At(b, c, "slot")
    /\ Popen(c, b) /\ Go(b, c, "starting")
    /\ UNCHANGED <<managed, batch, copy, snap, lock, recovery, budget>>

RunOf(b, c) == {r \in Runs : run[r].by = b /\ run[r].cell = c}  (* one at most *)

(* start_run raises: before the subprocess exists, or in the insert, which *)
(* leaves a subprocess without a row.                                      *)
StartRunRaises(b, c) ==
    /\ \/ At(b, c, "slot") /\ UNCHANGED run
       \/ \E r \in RunOf(b, c) : /\ run[r].step = "popen"
                                 /\ run' = [run EXCEPT ![r].step = "past"]
    /\ Spend("fault")
    /\ Leave(b, c, "failed") /\ Persist(b)
    /\ UNCHANGED <<managed, snap, recovery>>

PublishRunId(b, c) ==
    /\ At(b, c, "starting") /\ \E r \in RunOf(b, c) : run[r].step = "registered"
    /\ Go(b, c, "wait")
    /\ UNCHANGED <<run, managed, batch, copy, snap, lock, recovery, budget>>

(* _wait_for_run ends on a row that is no longer running, or after 7200    *)
(* polls of one that is gone, abandoned by its watcher, or just slow.      *)
RunOver(b, c) == \E r \in RunOf(b, c) : run[r].row \in Final
(* Mutant of RunLost: the wait has no end of its own.                      *)
RunLostNever(b, c) == FALSE

RunLost(b, c) == \E r \in RunOf(b, c) : run[r].row = "deleted" \/ run[r].watch = "dead"

WaitForRun(b, c) ==
    /\ At(b, c, "wait")
    /\ RunOver(b, c) \/ RunLost(b, c)
    /\ Go(b, c, "judge")
    /\ UNCHANGED <<run, managed, batch, copy, snap, lock, recovery, budget>>

WaitTooLong(b, c) ==
    /\ At(b, c, "wait") /\ ~RunOver(b, c)
    /\ Spend("fault")
    /\ Go(b, c, "judge")
    /\ UNCHANGED <<run, managed, batch, copy, snap, lock, recovery>>

(* Mutant of JudgeRun: a run cut short counts as sampled.                  *)
JudgeRunPartial(b, c) ==
    /\ At(b, c, "judge")
    /\ Leave(b, c, IF \E r \in RunOf(b, c) : run[r].row \in {"completed", "cancelled"}
                   THEN "completed" ELSE "failed")
    /\ Persist(b)
    /\ UNCHANGED <<run, managed, snap, recovery, budget>>

(* The row is read a second time; then the cell is left and the batch      *)
(* written.                                                                *)
JudgeRun(b, c) ==
    /\ At(b, c, "judge")
    /\ Leave(b, c, IF \E r \in RunOf(b, c) : run[r].row = "completed"
                   THEN "completed" ELSE "failed")
    /\ Persist(b)
    /\ UNCHANGED <<run, managed, snap, recovery, budget>>

(* Mutant of CompleteBatch: the threads are not joined.                    *)
CompleteBatchNoJoin(b) ==
    /\ batch[b].status = "running"
    /\ \E c \in Cells : At(b, c, "over")
    /\ batch' = [batch EXCEPT ![b].status = "completed"]
    /\ Persist(b)
    /\ UNCHANGED <<run, managed, snap, worker, lock, recovery, budget>>

(* join, the terminal status and its persist.                              *)
CompleteBatch(b) ==
    /\ batch[b].status = "running"
    /\ \A c \in Cells : batch[b].item[c] # "absent" => At(b, c, "over")
    /\ batch' = [batch EXCEPT ![b].status = "completed"]
    /\ Persist(b)
    /\ UNCHANGED <<run, managed, snap, worker, lock, recovery, budget>>

(* cancel_batch: the flag, then every run that has published its id gets   *)
(* the stop file and, while _running knows it, a tree kill.                *)
Published(b) == {r \in managed : /\ run[r].by = b
                                 /\ worker[b][run[r].cell] \in {"wait", "judge"}}

CancelBatch(b) ==
    /\ console = "up" /\ batch[b].status # "none" /\ snap[b] = NoCopy
    /\ Spend("fault")
    /\ batch' = [batch EXCEPT ![b].cancel = TRUE]
    /\ run' = [r \in Runs |-> IF r \in Published(b) THEN Killed(run[r]) ELSE run[r]]
    /\ snap' = [snap EXCEPT ![b] = Copied(b)]
    /\ UNCHANGED <<managed, copy, worker, lock, recovery>>

CancelWrite(b) ==
    /\ snap[b] # NoCopy
    /\ copy' = [copy EXCEPT ![b] = snap[b]]
    /\ snap' = [snap EXCEPT ![b] = NoCopy]
    /\ UNCHANGED <<run, managed, batch, worker, lock, recovery, budget>>

----------------------------------------------------------------------------
(* The console dies and is started again.                                  *)

Crash ==
    /\ console # "down" /\ Spend("crash")
    /\ console' = "down"
    /\ run' = [r \in Runs |-> [run[r] EXCEPT !.watch = "none", !.out = "none", !.stop = FALSE,
                                 !.step = IF @ = "unused" THEN @ ELSE "past"]]
    /\ managed' = {} /\ stale' = {} /\ heir' = None
    /\ said' = [r \in Runs |-> IF r \in stale THEN "nothing" ELSE said[r]]
    /\ batch' = [b \in Batches |-> NoBatch]
    /\ snap' = [b \in Batches |-> NoCopy]
    /\ worker' = [b \in Batches |-> [c \in Cells |-> "gone"]]
    /\ lock' = [c \in Cells |-> None]
    /\ UNCHANGED copy

(* RunManager.__init__ reads the running rows once.                        *)
Boot ==
    /\ console = "down"
    /\ console' = "recover"
    /\ stale' = {r \in Runs : run[r].row = "running"}
    /\ UNCHANGED <<run, managed, memory, heir, said, budget>>

(* _is_cell_owned_by_active_queue, as far as sampling batches go.          *)
Owned(c) == \E b \in Batches : copy[b].status = "running" /\ copy[b].item[c] # "absent"

Orphan(r) == r \in stale /\ \A x \in stale : x <= r  (* ORDER BY created_at DESC *)
HasPid(r) == run[r].by # "report"
Treated(r) == /\ console = "recover" /\ Orphan(r) /\ heir = None
              /\ HasPid(r) => said[r] # "nothing"

(* _terminate_pid_if_running, once per row.  A worker that was signalled   *)
(* ends by AnalyzerExit, at once or (its SIGTERM handler asks it to stop   *)
(* after the chunk) a while later; or the kill fails and it lives on.  Of  *)
(* a worker that is dead already the message says that it may still exist. *)
TerminateOrphan(r) ==
    /\ console = "recover" /\ Orphan(r) /\ heir = None
    /\ HasPid(r) /\ said[r] = "nothing"
    /\ \/ /\ run[r].proc = "alive"
          /\ said' = [said EXCEPT ![r] = "terminated"]
          /\ UNCHANGED budget
       \/ /\ said' = [said EXCEPT ![r] = "may still exist"]
          /\ IF run[r].proc = "alive" THEN Spend("fault") ELSE UNCHANGED budget
    /\ UNCHANGED <<run, console, stale, heir, managed, memory>>

(* The row is failed, with the message; its recovery is over.              *)
SettleOrphan(r) ==
    /\ run' = [run EXCEPT ![r].row = "failed"]
    /\ stale' = stale \ {r} /\ heir' = None
    /\ UNCHANGED <<console, said, managed, memory, budget>>

(* Mutant of RecoverOwned: the row of an owned cell is left as it is.      *)
RecoverOwnedKeepsRow(r) ==
    /\ Treated(r) /\ Owned(run[r].cell)
    /\ stale' = stale \ {r}
    /\ UNCHANGED <<console, heir, said, run, managed, memory, budget>>

(* The cell is left to the batch that owns it.                             *)
RecoverOwned(r) == Treated(r) /\ Owned(run[r].cell) /\ SettleOrphan(r)

(* Or nothing is spawned: auto-resume is off, the row lacks a field, or    *)
(* start_run refuses or raises before there is a process.                  *)
RecoverNoSpawn(r) == Treated(r) /\ ~Owned(run[r].cell) /\ SettleOrphan(r)

(* Or start_run is called for it.                                          *)
RecoverSpawn(r) ==
    /\ Treated(r) /\ ~Owned(run[r].cell)
    /\ \E n \in Runs : /\ NewRun(n) /\ heir' = n
                       /\ run' = [run EXCEPT ![n] = Process(run[r].cell, "orphan")]
    /\ UNCHANGED <<console, stale, said, managed, memory, budget>>

RecoverMarkFailed(r) ==
    /\ Orphan(r) /\ heir # None /\ run[heir].step = "registered"
    /\ SettleOrphan(r)

(* start_run raises in its insert: the subprocess stays, without a row.    *)
RecoverSpawnRaises(r) ==
    /\ Orphan(r) /\ heir # None /\ run[heir].step = "popen"
    /\ Spend("fault")
    /\ run' = [run EXCEPT ![r].row = "failed", ![heir].step = "past"]
    /\ stale' = stale \ {r} /\ heir' = None
    /\ UNCHANGED <<console, said, managed, memory>>

(* _restore_persisted_batches, one batch at a time; then the app is up.    *)
RestoreBatch(b) ==
    /\ console = "recover" /\ stale = {}
    /\ copy[b].status = "running"
    /\ LET item == [c \in Cells |-> IF copy[b].item[c] \in {"pending", "running"}
                                    THEN "cancelled" ELSE copy[b].item[c]]
       IN  /\ batch' = [batch EXCEPT ![b] =
                           [status |-> "cancelled", item |-> item, cancel |-> TRUE]]
           /\ copy' = [copy EXCEPT ![b] = [status |-> "cancelled", item |-> item]]
    /\ UNCHANGED <<run, managed, snap, worker, lock, recovery, budget>>

StartupDone ==
    /\ console = "recover" /\ stale = {}
    /\ \A b \in Batches : copy[b].status # "running"
    /\ console' = "up"
    /\ UNCHANGED <<run, managed, memory, stale, heir, said, budget>>

----------------------------------------------------------------------------
Watch(r) == WatchFailed(r) \/ WatchNoSpins(r) \/ WatchIndex(r) \/ WatchFinal(r) \/ WatchPop(r)

Work(b, c) ==
    \/ ItemCancelledQueued(b, c) \/ AcquireSampling(b, c) \/ AttachOrReject(b, c)
    \/ AcquireSemaphore(b, c) \/ DiskCancelled(b, c) \/ DiskExhausted(b, c)
    \/ MarkRunning(b, c) \/ NoSlot(b, c) \/ StartRun(b, c) \/ PublishRunId(b, c)
    \/ WaitForRun(b, c) \/ JudgeRun(b, c)

Startup ==
    \/ \E r \in Runs : \/ TerminateOrphan(r) \/ RecoverOwned(r) \/ RecoverNoSpawn(r)
                       \/ RecoverSpawn(r) \/ RecoverMarkFailed(r)
    \/ \E b \in Batches : RestoreBatch(b)
    \/ StartupDone

Next ==
    \/ \E r \in Runs : \/ AnalyzerExit(r) \/ Watch(r) \/ RegisterRun(r)
                       \/ GenerateStart(r) \/ GenerateEnd(r) \/ CancelRun(r) \/ DeleteRun(r)
                       \/ RecoverSpawnRaises(r)
    \/ \E c \in Cells : CreateRun(c) \/ GenerateRow(c) \/ GenerateQueue(c)
    \/ \E b \in Batches :
          \/ \E cells \in Requests : PostBatch(b, cells)
          \/ \E new \in Batches : ResumeBatch(b, new)
          \/ CompleteBatch(b) \/ CancelBatch(b) \/ CancelWrite(b)
          \/ \E c \in Cells : Work(b, c) \/ StartRunRaises(b, c) \/ WaitTooLong(b, c)
    \/ Crash \/ Boot \/ Startup

Spec == Init /\ [][Next]_vars

(* Threads run, analyzers end, a console that is starting gets there.      *)
FairSpec ==
    /\ Spec
    /\ \A r \in Runs : WF_vars(AnalyzerExit(r)) /\ WF_vars(Watch(r)) /\ WF_vars(RegisterRun(r))
    /\ \A b \in Batches : WF_vars(CompleteBatch(b)) /\ \A c \in Cells : WF_vars(Work(b, c))
    /\ WF_vars(Startup)

----------------------------------------------------------------------------
(* Properties.                                                             *)

OfBatch(r) == run[r].by \in Batches
ThisLife(r) == run[r].step \in {"queued", "popen", "registered"}

(* While the analyzer of a batch item runs, the batch holds SAMPLING on    *)
(* the cell: a cancel, a failed write or a deleted row never lets another  *)
(* sampler in.  The one exception is an item that was given up (and says   *)
(* so) after two hours or an error in start_run.                           *)
LockCoversRun ==
    \A r \in Runs : OfBatch(r) /\ ThisLife(r) /\ run[r].proc = "alive" =>
        \/ lock[run[r].cell] = run[r].by
        \/ batch[run[r].by].item[run[r].cell] = "failed"

(* Once the console is up, rows and analyzer processes agree: recovery has *)
(* settled every sampling row of the life before, so none refuses deletes  *)
(* and new runs for ever, whether or not its worker could be killed or a   *)
(* resume be started; and no analyzer outlives the console that started it *)
(* unseen: what is still alive either never had a row, or its row is       *)
(* failed and says that it was told to stop or that it may still exist.    *)
(* A queued row, which recovery does not read, never has a process.        *)
EveryRunAccounted ==
    console = "up" =>
        \A r \in Runs :
            /\ run[r].row = "running" /\ run[r].by # "report" => r \in managed
            /\ run[r].row = "queued" => r \notin managed /\ run[r].proc = "none"
            /\ run[r].proc = "alive" =>
                 \/ r \in managed \/ ThisLife(r) \/ run[r].row = "none"
                 \/ run[r].row \in {"failed", "deleted"} /\ said[r] # "nothing"

(* What the batches table calls completed was sampled to the end, whatever *)
(* order the snapshots are written in and however often the console dies:  *)
(* a resumed batch skips nothing it should sample.                         *)
CompletedWasSampled ==
    \A b \in Batches, c \in Cells :
        copy[b].item[c] = "completed" =>
            \E r \in Runs : /\ run[r].by = b /\ run[r].cell = c
                            /\ run[r].row \in {"completed", "deleted"}

(* A finished batch has let go of its cells, and its items say how they    *)
(* ended.                                                                  *)
EndedBatchSettled ==
    \A b \in Batches : batch[b].status = "completed" =>
        \A c \in Cells : /\ lock[c] # b
                         /\ batch[b].item[c] \notin {"pending", "running"}

(* Every batch ends, whatever its analyzers do, whoever cancels it or      *)
(* deletes its runs, unless the console dies.                              *)
BatchEnds == \A b \in Batches : batch[b].status = "running" ~> batch[b].status # "running"

=============================================================================
