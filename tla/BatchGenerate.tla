---------------------------- MODULE BatchGenerate ----------------------------
(***************************************************************************)
(* One batch of BatchGenerateManager (app.py) with its prepare and         *)
(* finalize wrappers.  A driver thread prepares every item (run row, scope *)
(* directory, GENERATING lock), hands the jobs to a process pool and takes *)
(* the results in the order they come.  The batch lives in memory under a  *)
(* lock; _persist copies it under the lock and writes the copy to SQLite   *)
(* without it, so the driver's and a canceller's writes may cross.         *)
(*                                                                         *)
(* An item is its position in the batch and names the cell it reports on;  *)
(* the items of a batch name different cells.                              *)
(***************************************************************************)
EXTENDS Integers, FiniteSets

CONSTANTS Items,       (* 1 .. the length of the batch                       *)
          MaxBusy,     (* bound: times another operation takes a cell        *)
          MaxCancels,  (* bound: cancel requests                             *)
          MaxBreaks,   (* bound: times the process pool breaks               *)
          MaxCrashes,  (* bound: console restarts                            *)
          Nothing      (* no snapshot, no row                                *)

Over == {"completed", "partial", "cancelled"}
ItemOver == {"completed", "failed", "cancelled"}
ItemStatus == {"pending", "running"} \cup ItemOver

(* What _persist writes of a batch.                                        *)
Copies == [status : {"pending", "running"} \cup Over, item : [Items -> ItemStatus]]

ASSUME BatchAssumption ==
    /\ IsFiniteSet(Items) /\ Items = 1 .. Cardinality(Items)
    /\ {MaxBusy, MaxCancels, MaxBreaks, MaxCrashes} \subseteq Nat
    /\ Nothing \notin Copies

VARIABLES
    status,    (* state["status"]; "none" if _batches has no such batch      *)
    item,      (* state["items"][i]["status"]                                *)
    count,     (* state["completed"], ["failed"], ["pending"]                *)
    cancelled, (* state["_cancel_requested"]                                 *)
    driver,    (* the _run thread: where it is, its item, what comes next    *)
    swept,     (* cancelled_submitted                                        *)
    job,       (* the future of each item                                    *)
    stray,     (* items a worker of a dead console is still at               *)
    lock,      (* the cell of each item: free, ours (GENERATING), another's  *)
    scope,     (* whether the hardlink directory of the item exists          *)
    runRow,    (* the runs row of the item                                   *)
    client,    (* the canceller: where it is                                 *)
    snap,      (* the copies taken by driver and canceller, not yet written  *)
    disk,      (* the batches row                                            *)
    budget     (* what is left of the bounds                                 *)

batch == <<status, item, count, cancelled>>
item2 == <<job, lock, scope, runRow>>
other == <<client, disk, budget>>
vars == <<batch, driver, swept, item2, snap, other, stray>>

Idle == [at |-> "gone", i |-> 0, then |-> "advance"]
Copy == [status |-> status, item |-> item]

TypeOK ==
    /\ status \in {"none", "pending", "running"} \cup Over
    /\ item \in [Items -> ItemStatus]
    /\ count \in [{"completed", "failed", "pending"} -> Int]
    /\ cancelled \in BOOLEAN /\ swept \in BOOLEAN
    /\ driver \in [at : {"gone", "dead", "begin", "check", "prepare", "acquire", "mark", "refuse", "submit",
                         "collect", "result", "settle", "upsert", "count", "final"},
                   i : 0 .. Cardinality(Items) + 1,
                   then : {"advance", "completed", "failed", "gone"}]
    /\ job \in [Items -> {"none", "prepared", "queued", "working", "ok", "error",
                          "raised", "cancelled", "taken", "lost"}]
    /\ stray \subseteq Items
    /\ lock \in [Items -> {"free", "ours", "other"}]
    /\ scope \in [Items -> BOOLEAN]
    /\ runRow \in [Items -> {"none", "running", "completed", "failed"}]
    /\ client \in {"idle", "copy", "write"}
    /\ snap \in [{"driver", "client"} -> Copies \cup {Nothing}]
    /\ disk \in Copies \cup {Nothing}
    /\ budget \in [{"busy", "cancel", "break", "crash"} -> Nat]

Init ==
    /\ status = "none"
    /\ item = [i \in Items |-> "pending"]
    /\ count = [c \in {"completed", "failed", "pending"} |-> IF c = "pending" THEN Cardinality(Items) ELSE 0]
    /\ cancelled = FALSE
    /\ driver = Idle
    /\ swept = FALSE
    /\ job = [i \in Items |-> "none"]
    /\ stray = {}
    /\ lock = [i \in Items |-> "free"]
    /\ scope = [i \in Items |-> FALSE]
    /\ runRow = [i \in Items |-> "none"]
    /\ client = "idle"
    /\ snap = [t \in {"driver", "client"} |-> Nothing]
    /\ disk = Nothing
    /\ budget = [busy |-> MaxBusy, cancel |-> MaxCancels, break |-> MaxBreaks, crash |-> MaxCrashes]

Spend(b) == budget[b] > 0 /\ budget' = [budget EXCEPT ![b] = @ - 1]
Goto(l) == driver' = [driver EXCEPT !.at = l]
-----------------------------------------------------------------------------
(* start: the batch, its first row, its thread.                            *)
Start ==
    /\ status = "none" /\ disk = Nothing
    /\ status' = "pending"
    /\ disk' = [status |-> "pending", item |-> item]
    /\ Goto("begin")
    /\ UNCHANGED <<item, count, cancelled, swept, item2, snap, client, budget, stray>>

(* cancel, and the _persist that follows it: flag, copy, write.            *)
CancelFlag ==
    /\ client = "idle"
    /\ status \in {"pending", "running"}
    /\ Spend("cancel")
    /\ cancelled' = TRUE
    /\ client' = "copy"
    /\ UNCHANGED <<status, item, count, driver, swept, item2, snap, disk, stray>>

CancelCopy ==
    /\ client = "copy"
    /\ snap' = [snap EXCEPT !["client"] = Copy]
    /\ client' = "write"
    /\ UNCHANGED <<batch, driver, swept, item2, disk, budget, stray>>

CancelWrite ==
    /\ client = "write"
    /\ disk' = snap["client"]
    /\ snap' = [snap EXCEPT !["client"] = Nothing]
    /\ client' = "idle"
    /\ UNCHANGED <<batch, driver, swept, item2, budget, stray>>
-----------------------------------------------------------------------------
(* _run.                                                                   *)
Begin ==
    /\ driver.at = "begin"
    /\ status' = "running"
    /\ driver' = [driver EXCEPT !.at = "check", !.i = 1]
    /\ UNCHANGED <<item, count, cancelled, swept, item2, snap, other, stray>>

(* Phase A, item by item, until a cancel.                                  *)
Check ==
    /\ driver.at = "check"
    /\ Goto(IF driver.i \notin Items \/ cancelled THEN "submit" ELSE "prepare")
    /\ UNCHANGED <<batch, swept, item2, snap, other, stray>>

(* _prepare_batch_gen_item: a scope directory when the mode also holds     *)
(* historical chunks, then the running row; it may raise anywhere (no      *)
(* usable chunks, a full disk, the md5 lookup) and then undoes nothing.    *)
Prepare ==
    /\ driver.at = "prepare"
    /\ \E scoped, inserted, good \in BOOLEAN :
         /\ good => inserted
         /\ scope' = [scope EXCEPT ![driver.i] = scoped]
         /\ runRow' = [runRow EXCEPT ![driver.i] = IF inserted THEN "running" ELSE @]
         /\ Goto(IF good THEN "acquire" ELSE "refuse")
    /\ UNCHANGED <<batch, swept, job, lock, snap, other, stray>>

(* The wrapper's GENERATING acquire; a refusal removes the scope directory.*)
Acquire ==
    /\ driver.at = "acquire"
    /\ \/ /\ lock[driver.i] = "free"
          /\ lock' = [lock EXCEPT ![driver.i] = "ours"]
          /\ job' = [job EXCEPT ![driver.i] = "prepared"]
          /\ Goto("mark")
          /\ UNCHANGED scope
       \/ /\ lock[driver.i] = "other"
          /\ scope' = [scope EXCEPT ![driver.i] = FALSE]
          /\ Goto("refuse")
          /\ UNCHANGED <<lock, job>>
    /\ UNCHANGED <<batch, swept, runRow, snap, other, stray>>

(* _set_item patches the item and copies the batch for _persist.           *)
SetItem(value, then) ==
    /\ item' = [item EXCEPT ![driver.i] = value]
    /\ snap' = [snap EXCEPT !["driver"] = [status |-> status, item |-> item']]
    /\ driver' = [driver EXCEPT !.at = "upsert", !.then = then]
    /\ UNCHANGED <<status, count, cancelled, swept>>

MarkRunning ==
    /\ driver.at = "mark"
    /\ SetItem("running", "advance")
    /\ UNCHANGED <<item2, other, stray>>

MarkRefused ==
    /\ driver.at = "refuse"
    /\ SetItem("failed", "failed")
    /\ UNCHANGED <<item2, other, stray>>

(* The write of the copy, outside the lock.                                *)
Upsert ==
    /\ driver.at = "upsert"
    /\ disk' = snap["driver"]
    /\ snap' = [snap EXCEPT !["driver"] = Nothing]
    /\ driver' = CASE driver.then = "gone"    -> Idle
                   [] driver.then = "advance" -> [driver EXCEPT !.at = "check", !.i = @ + 1]
                   [] OTHER                   -> [driver EXCEPT !.at = "count"]
    /\ UNCHANGED <<batch, swept, item2, client, budget, stray>>

(* The counters, under the lock again; then the next item of the phase.    *)
UpdateCounters ==
    /\ driver.at = "count"
    /\ count' = [count EXCEPT ![driver.then] = @ + 1, !["pending"] = @ - 1]
    /\ driver' = IF \E i \in Items : job[i] \in {"taken", "lost"}
                 THEN [driver EXCEPT !.at = "collect"]
                 ELSE [driver EXCEPT !.at = "check", !.i = @ + 1]
    /\ UNCHANGED <<status, item, cancelled, swept, item2, snap, other, stray>>

(* Phase B, job by job.  A submit to a broken pool raises, and nothing     *)
(* catches that: the thread dies where it is.                              *)
Broken == \E i \in Items : job[i] = "raised"

Submit ==
    /\ driver.at = "submit"
    /\ LET prepared == {i \in Items : job[i] = "prepared"}
       IN  \/ /\ prepared = {}
              /\ Goto(IF \E i \in Items : job[i] # "none" THEN "collect" ELSE "final")
              /\ UNCHANGED job
           \/ /\ ~Broken
              /\ \E i \in prepared : /\ \A k \in prepared : i <= k
                                     /\ job' = [job EXCEPT ![i] = "queued"]
              /\ UNCHANGED driver
           \/ /\ prepared # {} /\ Broken
              /\ Goto("dead")
              /\ UNCHANGED job
    /\ UNCHANGED <<batch, swept, lock, scope, runRow, snap, other, stray>>

(* The pool starts a queued job when a worker is free.                     *)
JobStarts(i) ==
    /\ job[i] = "queued"
    /\ job' = [job EXCEPT ![i] = "working"]
    /\ UNCHANGED <<batch, driver, swept, lock, scope, runRow, snap, other, stray>>

JobEnds(i) ==
    /\ job[i] = "working"
    /\ \E result \in {"ok", "error"} : job' = [job EXCEPT ![i] = result]
    /\ UNCHANGED <<batch, driver, swept, lock, scope, runRow, snap, other, stray>>

(* A worker process dies, at work or in its initializer: every unfinished  *)
(* future raises.                                                          *)
PoolBreaks ==
    /\ driver.at \in {"submit", "collect", "result", "settle", "upsert", "count"}
    /\ \E i \in Items : job[i] \in {"queued", "working"}
    /\ Spend("break")
    /\ job' = [i \in Items |-> IF job[i] \in {"queued", "working"} THEN "raised" ELSE job[i]]
    /\ UNCHANGED <<batch, driver, swept, lock, scope, runRow, snap, client, disk, stray>>

(* Mutant of Done: a cancelled future is never yielded.                    *)
DoneRan(i) == job[i] \in {"ok", "error", "raised"}

Done(i) == job[i] \in {"ok", "error", "raised", "cancelled"}

(* as_completed yields a future; the first after a cancel also cancels     *)
(* the futures no worker has started.                                      *)
Collect ==
    /\ driver.at = "collect"
    /\ \E i \in Items :
         /\ Done(i)
         /\ driver' = [driver EXCEPT !.at = "result", !.i = i]
         /\ swept' = cancelled
         /\ job' = [k \in Items |-> IF cancelled /\ ~swept /\ job[k] = "queued"
                                    THEN "cancelled" ELSE job[k]]
    /\ UNCHANGED <<batch, lock, scope, runRow, snap, other, stray>>

(* Mutant of Finalize: a failed finalize skips the release.                *)
FinalizeNoFinally ==
    LET i == driver.i IN
    /\ driver.at = "result"
    /\ job[i] \in {"ok", "error"}
    /\ \E good \in BOOLEAN :
         /\ runRow' = [runRow EXCEPT ![i] =
                          IF ~good THEN @ ELSE IF job[i] = "ok" THEN "completed" ELSE "failed"]
         /\ driver' = [driver EXCEPT !.at = "settle",
                          !.then = IF good /\ job[i] = "ok" THEN "completed" ELSE "failed"]
         /\ IF good THEN /\ scope' = [scope EXCEPT ![i] = FALSE]
                         /\ lock' = [lock EXCEPT ![i] = "free"]
                    ELSE UNCHANGED <<scope, lock>>
    /\ job' = [job EXCEPT ![i] = "taken"]
    /\ UNCHANGED <<batch, swept, snap, other, stray>>

(* _finalize_batch_gen_item_wrapper: the row and the index, which may      *)
(* raise before or after the row is updated; its finally removes the scope *)
(* directory and releases the cell.                                        *)
Finalize ==
    LET i == driver.i IN
    /\ driver.at = "result"
    /\ job[i] \in {"ok", "error"}
    /\ \E good, updated \in BOOLEAN :
         /\ good => updated
         /\ runRow' = [runRow EXCEPT ![i] =
                          IF ~updated THEN @ ELSE IF job[i] = "ok" THEN "completed" ELSE "failed"]
         /\ driver' = [driver EXCEPT !.at = "settle",
                          !.then = IF good /\ job[i] = "ok" THEN "completed" ELSE "failed"]
    /\ scope' = [scope EXCEPT ![i] = FALSE]
    /\ lock' = [lock EXCEPT ![i] = "free"]
    /\ job' = [job EXCEPT ![i] = "taken"]
    /\ UNCHANGED <<batch, swept, snap, other, stray>>

(* fut.result() raises: a broken pool, or the future was cancelled.  The   *)
(* item is marked, nothing is finalized.                                   *)
ResultRaises ==
    LET i == driver.i IN
    /\ driver.at = "result"
    /\ job[i] \in {"raised", "cancelled"}
    /\ driver' = [driver EXCEPT !.at = "settle", !.then = "failed"]
    /\ job' = [job EXCEPT ![i] = "lost"]
    /\ UNCHANGED <<batch, swept, lock, scope, runRow, snap, other, stray>>

Settle ==
    /\ driver.at = "settle"
    /\ SetItem(driver.then, driver.then)
    /\ UNCHANGED <<item2, other, stray>>

(* The as_completed loop is over.                                          *)
CollectOver ==
    /\ driver.at = "collect"
    /\ \A i \in Items : job[i] \in {"none", "taken", "lost"}
    /\ Goto("final")
    /\ UNCHANGED <<batch, swept, item2, snap, other, stray>>

(* Mutant of Verdict: the failures decide before the cancel.               *)
VerdictFailuresFirst ==
    IF count["failed"] > 0 THEN "partial" ELSE IF cancelled THEN "cancelled" ELSE "completed"

Verdict ==
    IF cancelled THEN "cancelled" ELSE IF count["failed"] = 0 THEN "completed" ELSE "partial"

(* Phase C, under the lock; the copy is written outside it.                *)
Final ==
    /\ driver.at = "final"
    /\ status' = Verdict
    /\ LET unprepared == {i \in Items : item[i] = "pending"}
       IN  /\ item' = [i \in Items |->
                          IF cancelled /\ i \in unprepared THEN "cancelled" ELSE item[i]]
           /\ count' = IF cancelled /\ unprepared # {} THEN [count EXCEPT !["pending"] = 0] ELSE count
    /\ snap' = [snap EXCEPT !["driver"] = [status |-> status', item |-> item']]
    /\ driver' = [driver EXCEPT !.at = "upsert", !.then = "gone"]
    /\ UNCHANGED <<cancelled, swept, item2, other, stray>>
-----------------------------------------------------------------------------
OtherTakes(i) ==
    /\ lock[i] = "free"
    /\ Spend("busy")
    /\ lock' = [lock EXCEPT ![i] = "other"]
    /\ UNCHANGED <<batch, driver, swept, job, scope, runRow, snap, client, disk, stray>>

OtherFrees(i) ==
    /\ lock[i] = "other"
    /\ lock' = [lock EXCEPT ![i] = "free"]
    /\ UNCHANGED <<batch, driver, swept, job, scope, runRow, snap, other, stray>>

(* Mutant of Restored: cancels what had not begun.                         *)
RestoredPendingOnly ==
    [status |-> "cancelled",
     item |-> [i \in Items |-> IF disk.item[i] = "pending" THEN "cancelled" ELSE disk.item[i]]]

(* _restore_persisted on a row that is not terminal.                       *)
Restored ==
    [status |-> "cancelled",
     item |-> [i \in Items |->
                  IF disk.item[i] \in {"pending", "running"} THEN "cancelled" ELSE disk.item[i]]]

(* The console dies and starts again: RunManager fails the running rows,   *)
(* the manager restores unfinished batches as cancelled.  Scope            *)
(* directories stay on disk.  The pool's workers are processes of their    *)
(* own: a killed console leaves those at work, and what is already in      *)
(* their call queue, to go on; the row has no pid to find them by.         *)
Restart ==
    /\ Spend("crash")
    /\ driver' = Idle /\ swept' = FALSE /\ client' = "idle"
    /\ stray' \in SUBSET (stray \cup {i \in Items : job[i] \in {"queued", "working"}})
    /\ job' = [i \in Items |-> "none"]
    /\ lock' = [i \in Items |-> "free"]
    /\ runRow' = [i \in Items |-> IF runRow[i] = "running" THEN "failed" ELSE runRow[i]]
    /\ snap' = [t \in {"driver", "client"} |-> Nothing]
    /\ IF disk # Nothing /\ disk.status \in {"pending", "running"}
       THEN /\ disk' = Restored
            /\ status' = "cancelled" /\ item' = Restored.item
            /\ cancelled' = TRUE
            /\ count' = [count EXCEPT !["pending"] = 0]
       ELSE /\ status' = "none"
            /\ UNCHANGED <<disk, item, count, cancelled>>
    /\ UNCHANGED scope

(* Such a worker is through: its report directory has no row to go with.   *)
StrayEnds(i) ==
    /\ i \in stray
    /\ stray' = stray \ {i}
    /\ UNCHANGED <<batch, driver, swept, item2, snap, other>>

Driver ==
    \/ Begin \/ Check \/ Prepare \/ Acquire \/ MarkRunning \/ MarkRefused \/ Upsert
    \/ UpdateCounters \/ Submit \/ Collect \/ Finalize \/ ResultRaises \/ Settle
    \/ CollectOver \/ Final

Next ==
    \/ Start \/ CancelFlag \/ CancelCopy \/ CancelWrite
    \/ Driver
    \/ \E i \in Items : JobStarts(i) \/ JobEnds(i) \/ OtherTakes(i) \/ OtherFrees(i) \/ StrayEnds(i)
    \/ PoolBreaks \/ Restart

Spec == Init /\ [][Next]_vars

(* The driver runs and the pool works through its jobs.                    *)
FairSpec ==
    /\ Spec
    /\ WF_vars(Driver)
    /\ \A i \in Items : WF_vars(JobStarts(i)) /\ WF_vars(JobEnds(i))
-----------------------------------------------------------------------------
(* PROPERTIES                                                              *)

(* A job of the living console has GENERATING on its cell from submit to   *)
(* the end of its analyzer, so no delete can take the chunks it reads, and *)
(* no longer: the only cells a batch still locks when its thread is        *)
(* through are those whose future raised or was cancelled; a job that was  *)
(* finalized keeps neither its cell nor its scope directory.  The only     *)
(* work without the lock is that of a worker that outlived its console,    *)
(* and then nothing vouches for its report: the batch is over, the row of  *)
(* the run is failed and the item cancelled, in memory (while the batch is *)
(* known) and in the batches row.                                          *)
LockSpansJob ==
    /\ \A i \in Items : job[i] \in {"prepared", "queued", "working", "ok", "error"} => lock[i] = "ours"
    /\ driver.at = "gone" => \A i \in Items : lock[i] = "ours" => job[i] = "lost"
    /\ \A i \in Items : job[i] = "taken" => lock[i] # "ours" /\ ~scope[i]
    /\ \A i \in stray :
         /\ runRow[i] = "failed"
         /\ disk # Nothing /\ disk.status = "cancelled" /\ disk.item[i] = "cancelled"
         /\ status \in {"none", "cancelled"} /\ item[i] = "cancelled"

(* A batch that ended says of every item how it ended, in memory and in    *)
(* the row an operator sees after a restart.                               *)
EndsSettled ==
    /\ status \in Over => \A i \in Items : item[i] \in ItemOver
    /\ disk # Nothing /\ disk.status \in Over => \A i \in Items : disk.item[i] \in ItemOver

(* And an accepted cancel decides the verdict; otherwise the verdict and   *)
(* the counters agree with the items.                                      *)
VerdictRight ==
    /\ EndsSettled
    /\ status \in {"completed", "partial"} =>
         /\ ~cancelled /\ count["pending"] = 0
         /\ \A c \in {"completed", "failed"} :
              count[c] = Cardinality({i \in Items : item[i] = c})
    /\ status = "completed" => \A i \in Items : item[i] = "completed"
    /\ status = "partial" => \E i \in Items : item[i] = "failed"

(* Every batch that was started ends, whoever cancels it or breaks its     *)
(* pool: the driver never waits for a future that will not come.  Only a   *)
(* pool that breaks before the last submit keeps it from ending.           *)
BatchEnds ==
    status \in {"pending", "running"} ~>
        status \notin {"pending", "running"} \/ driver.at = "dead"
=============================================================================
