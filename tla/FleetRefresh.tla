----------------------------- MODULE FleetRefresh -----------------------------
(***************************************************************************)
(* The fleet-refresh queue (src/web_console/backend/fleet_refresh.py, the  *)
(* item runner and the /api/fleet/refresh handlers of app.py, and          *)
(* StateStore._recover_fleet_refresh).  A queue and its items are SQLite   *)
(* rows; a daemon thread per queue walks them; the cancel flag lives in    *)
(* memory.  Every method that opens a connection commits on its own, so    *)
(* each row update is one step and a crash may fall between any two.       *)
(*                                                                         *)
(* An item is its queue_position; it names the cell it refreshes, so two   *)
(* queues compete for the same cells.  The limiter is the pool of          *)
(* AbstractSlotPool: ConcurrencyLimiter is checked on its own.             *)
(***************************************************************************)
EXTENDS FiniteSets, Integers

CONSTANTS Queues,     (* queue ids; each POST that gets through creates one  *)
          Items,      (* queue positions                                     *)
          Slots,      (* analyzer slots open to background work              *)
          MaxRetries, (* SLOT_FLEET_MAX_RETRIES                              *)
          MaxTrouble, (* bound: second POSTs, restarts, exceptions,          *)
                      (* DELETEs and cells taken by others, together         *)
          Watched,    (* the queues whose end is checked: they are alike, so *)
                      (* one is enough                                       *)
          None        (* nobody, no queue                                    *)

ASSUME FleetAssumption ==
    /\ Items \subseteq Nat /\ IsFiniteSet(Items)
    /\ Watched \subseteq Queues /\ Slots \in Nat \ {0} /\ MaxRetries \in Nat \ {0}
    /\ None \notin Queues /\ None \notin Items /\ "other" \notin Queues \cup {None}

VARIABLES
    row,     (* fleet_refresh_queue.status, "none" before the INSERT         *)
    item,    (* fleet_refresh_items.status, "none" if not part of the queue  *)
    tries,   (* attempt_count                                                *)
    count,   (* completed_items, failed_items, skipped_items                 *)
    flag,    (* _cancel_flags                                                *)
    worker,  (* the queue's thread: where it is, its item, the attempt_count *)
             (* it read, the counter it will raise, the block it is in       *)
    holder,  (* who holds SAMPLING on the cell of an item                    *)
    slot,    (* the queues that hold an analyzer slot                        *)
    post,    (* POST handlers that have seen no running queue                *)
    delete,  (* the queue a DELETE handler has looked up                     *)
    late,    (* items started after the queue's cancel was accepted,         *)
             (* -1 before (history)                                          *)
    trouble  (* how much trouble there was, and whether a crash or an        *)
             (* exception was part of it                                     *)

vars == <<row, item, tries, count, flag, worker, holder, slot, post, delete, late, trouble>>
rows == <<row, item, tries, count>>
env == <<flag, post, delete, trouble>>

Terminal == {"completed", "failed", "skipped"}
Gone == [at |-> "gone", item |-> None, seen |-> 0, col |-> "completed", in |-> "loop"]

TypeOK ==
    /\ row \in [Queues -> {"none", "running", "completed", "cancelled"}]
    /\ item \in [Queues -> [Items -> {"none", "pending", "running"} \cup Terminal]]
    /\ tries \in [Queues -> [Items -> Nat]]
    /\ count \in [Queues -> [Terminal -> Nat]]
    /\ flag \in [Queues -> BOOLEAN]
    /\ worker \in [Queues -> [at : {"gone", "top", "next", "poll", "limiter", "start", "run",
                                    "result", "except", "count", "release", "unwind", "last",
                                    "finish", "quit"},
                              item : Items \cup {None}, seen : Nat, col : Terminal,
                              in : {"loop", "try", "except"}]]
    /\ holder \in [Items -> Queues \cup {None, "other"}]
    /\ slot \in SUBSET Queues
    /\ post \in SUBSET Queues
    /\ delete \in Queues \cup {None}
    /\ late \in [Queues -> Nat \cup {-1}]
    /\ trouble \in [times : Nat, kinds : SUBSET {"crash", "fault"}]

Init ==
    /\ row = [q \in Queues |-> "none"]
    /\ item = [q \in Queues |-> [i \in Items |-> "none"]]
    /\ tries = [q \in Queues |-> [i \in Items |-> 0]]
    /\ count = [q \in Queues |-> [c \in Terminal |-> 0]]
    /\ flag = [q \in Queues |-> FALSE]
    /\ worker = [q \in Queues |-> Gone]
    /\ holder = [i \in Items |-> None]
    /\ slot = {}
    /\ post = {}
    /\ delete = None
    /\ late = [q \in Queues |-> -1]
    /\ trouble = [times |-> 0, kinds |-> {}]

Spend(b) ==
    /\ trouble.times < MaxTrouble
    /\ trouble' = [times |-> trouble.times + 1, kinds |-> trouble.kinds \cup ({b} \cap {"crash", "fault"})]
-----------------------------------------------------------------------------
(* The HTTP handlers.                                                      *)

(* POST /api/fleet/refresh, the single-instance check.                     *)
PostCheck(q) ==
    /\ row[q] = "none" /\ q \notin post
    /\ \A r \in Queues : row[r] # "running"
    /\ IF post = {} /\ \A r \in Queues : row[r] = "none"
       THEN UNCHANGED trouble ELSE Spend("second")
    /\ post' = post \cup {q}
    /\ UNCHANGED <<rows, flag, worker, holder, slot, delete, late>>

(* Its start_queue: one transaction for the queue and its items, then the  *)
(* thread.                                                                 *)
StartQueue(q) ==
    /\ q \in post
    /\ post' = post \ {q}
    /\ row' = [row EXCEPT ![q] = "running"]
    /\ \E chosen \in SUBSET Items :
         item' = [item EXCEPT ![q] = [i \in Items |-> IF i \in chosen THEN "pending" ELSE "none"]]
    /\ worker' = [worker EXCEPT ![q].at = "top"]
    /\ UNCHANGED <<tries, count, flag, holder, slot, delete, late, trouble>>

(* DELETE /api/fleet/refresh: look the running queue up, then cancel_queue.*)
DeleteLook(q) ==
    /\ delete = None /\ row[q] = "running"
    /\ Spend("cancel")
    /\ delete' = q
    /\ UNCHANGED <<rows, flag, worker, holder, slot, post, late>>

CancelQueue ==
    /\ delete # None
    /\ flag' = [flag EXCEPT ![delete] = TRUE]
    /\ late' = [late EXCEPT ![delete] = IF @ = -1 THEN 0 ELSE @]
    /\ delete' = None
    /\ UNCHANGED <<rows, worker, holder, slot, post, trouble>>
-----------------------------------------------------------------------------
(* run_queue.                                                              *)
Goto(q, l) == worker' = [worker EXCEPT ![q].at = l]
Count(q, col, in) ==
    worker' = [worker EXCEPT ![q].at = "count", ![q].col = col, ![q].in = in]

(* _mark_item with its attempt_count_delta.                                *)
MarkItem(q, status, delta) ==
    /\ item' = [item EXCEPT ![q][worker[q].item] = status]
    /\ tries' = [tries EXCEPT ![q][worker[q].item] = @ + delta]
    /\ UNCHANGED <<row, count>>

Top(q) ==
    /\ worker[q].at = "top"
    /\ Goto(q, IF flag[q] THEN "quit" ELSE "next")
    /\ UNCHANGED <<rows, env, holder, slot, late>>

(* Mutant of NextPending: "not completed" instead of "pending".            *)
NextUnfinished(q) == {i \in Items : item[q][i] \in {"pending", "failed", "skipped"}}

NextPending(q) == {i \in Items : item[q][i] = "pending"}

NextPendingItem(q) ==
    /\ worker[q].at = "next"
    /\ \/ NextPending(q) = {} /\ Goto(q, "last")
       \/ \E i \in NextPending(q) :
            /\ \A k \in NextPending(q) : i <= k
            /\ worker' = [worker EXCEPT ![q].at = "poll", ![q].item = i, ![q].seen = tries[q][i]]
    /\ UNCHANGED <<rows, env, holder, slot, late>>

(* The SAMPLING poll loop: cancelled, acquired, or busy for the whole      *)
(* cell_busy_timeout (a busy poll before that changes nothing).            *)
PollCancelled(q) ==
    /\ worker[q].at = "poll" /\ flag[q]
    /\ Goto(q, "quit")
    /\ UNCHANGED <<rows, env, holder, slot, late>>

AcquireCell(q) ==
    /\ worker[q].at = "poll" /\ ~flag[q]
    /\ holder[worker[q].item] = None
    /\ holder' = [holder EXCEPT ![worker[q].item] = q]
    /\ Goto(q, "limiter")
    /\ UNCHANGED <<rows, env, slot, late>>

CellBusyTimeout(q) ==
    /\ worker[q].at = "poll" /\ ~flag[q]
    /\ holder[worker[q].item] # None
    /\ MarkItem(q, "skipped", 0)
    /\ Count(q, "skipped", "loop")
    /\ UNCHANGED <<env, holder, slot, late>>

(* try_acquire_cell raises.                                                *)
RegistryError(q) ==
    /\ worker[q].at = "poll" /\ ~flag[q]
    /\ Spend("fault")
    /\ MarkItem(q, "skipped", 1)
    /\ Count(q, "skipped", "loop")
    /\ UNCHANGED <<flag, post, delete, holder, slot, late>>

ReleaseCell(q) == holder' = [holder EXCEPT ![worker[q].item] = None]

(* Mutant of LimiterCancelled: keeps the cell.                             *)
LimiterCancelledKeepsCell(q) ==
    /\ worker[q].at = "limiter" /\ flag[q]
    /\ Goto(q, "quit")
    /\ UNCHANGED <<rows, env, holder, slot, late>>

(* _limiter.acquire("background"): False, True, or an exception.           *)
LimiterCancelled(q) ==
    /\ worker[q].at = "limiter" /\ flag[q]
    /\ ReleaseCell(q)
    /\ Goto(q, "quit")
    /\ UNCHANGED <<rows, env, slot, late>>

LimiterAcquire(q) ==
    /\ worker[q].at = "limiter" /\ ~flag[q]
    /\ Cardinality(slot) < Slots
    /\ slot' = slot \cup {q}
    /\ worker' = [worker EXCEPT ![q].at = "start", ![q].in = "try"]
    /\ UNCHANGED <<rows, env, holder, late>>

LimiterError(q) ==
    /\ worker[q].at = "limiter"
    /\ Spend("fault")
    /\ ReleaseCell(q)
    /\ MarkItem(q, "failed", 1)
    /\ Count(q, "failed", "loop")
    /\ UNCHANGED <<flag, post, delete, slot, late>>

(* _mark_item(..., "running").                                             *)
StartItem(q) ==
    /\ worker[q].at = "start"
    /\ MarkItem(q, "running", 0)
    /\ late' = [late EXCEPT ![q] = IF @ = -1 THEN @ ELSE @ + 1]
    /\ Goto(q, "run")
    /\ UNCHANGED <<env, holder, slot>>

(* _fleet_batch_item_runner: start_run, then wait for the run's row.  A    *)
(* cancelled queue gives a status other than "completed"; so does a run    *)
(* that failed, was refused or timed out.                                  *)
RunItem(q) ==
    /\ worker[q].at = "run"
    /\ \E outcome \in IF flag[q] THEN {"failed"} ELSE {"completed", "failed"} :
         worker' = [worker EXCEPT ![q].at = "result", ![q].col = outcome]
    /\ UNCHANGED <<rows, env, holder, slot, late>>

(* Mutant of RetryOrSkip: re-queues without attempt_count_delta.           *)
RetryForFree(q, in) ==
    IF worker[q].seen + 1 >= MaxRetries
    THEN MarkItem(q, "skipped", 1) /\ Count(q, "skipped", in)
    ELSE MarkItem(q, "pending", 0) /\ Goto(q, "release")

(* A failed attempt is re-queued or, with the retries used up, skipped.    *)
RetryOrSkip(q, in) ==
    IF worker[q].seen + 1 >= MaxRetries
    THEN MarkItem(q, "skipped", 1) /\ Count(q, "skipped", in)
    ELSE MarkItem(q, "pending", 1) /\ Goto(q, "release")

ItemResult(q) ==
    /\ worker[q].at = "result"
    /\ IF worker[q].col = "completed"
       THEN MarkItem(q, "completed", 1) /\ Count(q, "completed", "try")
       ELSE RetryOrSkip(q, "try")
    /\ UNCHANGED <<env, holder, slot, late>>

(* The `except` block around step 3.                                       *)
ItemException(q) ==
    /\ worker[q].at = "except"
    /\ RetryOrSkip(q, "except")
    /\ UNCHANGED <<env, holder, slot, late>>

(* _update_completed_items.                                                *)
UpdateCompletedItems(q) ==
    /\ worker[q].at = "count"
    /\ count' = [count EXCEPT ![q][worker[q].col] = @ + 1]
    /\ Goto(q, IF worker[q].in = "loop" THEN "top" ELSE "release")
    /\ UNCHANGED <<row, item, tries, env, holder, slot, late>>

(* Mutant of ReleaseBoth: the cancel flag is used up by the item.          *)
ReleaseBothForgetsCancel(q) ==
    /\ worker[q].at \in {"release", "unwind"}
    /\ ReleaseCell(q)
    /\ slot' = slot \ {q}
    /\ worker' = [worker EXCEPT ![q] =
         IF @.at = "unwind" THEN Gone ELSE [@ EXCEPT !.at = "top", !.in = "loop"]]
    /\ flag' = [flag EXCEPT ![q] = FALSE]
    /\ UNCHANGED <<rows, post, delete, trouble, late>>

(* The `finally` block; after an exception in the handler the thread dies. *)
ReleaseBoth(q) ==
    /\ worker[q].at \in {"release", "unwind"}
    /\ ReleaseCell(q)
    /\ slot' = slot \ {q}
    /\ worker' = [worker EXCEPT ![q] =
         IF @.at = "unwind" THEN Gone ELSE [@ EXCEPT !.at = "top", !.in = "loop"]]
    /\ UNCHANGED <<rows, env, late>>

(* The end of run_queue: the last look at the flag, then the queue row.    *)
LastCheck(q) ==
    /\ worker[q].at = "last"
    /\ worker' = [worker EXCEPT ![q] = IF flag[q] THEN Gone ELSE [@ EXCEPT !.at = "finish"]]
    /\ UNCHANGED <<rows, env, holder, slot, late>>

MarkQueueStatus(q) ==
    /\ worker[q].at \in {"quit", "finish"}
    /\ row' = [row EXCEPT ![q] = IF worker[q].at = "quit" THEN "cancelled" ELSE "completed"]
    /\ worker' = [worker EXCEPT ![q] = Gone]
    /\ UNCHANGED <<item, tries, count, env, holder, slot, late>>

(* A statement of run_queue raises (sqlite3.OperationalError after the     *)
(* busy timeout, say): inside step 3's try it reaches the handler, inside  *)
(* the handler the `finally`, elsewhere it ends the thread.                *)
DbError(q) ==
    /\ Spend("fault")
    /\ \/ /\ worker[q].in = "try" /\ worker[q].at \in {"start", "result", "count"}
          /\ worker' = [worker EXCEPT ![q].at = "except", ![q].in = "except"]
       \/ /\ worker[q].in = "except" /\ worker[q].at \in {"except", "count"}
          /\ worker' = [worker EXCEPT ![q].at = "unwind"]
       \/ /\ worker[q].in = "loop" /\ worker[q].at \in {"next", "count", "finish", "quit"}
          /\ worker' = [worker EXCEPT ![q] = Gone]
    /\ UNCHANGED <<rows, flag, post, delete, holder, slot, late>>
-----------------------------------------------------------------------------
(* Another operation of the console takes and frees a cell.                *)
OtherTakes(i) ==
    /\ holder[i] = None
    /\ Spend("busy")
    /\ holder' = [holder EXCEPT ![i] = "other"]
    /\ UNCHANGED <<rows, flag, worker, slot, post, delete, late>>

OtherFrees(i) ==
    /\ holder[i] = "other"
    /\ holder' = [holder EXCEPT ![i] = None]
    /\ UNCHANGED <<rows, env, worker, slot, late>>

(* Mutant of Recovered: re-queues every item that is not completed.        *)
RecoveredUnfinished(q) ==
    [i \in Items |-> IF item[q][i] \in {"running", "skipped"} THEN "pending" ELSE item[q][i]]

(* _recover_fleet_refresh on the items of the queue it finds.              *)
Recovered(q) == [i \in Items |-> IF item[q][i] = "running" THEN "pending" ELSE item[q][i]]

(* The process dies and starts again: memory is lost, StateStore recovers  *)
(* one running queue (LIMIT 1) and create_app resumes it.                  *)
Restart ==
    /\ Spend("crash")
    /\ flag' = [q \in Queues |-> FALSE]
    /\ holder' = [i \in Items |-> None]
    /\ slot' = {} /\ post' = {} /\ delete' = None
    /\ LET running == {q \in Queues : row[q] = "running"}
           none == [q \in Queues |-> Gone]
       IN  IF running = {}
           THEN worker' = none /\ UNCHANGED item
           ELSE \E q \in running :
                  /\ item' = [item EXCEPT ![q] = Recovered(q)]
                  /\ worker' = [none EXCEPT ![q].at = "top"]
    /\ UNCHANGED <<row, tries, count, late>>

RunQueue(q) ==
    \/ Top(q) \/ NextPendingItem(q) \/ PollCancelled(q) \/ AcquireCell(q) \/ CellBusyTimeout(q)
    \/ LimiterCancelled(q) \/ LimiterAcquire(q) \/ StartItem(q) \/ RunItem(q)
    \/ ItemResult(q) \/ ItemException(q) \/ UpdateCompletedItems(q) \/ ReleaseBoth(q)
    \/ LastCheck(q) \/ MarkQueueStatus(q)

Faults(q) == RegistryError(q) \/ LimiterError(q) \/ DbError(q)

Next ==
    \/ \E q \in Queues : PostCheck(q) \/ StartQueue(q) \/ DeleteLook(q) \/ RunQueue(q) \/ Faults(q)
    \/ CancelQueue \/ Restart
    \/ \E i \in Items : OtherTakes(i) \/ OtherFrees(i)

Spec == Init /\ [][Next]_vars

(* The threads of the process are scheduled.                               *)
FairSpec == Spec /\ \A q \in Queues : WF_vars(RunQueue(q))
-----------------------------------------------------------------------------
(* PROPERTIES                                                              *)

(* No call has raised so far.                                              *)
NothingRaised == "fault" \notin trouble.kinds

(* The cell lock and the slot of a queue are held exactly between their    *)
(* acquire and their release, so a thread that ends, by any path, has      *)
(* returned both.                                                          *)
BothReturned ==
    \A q \in Queues :
        LET inStep3 == worker[q].at \in {"start", "run", "result", "except", "release", "unwind"}
                         \/ (worker[q].at = "count" /\ worker[q].in # "loop")
        IN  /\ q \in slot <=> inStep3
            /\ \A i \in Items : holder[i] = q <=>
                 worker[q].item = i /\ (inStep3 \/ worker[q].at = "limiter")

InStatus(q, c) == Cardinality({i \in Items : item[q][i] = c})

(* The counters of a queue never claim more than its items show.           *)
CountersNeverOverstate ==
    \A q \in Queues, c \in Terminal : count[q][c] <= InStatus(q, c)

(* A queue works off what it still owes and no more.  An item in a final   *)
(* state is never taken up again ("failed items retried"); only a write    *)
(* that raised lets another verdict replace it.  Once a DELETE has been    *)
(* answered ("cancel after the current item") at most the item already     *)
(* past its checks starts; the flag is in memory, so only until the        *)
(* process restarts.                                                       *)
OnlyOwedWorkIsDone ==
    [][\A q \in Queues :
          /\ \A i \in Items : item[q][i] \in Terminal /\ NothingRaised => item'[q][i] = item[q][i]
          /\ "crash" \notin trouble'.kinds => late'[q] <= 1]_vars

(* A queue row left 'running' with no thread, for which POST answers 409   *)
(* until the process restarts.                                             *)
Stranded(q) == row[q] = "running" /\ worker[q].at = "gone"

(* Every queue ends, with restarts, busy cells, cancels and exceptions on  *)
(* the way, unless it is stranded; if it ends completed and nothing        *)
(* raised, each of its items has had its final verdict: no retry is        *)
(* forgotten.                                                              *)
QueueEnds ==
    \A q \in Watched :
        row[q] = "running" ~>
            \/ row[q] = "cancelled" \/ Stranded(q) \/ ~NothingRaised
            \/ /\ row[q] = "completed"
               /\ \A i \in Items : item[q][i] \in Terminal \cup {"none"}
=============================================================================
