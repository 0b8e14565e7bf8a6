------------------------------ MODULE AutoInspect ------------------------------
(***************************************************************************)
(* One auto-inspect sweep (auto_inspect_manager.py): the request that      *)
(* discovers its cells, the workers that sample and report them under the  *)
(* SAMPLING lock, the cancel, the failure trip, and the resume after a     *)
(* console restart.  The sweep and its items are SQLite rows; the cancel   *)
(* event and the failure window live in memory.  Every commit is a step.   *)
(*                                                                         *)
(* An item is its queue_position and names its cell.  A worker polls: the  *)
(* polls that change nothing are not steps.  A version is the md5 pair of  *)
(* the roster.  A sweep's sample run names no cache to resume, so its      *)
(* chunks go to a scratch directory; the generate run replays the cell's   *)
(* own rawdata of the version the item was enqueued with.                  *)
(***************************************************************************)
EXTENDS Integers, FiniteSets

CONSTANTS Items,       (* queue positions the discovery may find             *)
          Structural,  (* the items of class bcm_hard                        *)
          Workers,     (* sweep_concurrency threads                          *)
          Cells,       (* what a sweep may start from: the rawdata and the   *)
                       (* report each cell has of version 1                  *)
          MaxVersion,  (* bound: versions of the roster                      *)
          MaxFailures, (* max_consecutive_failures                           *)
          MaxBusy,     (* bound: times another operation takes a cell        *)
          MaxCancels,  (* bound: cancel requests                             *)
          MaxFaults,   (* bound: database errors that end a worker           *)
          MaxCrashes,  (* bound: console restarts                            *)
          MaxTrouble,  (* bound: all of these and new versions together      *)
          NoOne        (* nobody holds the lock, nothing was read            *)

ASSUME SweepAssumption ==
    /\ Items \subseteq Nat /\ IsFiniteSet(Items) /\ Structural \subseteq Items
    /\ Cardinality(Items) <= 10          \* the length of the failure window
    /\ Cells \subseteq [Items -> [raw : {"none", "thin", "ample"},
                                 report : {"none", "wide", "narrow"}]]
    /\ MaxVersion \in Nat \ {0} /\ MaxFailures \in Nat \ {0}
    /\ {MaxBusy, MaxCancels, MaxFaults, MaxCrashes, MaxTrouble} \subseteq Nat
    /\ NoOne \notin Workers /\ NoOne \notin Items /\ "other" \notin Workers

VARIABLES
    sweep,    (* auto_inspect_sweeps.status                                  *)
    item,     (* auto_inspect_items.status; "absent" if there is no row      *)
    count,    (* completed_items, failed_items, skipped_items                *)
    roster,   (* the version machines.json gives the cells                   *)
    enq,      (* the version an item was enqueued with; 0 before             *)
    raw,      (* the rawdata a cell has of a version                         *)
    report,   (* the confidence of its latest completed run of a version     *)
    smpRun,   (* the run row of sample_run_id                                *)
    genRun,   (* the run row of generate_run_id                              *)
    event,    (* _cancel_events: none, clear or set                          *)
    fails,    (* failures in the window                                      *)
    worker,   (* where each worker is, its item, the status it will write,   *)
              (* the counts it read                                          *)
    lock,     (* who holds SAMPLING, or another operation, on the cell       *)
    starter,  (* where the start_sweep request is                            *)
    dispatch, (* _dispatch_sweep: none or waiting for the workers            *)
    resume,   (* where the resume_sweep thread is                            *)
    client,   (* where the cancel request is                                 *)
    budget    (* what is left of the bounds                                  *)

cells == <<roster, enq, raw, report>>
runs == <<smpRun, genRun>>
rows == <<sweep, item, count, cells, runs>>
threads == <<starter, dispatch, resume, client>>
vars == <<rows, event, fails, worker, lock, threads, budget>>

Over == {"completed", "failed", "cancelled"}
Skips == {"skipped", "cancelled"}
ItemOver == {"completed", "failed"} \cup Skips
InWork == {"claimed", "running", "generating"}
Gone == [at |-> "gone", i |-> NoOne, mark |-> "completed", seen |-> NoOne]

Versions == 1 .. MaxVersion

Tally == [completed |-> Cardinality({i \in Items : item[i] = "completed"}),
          failed    |-> Cardinality({i \in Items : item[i] = "failed"}),
          skipped   |-> Cardinality({i \in Items : item[i] \in Skips})]

TypeOK ==
    /\ sweep \in {"none", "scanning", "sampling"} \cup Over
    /\ item \in [Items -> {"absent", "pending"} \cup InWork \cup ItemOver]
    /\ count \in [{"completed", "failed", "skipped"} -> Nat]
    /\ roster \in Versions /\ enq \in [Items -> {0} \cup Versions]
    /\ raw \in [Items -> [Versions -> {"none", "thin", "ample"}]]
    /\ report \in [Items -> [Versions -> {"none", "wide", "narrow"}]]
    /\ smpRun \in [Items -> {"none", "running", "wide", "narrow", "failed"}]
    /\ genRun \in [Items -> {"none", "running", "completed", "failed"}]
    /\ event \in {"none", "clear", "set"}
    /\ fails \in 0 .. Cardinality(Items \ Structural)
    /\ \A w \in Workers :
         /\ worker[w].at \in {"gone", "loop", "trip", "claim", "wait", "try", "start", "note",
                              "sampling", "dispatch", "noteGen", "generating", "mark",
                              "select", "update", "window", "release"}
         /\ worker[w].i \in Items \cup {NoOne}
         /\ worker[w].mark \in ItemOver
    /\ lock \in [Items -> Workers \cup {NoOne, "other"}]
    /\ starter \in {"idle", "scan", "insert", "arm"}
    /\ dispatch \in {"none", "join"}
    /\ resume \in {"none", "running", "generating", "claimed", "check", "arm"}
    /\ client \in {"idle", "commit"}
    /\ budget \in [{"busy", "cancel", "fault", "crash", "any"} -> Nat]

Init ==
    /\ sweep = "none"
    /\ item = [i \in Items |-> "absent"]
    /\ count = [c \in {"completed", "failed", "skipped"} |-> 0]
    /\ \E c \in Cells :
         /\ raw = [i \in Items |-> [v \in Versions |-> IF v = 1 THEN c[i].raw ELSE "none"]]
         /\ report = [i \in Items |-> [v \in Versions |-> IF v = 1 THEN c[i].report ELSE "none"]]
    /\ roster = 1 /\ enq = [i \in Items |-> 0]
    /\ smpRun = [i \in Items |-> "none"] /\ genRun = smpRun
    /\ event = "none" /\ fails = 0
    /\ worker = [w \in Workers |-> Gone]
    /\ lock = [i \in Items |-> NoOne]
    /\ starter = "idle" /\ dispatch = "none" /\ resume = "none" /\ client = "idle"
    /\ budget = [busy |-> MaxBusy, cancel |-> MaxCancels, fault |-> MaxFaults, crash |-> MaxCrashes,
                 any |-> MaxTrouble]

Spend(b) ==
    /\ budget[b] > 0 /\ budget["any"] > 0
    /\ budget' = [budget EXCEPT ![b] = @ - 1, !["any"] = @ - 1]

CancelPending == item' = [i \in Items |-> IF item[i] = "pending" THEN "cancelled" ELSE item[i]]

(* The window, the event and the dispatch thread with its workers.         *)
Launch ==
    /\ fails' = 0
    /\ event' = "clear"
    /\ dispatch' = "join"
    /\ worker' = [w \in Workers |-> [Gone EXCEPT !.at = "loop"]]
-----------------------------------------------------------------------------
(* start_sweep: the row, the discovery, the items, the threads.            *)
StartSweep ==
    /\ sweep = "none"
    /\ sweep' = "scanning"
    /\ starter' = "scan"
    /\ UNCHANGED <<item, count, cells, runs, event, fails, worker, lock, dispatch, resume, client, budget>>

(* A report is fresh if the latest completed run of the roster's version   *)
(* met the target.                                                         *)
HasFreshReport(i) == report[i][roster] = "narrow"

(* _scan_cells: fresh cells too where the server's snapshot has drifted    *)
(* from the roster, or skip_fresh_cells is off.                            *)
ScanCells ==
    /\ starter = "scan"
    /\ \/ \E too \in SUBSET {i \in Items : HasFreshReport(i)} :
            /\ enq' = [i \in Items |-> IF ~HasFreshReport(i) \/ i \in too THEN roster ELSE 0]
            /\ starter' = "insert" /\ UNCHANGED sweep
       \/ starter' = "idle" /\ sweep' = "failed" /\ UNCHANGED enq
    /\ UNCHANGED <<item, count, roster, raw, report, runs, event, fails, worker, lock,
                   dispatch, resume, client, budget>>

InsertItems ==
    /\ starter = "insert"
    /\ item' = [i \in Items |-> IF enq[i] # 0 THEN "pending" ELSE "absent"]
    /\ sweep' = "sampling"
    /\ starter' = "arm"
    /\ UNCHANGED <<count, cells, runs, event, fails, worker, lock, dispatch, resume, client, budget>>

ArmSweep ==
    /\ starter = "arm"
    /\ Launch
    /\ starter' = "idle"
    /\ UNCHANGED <<rows, lock, resume, client, budget>>

(* cancel_sweep: reads the row and sets the event, then commits.           *)
CancelLook ==
    /\ client = "idle"
    /\ sweep \in {"scanning", "sampling"}
    /\ Spend("cancel")
    /\ event' = IF event = "none" THEN "none" ELSE "set"
    /\ client' = "commit"
    /\ UNCHANGED <<rows, fails, worker, lock, starter, dispatch, resume>>

(* Mutant of CancelCommit: the queued items stay.                          *)
CancelSweepOnly ==
    /\ client = "commit"
    /\ sweep' = "cancelled"
    /\ client' = "idle"
    /\ UNCHANGED <<item, count, cells, runs, event, fails, worker, lock, starter, dispatch, resume, budget>>

CancelCommit ==
    /\ client = "commit"
    /\ CancelPending
    /\ sweep' = "cancelled"
    /\ client' = "idle"
    /\ UNCHANGED <<count, cells, runs, event, fails, worker, lock, starter, dispatch, resume, budget>>
-----------------------------------------------------------------------------
(* _worker and _sample_cell.                                               *)
Move(w, l) == worker' = [worker EXCEPT ![w].at = l]
ToMark(w, status) == worker' = [worker EXCEPT ![w].at = "mark", ![w].mark = status]
NoRows == UNCHANGED <<rows, event, fails, lock, threads, budget>>

Loop(w) ==
    /\ worker[w].at = "loop"
    /\ IF event = "set" THEN worker' = [worker EXCEPT ![w] = Gone] /\ UNCHANGED event
       ELSE IF fails >= MaxFailures THEN Move(w, "trip") /\ event' = "set"
       ELSE Move(w, "claim") /\ UNCHANGED event
    /\ UNCHANGED <<rows, fails, lock, threads, budget>>

(* _trip_sweep_on_failure.                                                 *)
Trip(w) ==
    /\ worker[w].at = "trip"
    /\ CancelPending
    /\ sweep' = "failed"
    /\ worker' = [worker EXCEPT ![w] = Gone]
    /\ UNCHANGED <<count, cells, runs, event, fails, lock, threads, budget>>

Claimable == {i \in Items : item[i] = "pending"}

(* _claim_next_item, atomic under _claim_lock.  While workers run nothing  *)
(* becomes pending, so three empty claims are one.                         *)
Claim(w) ==
    /\ worker[w].at = "claim"
    /\ \/ Claimable = {} /\ worker' = [worker EXCEPT ![w] = Gone] /\ UNCHANGED item
       \/ \E i \in Claimable :
            /\ \A l \in Claimable : i <= l
            /\ item' = [item EXCEPT ![i] = "claimed"]
            /\ worker' = [worker EXCEPT ![w].i = i, ![w].mark = "skipped",
                             ![w].at = IF i \in Structural THEN "mark" ELSE "wait"]
    /\ UNCHANGED <<sweep, count, cells, runs, event, fails, lock, threads, budget>>

(* The wait for the cell: a look at the event, then a try.                 *)
Wait(w) ==
    /\ worker[w].at = "wait"
    /\ IF event = "set" THEN ToMark(w, "cancelled") ELSE Move(w, "try")
    /\ NoRows

(* Mutant of Try: no deadline.                                             *)
TryForever(w) ==
    LET i == worker[w].i IN
    /\ worker[w].at = "try"
    /\ \/ lock[i] = NoOne /\ lock' = [lock EXCEPT ![i] = w] /\ Move(w, "start")
       \/ lock[i] # NoOne /\ event = "set" /\ Move(w, "wait") /\ UNCHANGED lock
    /\ UNCHANGED <<rows, event, fails, threads, budget>>

(* Mutant of Try: does not look at the registry's answer.                  *)
TryUnlocked(w) ==
    LET i == worker[w].i IN
    /\ worker[w].at = "try"
    /\ lock' = [lock EXCEPT ![i] = IF @ = NoOne THEN w ELSE @]
    /\ Move(w, "start")
    /\ UNCHANGED <<rows, event, fails, threads, budget>>

Try(w) ==
    LET i == worker[w].i IN
    /\ worker[w].at = "try"
    /\ \/ lock[i] = NoOne /\ lock' = [lock EXCEPT ![i] = w] /\ Move(w, "start")
       \/ lock[i] # NoOne /\ event = "set" /\ Move(w, "wait") /\ UNCHANGED lock
       \/ lock[i] # NoOne /\ ToMark(w, "skipped") /\ UNCHANGED lock     \* the deadline
    /\ UNCHANGED <<rows, event, fails, threads, budget>>

(* _check_md5_drift, then start_run, which may raise.                      *)
Drifted(i) == enq[i] # roster

StartRun(w) ==
    LET i == worker[w].i IN
    /\ worker[w].at = "start"
    /\ \/ Drifted(i) /\ ToMark(w, "skipped") /\ UNCHANGED smpRun
       \/ ~Drifted(i) /\ ToMark(w, "failed") /\ UNCHANGED smpRun
       \/ ~Drifted(i) /\ Move(w, "note") /\ smpRun' = [smpRun EXCEPT ![i] = "running"]
    /\ UNCHANGED <<sweep, item, count, cells, genRun, event, fails, lock, threads, budget>>

NoteRunning(w) ==
    /\ worker[w].at = "note"
    /\ item' = [item EXCEPT ![worker[w].i] = "running"]
    /\ Move(w, "sampling")
    /\ UNCHANGED <<sweep, count, cells, runs, event, fails, lock, threads, budget>>

(* The sample run ends by itself: its row gets the confidence it reached   *)
(* and the version of the roster; nothing is added to the cell's rawdata.  *)
(* A run that was stopped counts as failed until its row is read.          *)
SampleEnds(i) ==
    /\ smpRun[i] = "running"
    /\ \E result \in {"wide", "narrow", "failed"} :
         /\ smpRun' = [smpRun EXCEPT ![i] = result]
         /\ report' = IF result \in {"wide", "narrow"}
                      THEN [report EXCEPT ![i][roster] = result] ELSE report
    /\ UNCHANGED <<sweep, item, count, roster, enq, raw, genRun, event, fails, worker, lock,
                   threads, budget>>

(* Each poll looks at the event first; the wall time may run out, which    *)
(* leaves the run to itself.                                               *)
Sampling(w) ==
    LET run == smpRun[worker[w].i] IN
    /\ worker[w].at = "sampling"
    /\ \/ ToMark(w, "skipped")
       \/ event = "set" /\ ToMark(w, "cancelled")
       \/ event # "set" /\ run = "failed" /\ \E status \in {"failed", "cancelled"} : ToMark(w, status)
       \/ event # "set" /\ run \in {"wide", "narrow"} /\ Move(w, "dispatch")
    /\ NoRows

(* _dispatch_generate_for_item raises or starts the generate run.          *)
DispatchGenerate(w) ==
    /\ worker[w].at = "dispatch"
    /\ \/ ToMark(w, "failed") /\ UNCHANGED genRun
       \/ Move(w, "noteGen") /\ genRun' = [genRun EXCEPT ![worker[w].i] = "running"]
    /\ UNCHANGED <<sweep, item, count, cells, smpRun, event, fails, lock, threads, budget>>

NoteGenerating(w) ==
    /\ worker[w].at = "noteGen"
    /\ item' = [item EXCEPT ![worker[w].i] = "generating"]
    /\ Move(w, "generating")
    /\ UNCHANGED <<sweep, count, cells, runs, event, fails, lock, threads, budget>>

(* Mutant of GenerateEnds: replays what the item's sample run has drawn.   *)
GenerateFromSample(i) ==
    /\ genRun[i] = "running"
    /\ \/ /\ genRun' = [genRun EXCEPT ![i] = "completed"]
          /\ report' = [report EXCEPT ![i][enq[i]] = smpRun[i]]
       \/ genRun' = [genRun EXCEPT ![i] = "failed"] /\ UNCHANGED report
    /\ UNCHANGED <<sweep, item, count, roster, enq, raw, smpRun, event, fails, worker, lock,
                   threads, budget>>

(* --from-cache with the enqueued pair: no such chunk is a run of 0 spins, *)
(* which fails.                                                            *)
GenerateEnds(i) ==
    /\ genRun[i] = "running"
    /\ \/ /\ raw[i][enq[i]] # "none"
          /\ genRun' = [genRun EXCEPT ![i] = "completed"]
          /\ report' = [report EXCEPT ![i][enq[i]] =
                           IF raw[i][enq[i]] = "ample" THEN "narrow" ELSE "wide"]
       \/ genRun' = [genRun EXCEPT ![i] = "failed"] /\ UNCHANGED report
    /\ UNCHANGED <<sweep, item, count, roster, enq, raw, smpRun, event, fails, worker, lock,
                   threads, budget>>

(* What the item becomes: a sample that missed its target is a skip        *)
(* (convergence_timeout), although its report is made.                     *)
Verdict(i) ==
    IF genRun[i] = "failed" THEN "failed"
    ELSE IF smpRun[i] = "wide" THEN "skipped" ELSE "completed"

(* _wait_for_run, with what is left of the wall time.                      *)
Generating(w) ==
    LET i == worker[w].i IN
    /\ worker[w].at = "generating"
    /\ \/ ToMark(w, "skipped")
       \/ event = "set" /\ ToMark(w, "cancelled")
       \/ event # "set" /\ genRun[i] \in {"completed", "failed"} /\ ToMark(w, Verdict(i))
    /\ NoRows

(* _mark_item, _update_sweep_counts (read, then write), the window.  The   *)
(* ended runs of an ended item are not looked at again.                    *)
MarkItem(w) ==
    /\ worker[w].at = "mark"
    /\ item' = [item EXCEPT ![worker[w].i] = worker[w].mark]
    /\ smpRun' = [smpRun EXCEPT ![worker[w].i] = IF @ = "running" THEN @ ELSE "none"]
    /\ genRun' = [genRun EXCEPT ![worker[w].i] = IF @ = "running" THEN @ ELSE "none"]
    /\ Move(w, "select")
    /\ UNCHANGED <<sweep, count, cells, event, fails, lock, threads, budget>>

SelectCounts(w) ==
    /\ worker[w].at = "select"
    /\ worker' = [worker EXCEPT ![w].at = "update", ![w].seen = Tally]
    /\ NoRows

UpdateCounts(w) ==
    /\ worker[w].at = "update"
    /\ count' = worker[w].seen
    /\ worker' = [worker EXCEPT ![w].at = "window", ![w].seen = NoOne]
    /\ UNCHANGED <<sweep, item, cells, runs, event, fails, lock, threads, budget>>

(* Mutant of RecordWindow: a skip counts as a failure.                     *)
RecordSkips(w) ==
    /\ worker[w].at = "window"
    /\ fails' = IF worker[w].mark \in {"failed", "skipped"} THEN fails + 1 ELSE fails
    /\ Move(w, IF lock[worker[w].i] = w THEN "release" ELSE "loop")
    /\ UNCHANGED <<rows, event, lock, threads, budget>>

(* _record_failure_window: skips and cancels are not attempts.             *)
RecordWindow(w) ==
    /\ worker[w].at = "window"
    /\ fails' = IF worker[w].mark = "failed" THEN fails + 1 ELSE fails
    /\ Move(w, IF lock[worker[w].i] = w THEN "release" ELSE "loop")
    /\ UNCHANGED <<rows, event, lock, threads, budget>>

(* The finally of the worker.                                              *)
Release(w) ==
    /\ worker[w].at = "release"
    /\ lock' = [lock EXCEPT ![worker[w].i] = NoOne]
    /\ worker' = [worker EXCEPT ![w] = [Gone EXCEPT !.at = "loop"]]
    /\ UNCHANGED <<rows, event, fails, threads, budget>>

(* An uncaught database error: the finally releases the cell, the thread   *)
(* ends, the item stays as it is.                                          *)
WorkerDies(w) ==
    /\ worker[w].at \in {"trip", "claim", "note", "sampling", "noteGen", "mark"}
    /\ Spend("fault")
    /\ lock' = [i \in Items |-> IF lock[i] = w THEN NoOne ELSE lock[i]]
    /\ worker' = [worker EXCEPT ![w] = Gone]
    /\ UNCHANGED <<rows, event, fails, threads>>
-----------------------------------------------------------------------------
(* Mutant of Unfinished: takes 'running' for a state no item is left in.   *)
UnfinishedQueue == {i \in Items : item[i] \in {"pending", "claimed", "generating"}}

Unfinished == {i \in Items : item[i] \in {"pending"} \cup InWork}

(* The dispatch thread after the last worker: _finalize_sweep_if_done.     *)
FinalizeSweep ==
    /\ dispatch = "join"
    /\ \A w \in Workers : worker[w].at = "gone"
    /\ dispatch' = "none"
    /\ sweep' = IF event # "set" /\ sweep = "sampling" /\ Unfinished = {} THEN "completed" ELSE sweep
    /\ UNCHANGED <<item, count, cells, runs, event, fails, worker, lock, starter, resume, client, budget>>

(* Another operation on the cell of an item that may still be sampled.     *)
OtherTakes(i) ==
    /\ i \notin Structural /\ item[i] \notin ItemOver
    /\ lock[i] = NoOne
    /\ Spend("busy")
    /\ lock' = [lock EXCEPT ![i] = "other"]
    /\ UNCHANGED <<rows, event, fails, worker, threads>>

(* The other operation may have been a batch run that met its target.      *)
OtherFrees(i) ==
    /\ lock[i] = "other"
    /\ lock' = [lock EXCEPT ![i] = NoOne]
    /\ \/ UNCHANGED <<raw, report>>
       \/ /\ raw' = [raw EXCEPT ![i][roster] = "ample"]
          /\ report' = [report EXCEPT ![i][roster] = "narrow"]
    /\ UNCHANGED <<sweep, item, count, roster, enq, runs, event, fails, worker, threads, budget>>

(* A refresh of machines.json while there is something left to sample.     *)
RefreshRoster ==
    /\ sweep # "none" /\ roster < MaxVersion
    /\ \E i \in Items \ Structural : item[i] \notin ItemOver
    /\ roster' = roster + 1
    /\ budget["any"] > 0 /\ budget' = [budget EXCEPT !["any"] = @ - 1]
    /\ UNCHANGED <<sweep, item, count, enq, raw, report, runs, event, fails, worker, lock, threads>>

(* The console dies and starts again: RunManager fails the running run     *)
(* rows, then create_app resumes the sweep that is not over.               *)
Restart ==
    /\ Spend("crash")
    /\ worker' = [w \in Workers |-> Gone]
    /\ lock' = [i \in Items |-> NoOne]
    /\ smpRun' = [i \in Items |-> IF smpRun[i] = "running" THEN "failed" ELSE smpRun[i]]
    /\ genRun' = [i \in Items |-> IF genRun[i] = "running" THEN "failed" ELSE genRun[i]]
    /\ event' = "none" /\ fails' = 0
    /\ starter' = "idle" /\ dispatch' = "none" /\ client' = "idle"
    /\ resume' = IF sweep \in {"scanning", "sampling"} THEN "running" ELSE "none"
    /\ UNCHANGED <<sweep, item, count, cells>>

(* resume_sweep, one item at a time: items in 'running' go back to         *)
(* pending,                                                                *)
ResumeRunning ==
    /\ resume = "running"
    /\ \/ \E i \in Items :
            /\ item[i] = "running"
            /\ item' = [item EXCEPT ![i] = "pending"]
            /\ smpRun' = [smpRun EXCEPT ![i] = "none"]
            /\ UNCHANGED resume
       \/ /\ \A i \in Items : item[i] # "running"
          /\ resume' = "generating"
          /\ UNCHANGED <<item, smpRun>>
    /\ UNCHANGED <<sweep, count, cells, genRun, event, fails, worker, lock, starter, dispatch, client, budget>>

(* items in 'generating' are completed if their run is, or go back to      *)
(* 'running',                                                              *)
ResumeGenerating ==
    /\ resume = "generating"
    /\ \/ \E i \in Items :
            /\ item[i] = "generating"
            /\ IF genRun[i] = "completed"
               THEN /\ item' = [item EXCEPT ![i] = "completed"]
                    /\ UNCHANGED genRun
               ELSE /\ item' = [item EXCEPT ![i] = "running"]
                    /\ genRun' = [genRun EXCEPT ![i] = "none"]
            /\ count' = IF genRun[i] = "completed" THEN Tally' ELSE count
            /\ UNCHANGED resume
       \/ /\ \A i \in Items : item[i] # "generating"
          /\ resume' = "claimed"
          /\ UNCHANGED <<item, genRun, count>>
    /\ UNCHANGED <<sweep, cells, smpRun, event, fails, worker, lock, starter, dispatch, client, budget>>

(* and claimed items go back to pending, in one commit with the sweep.     *)
ResumeClaimed ==
    /\ resume = "claimed"
    /\ item' = [i \in Items |-> IF item[i] = "claimed" THEN "pending" ELSE item[i]]
    /\ sweep' = IF sweep = "scanning" THEN "sampling" ELSE sweep
    /\ resume' = "check"
    /\ UNCHANGED <<count, cells, runs, event, fails, worker, lock, starter, dispatch, client, budget>>

ResumeCheck ==
    /\ resume = "check"
    /\ resume' = IF sweep = "sampling" THEN "arm" ELSE "none"
    /\ UNCHANGED <<rows, event, fails, worker, lock, starter, dispatch, client, budget>>

ResumeArm ==
    /\ resume = "arm"
    /\ Launch
    /\ resume' = "none"
    /\ UNCHANGED <<rows, lock, starter, client, budget>>

Starter == ScanCells \/ InsertItems \/ ArmSweep
Resumer == ResumeRunning \/ ResumeGenerating \/ ResumeClaimed \/ ResumeCheck \/ ResumeArm

Worker(w) ==
    \/ Loop(w) \/ Trip(w) \/ Claim(w) \/ Wait(w) \/ Try(w) \/ StartRun(w) \/ NoteRunning(w)
    \/ Sampling(w) \/ DispatchGenerate(w) \/ NoteGenerating(w) \/ Generating(w) \/ MarkItem(w)
    \/ SelectCounts(w) \/ UpdateCounts(w) \/ RecordWindow(w) \/ Release(w)

Next ==
    \/ StartSweep \/ Starter \/ CancelLook \/ CancelCommit
    \/ \E w \in Workers : Worker(w) \/ WorkerDies(w)
    \/ FinalizeSweep \/ Resumer \/ Restart
    \/ RefreshRoster
    \/ \E i \in Items : SampleEnds(i) \/ GenerateEnds(i) \/ OtherTakes(i) \/ OtherFrees(i)

Spec == Init /\ [][Next]_vars

(* Threads run, runs end or their wall time does; other operations need    *)
(* not give a cell back.                                                   *)
FairSpec ==
    /\ Spec
    /\ WF_vars(Starter) /\ WF_vars(CancelCommit) /\ WF_vars(FinalizeSweep) /\ WF_vars(Resumer)
    /\ \A w \in Workers : WF_vars(Worker(w))
    /\ \A i \in Items : WF_vars(SampleEnds(i)) /\ WF_vars(GenerateEnds(i))
-----------------------------------------------------------------------------
(* PROPERTIES                                                              *)

(* A worker samples and reports only under its own lock, the registry      *)
(* holds no lock of a worker that does not, and no two workers have the    *)
(* same item: one claim, one run, one report.                              *)
WorkUnderLock ==
    /\ \A w \in Workers :
         worker[w].at \in {"start", "note", "sampling", "dispatch", "noteGen", "generating", "release"}
            => lock[worker[w].i] = w
    /\ \A i \in Items : lock[i] \in Workers => worker[lock[i]].i = i
    /\ \A v, w \in Workers : v # w /\ worker[v].i # NoOne => worker[v].i # worker[w].i

(* What an ended sweep leaves: completed, only items that have ended; after*)
(* a cancel or a trip is through, and its event is set, nothing that a     *)
(* worker or a resume could still start.                                   *)
EndedSweepSettled ==
    /\ sweep = "completed" => \A i \in Items : item[i] \in ItemOver \cup {"absent"}
    /\ sweep \in {"cancelled", "failed"} /\ event = "set" /\ client = "idle"
           => \A i \in Items : item[i] # "pending"

(* A sweep fails for its discovery or for enough failed attempts: cells    *)
(* that were skipped or cancelled never trip it.  A completed item has a   *)
(* completed run of the version it was enqueued with, and that run shows   *)
(* the rawdata the cell had, never what the sweep's own sample reached: a  *)
(* cell is fresh for the next sweep exactly if its rawdata was enough.     *)
(* The counters of the row never claim more than the items.                *)
VerdictsJustified ==
    /\ sweep = "failed" =>
         \/ \A i \in Items : item[i] = "absent"
         \/ Cardinality({i \in Items : item[i] = "failed"}) >= MaxFailures
    /\ \A i \in Items : item[i] = "completed" =>
         /\ raw[i][enq[i]] # "none" /\ report[i][enq[i]] # "none"
         /\ report[i][enq[i]] = "narrow" <=> raw[i][enq[i]] = "ample"
    /\ \A c \in DOMAIN count : count[c] <= Tally[c]

(* An item a resume put back to 'running', which no worker claims.         *)
Unclaimable ==
    \E i \in Items : item[i] = "running" /\ resume = "none" /\ \A w \in Workers : worker[w].i # i

(* Every sweep ends, with cells busy for ever, restarts and cancels,       *)
(* unless an error ended a worker or a resume left an unclaimable item.    *)
SweepEnds ==
    sweep \in {"scanning", "sampling"} ~>
        sweep \in Over \/ Unclaimable \/ budget["fault"] < MaxFaults
=============================================================================
