-------------------------- MODULE RunLifecycleProofs --------------------------
(***************************************************************************)
(* For any number of cells, batches, runs, restarts and faults: the locks  *)
(* of sampling batches cover their analyzers, a restarted console accounts *)
(* for every run, what a batch calls completed was sampled, and an ended   *)
(* batch is settled.                                                       *)
(***************************************************************************)
EXTENDS RunLifecycle, TLAPS

Holding == {"semaphore", "disk", "slot", "starting", "wait", "judge"}
Watching == {"wait", "final", "dead"}

(* The steps of the recovery that touch one run only.                      *)
Recovers(r) == TerminateOrphan(r) \/ RecoverOwned(r) \/ RecoverNoSpawn(r) \/ RecoverMarkFailed(r)
RecoveryStep(r) == Recovers(r) \/ RecoverSpawn(r) \/ RecoverSpawnRaises(r)

(* A run: its row, process and watcher in step with each other, in this    *)
(* life of the console and after it.                                       *)
RunOk(r) ==
    /\ run[r].step = "unused" => run[r].by = "nobody" /\ run[r].row = "none" /\ run[r].proc = "none"
    /\ run[r].step = "queued" => run[r].by = "report" /\ run[r].row \in {"queued", "deleted"}
    /\ run[r].step = "popen" => run[r].by # "report" /\ run[r].row = "none"
    /\ run[r].step = "registered" => run[r].row \in {"running", "deleted"} \cup Final
    /\ run[r].row = "queued" => run[r].step \in {"queued", "past"} /\ run[r].proc = "none"
    /\ run[r].by = "report" => run[r].proc = "none"
    /\ r \in managed <=> run[r].watch # "none"
    /\ r \in managed => run[r].step = "registered" /\ run[r].by # "report"
    /\ run[r].step = "registered" /\ run[r].by # "report" =>
         (run[r].row = "running" <=> run[r].watch \in Watching)
    /\ run[r].proc = "alive" => \/ run[r].step = "popen"
                                \/ run[r].watch = "wait"
                                \/ run[r].step = "past" /\ run[r].row \in {"none", "running"}
                                \/ /\ run[r].step = "past" /\ run[r].row \in {"failed", "deleted"}
                                   /\ said[r] # "nothing"
    /\ r \in stale => run[r].step = "past" /\ run[r].row = "running"
    /\ run[r].step = "past" /\ run[r].row = "running" => console = "down" \/ r \in stale
    /\ console = "down" => run[r].step \in {"unused", "past"}

(* The console: nothing is left to recover once it is up, no batch of this *)
(* life is at work before, and the orphan that has an heir was signalled.  *)
ConsoleOk ==
    /\ console # "recover" => stale = {}
    /\ stale = {} => heir = None
    /\ console # "up" => \A b \in Batches : batch[b].status \in {"none", "cancelled"}
    /\ heir # None => \A r \in Runs : Orphan(r) /\ HasPid(r) => said[r] # "nothing"

(* A batch id that was ever used shows in the table.                       *)
BatchOk(b) ==
    /\ batch[b].status # "none" => copy[b].status # "none"
    /\ snap[b] # NoCopy => snap[b].status # "none" /\ batch[b].status # "none"

(* Where the thread of an item is, and what it has done by then.           *)
ItemOk(b, c) ==
    /\ worker[b][c] # "gone" =>
         batch[b].status \in {"running", "completed"} /\ batch[b].item[c] # "absent"
    /\ batch[b].status \in {"running", "completed"} /\ worker[b][c] = "gone" =>
         batch[b].item[c] = "absent"
    /\ batch[b].status = "completed" => worker[b][c] \in {"gone", "over"}
    /\ worker[b][c] = "over" => batch[b].item[c] \in Ended
    /\ lock[c] = b <=> worker[b][c] \in Holding

(* A run of a batch and the thread that started it.                        *)
SpanOk(r) ==
    run[r].by \in Batches =>
        /\ copy[run[r].by].status # "none"
        /\ worker[run[r].by][run[r].cell] \in {"gone", "starting", "wait", "judge", "over"}
        /\ run[r].step = "popen" => worker[run[r].by][run[r].cell] = "starting"
        /\ run[r].step = "registered" => worker[run[r].by][run[r].cell] # "gone"
        /\ run[r].step = "registered" /\ run[r].proc = "alive"
             /\ worker[run[r].by][run[r].cell] = "over"
             => batch[run[r].by].item[run[r].cell] = "failed"

(* An item has one run at most.                                            *)
OneRun(r, s) == run[r].by \in Batches /\ run[s].by = run[r].by /\ run[s].cell = run[r].cell => r = s

(* Every copy of a batch in memory, in the table or on its way there.      *)
Sampled(b, c) == \E r \in RunOf(b, c) : run[r].row \in {"completed", "deleted"}
TruthOk(b, c) ==
    batch[b].item[c] = "completed" \/ copy[b].item[c] = "completed" \/ snap[b].item[c] = "completed"
        => Sampled(b, c)

RunsInv == \A r \in Runs : RunOk(r)
BatchesInv == \A b \in Batches : BatchOk(b)
ItemsInv == \A b \in Batches, c \in Cells : ItemOk(b, c)
SpanInv == \A r \in Runs : SpanOk(r)
OneRunInv == \A r, s \in Runs : OneRun(r, s)
TruthInv == \A b \in Batches, c \in Cells : TruthOk(b, c)

IInv == /\ TypeOK /\ RunsInv /\ ConsoleOk /\ BatchesInv /\ ItemsInv
        /\ SpanInv /\ OneRunInv /\ TruthInv

----------------------------------------------------------------------------
(* Every variable keeps its type.                                          *)

LEMMA EditType ==
    ASSUME NEW x \in RunState
    PROVE  /\ \A row \in Rows, watch \in Watches, stop \in BOOLEAN, out \in Outs :
                [x EXCEPT !.row = row, !.watch = watch, !.stop = stop, !.out = out] \in RunState
           /\ \A proc \in Procs, out \in Outs, stop \in BOOLEAN :
                [x EXCEPT !.proc = proc, !.out = out, !.stop = stop] \in RunState
           /\ \A proc \in Procs, out \in Outs, stop \in BOOLEAN :
                [x EXCEPT !.proc = proc, !.stop = stop, !.out = out] \in RunState
           /\ \A watch \in Watches, out \in Outs, stop \in BOOLEAN, step \in Steps :
                [x EXCEPT !.watch = watch, !.out = out, !.stop = stop, !.step = step] \in RunState
           /\ \A row \in Rows, step \in Steps, watch \in Watches :
                [x EXCEPT !.row = row, !.step = step, !.watch = watch] \in RunState
           /\ \A row \in Rows, step \in Steps :
                [x EXCEPT !.row = row, !.step = step] \in RunState
           /\ \A row \in Rows : [x EXCEPT !.row = row] \in RunState
           /\ \A stop \in BOOLEAN : [x EXCEPT !.stop = stop] \in RunState
           /\ \A watch \in Watches : [x EXCEPT !.watch = watch] \in RunState
           /\ \A step \in Steps : [x EXCEPT !.step = step] \in RunState
BY Zenon DEF RunState

LEMMA OneEdit ==
    ASSUME run \in [Runs -> RunState], NEW r \in Runs, NEW x \in RunState,
           run' = [run EXCEPT ![r] = x]
    PROVE  run' \in [Runs -> RunState]
OBVIOUS

LEMMA NewRunType ==
    ASSUME TypeOK, RunAssumption
    PROVE  /\ \A r \in Runs : Killed(run[r]) \in RunState
           /\ \A c \in Cells, by \in Batches \cup Others : Process(c, by) \in RunState
           /\ NoRun \in RunState
<1>1. NoRun \in RunState
  <2>1. (CHOOSE c \in Cells : TRUE) \in Cells
    BY DEF RunAssumption
  <2> QED  BY <2>1 DEF NoRun, RunState, Others, Rows, Procs, Outs, Steps, Watches
<1>2. ASSUME NEW r \in Runs PROVE Killed(run[r]) \in RunState
  <2>1. run[r] \in RunState /\ run[r].out \in Outs
    BY DEF TypeOK, RunState
  <2>2. "done" \in Procs /\ "crash" \in Outs /\ FALSE \in BOOLEAN
    BY DEF Procs, Outs
  <2> QED  BY <2>1, <2>2, EditType DEF Killed
<1>3. ASSUME NEW c \in Cells, NEW by \in Batches \cup Others PROVE Process(c, by) \in RunState
  BY <1>1, <1>3 DEF Process, RunState, Procs, Steps
<1> QED  BY <1>1, <1>2, <1>3

LEMMA RunType ==
    ASSUME TypeOK, RunAssumption, Next
    PROVE  run' \in [Runs -> RunState]
<1> USE DEF TypeOK
<1>1. ASSUME NEW r \in Runs,
             AnalyzerExit(r) \/ Watch(r) \/ RegisterRun(r) \/ GenerateStart(r) \/ GenerateEnd(r)
               \/ CancelRun(r) \/ DeleteRun(r) \/ Recovers(r)
      PROVE  run' \in [Runs -> RunState]
  <2>1. /\ run[r] \in RunState /\ Killed(run[r]) \in RunState
        /\ run[r].stop \in BOOLEAN /\ run[r].row \in Rows
    BY NewRunType DEF RunState
  <2>2. /\ {"running", "failed", "completed", "cancelled", "deleted"} \subseteq Rows
        /\ {"none", "wait", "final", "pop", "dead"} \subseteq Watches
        /\ {"none", "alive", "done"} \subseteq Procs
        /\ "registered" \in Steps /\ "none" \in Outs
    BY DEF Rows, Watches, Procs, Steps, Outs, Final
  <2> SUFFICES \E x \in RunState : run' = [run EXCEPT ![r] = x]
    BY OneEdit
  <2>3. ASSUME NEW s \in Rows, NEW w \in Watches, UpdateRun(r, s, w)
        PROVE  \E x \in RunState : run' = [run EXCEPT ![r] = x]
    <3>1. (IF run[r].row = "deleted" THEN "deleted" ELSE s) \in Rows
      BY <2>2
    <3> DEFINE x == [run[r] EXCEPT !.row = IF run[r].row = "deleted" THEN "deleted" ELSE s,
                                   !.watch = w, !.stop = FALSE, !.out = "none"]
    <3>2. x \in RunState
      BY <2>1, <2>2, <3>1, EditType
    <3>3. run' = [run EXCEPT ![r] = x]
      BY <2>3 DEF UpdateRun
    <3> QED  BY <3>2, <3>3
  <2>4. CASE AnalyzerExit(r)
    <3>1. PICK o \in Outs, s \in BOOLEAN :
            run' = [run EXCEPT ![r] = [run[r] EXCEPT !.proc = "done", !.out = o, !.stop = s]]
      BY <2>4, <2>1 DEF AnalyzerExit, Outs
    <3>2. [run[r] EXCEPT !.proc = "done", !.out = o, !.stop = s] \in RunState
      BY <2>1, <2>2, EditType
    <3> QED  BY <3>1, <3>2
  <2>5. CASE WatchFailed(r) \/ WatchNoSpins(r) \/ WatchFinal(r) \/ GenerateEnd(r)
    BY <2>5, <2>2, <2>3 DEF WatchFailed, WatchNoSpins, WatchFinal, GenerateEnd
  <2>6. CASE WatchIndex(r) \/ WatchPop(r)
    <3>1. PICK w \in Watches : run' = [run EXCEPT ![r] = [run[r] EXCEPT !.watch = w]]
      BY <2>6, <2>2 DEF WatchIndex, WatchPop
    <3>2. [run[r] EXCEPT !.watch = w] \in RunState
      BY <2>1, EditType
    <3> QED  BY <3>1, <3>2
  <2>7. CASE RegisterRun(r)
    <3>1. [run[r] EXCEPT !.row = "running", !.step = "registered", !.watch = "wait"] \in RunState
      BY <2>1, <2>2, EditType
    <3> QED  BY <2>7, <3>1 DEF RegisterRun
  <2>8. CASE GenerateStart(r)
    <3>1. \/ run' = [run EXCEPT ![r] = [run[r] EXCEPT !.row = "running", !.step = "registered"]]
          \/ run' = [run EXCEPT ![r] = [run[r] EXCEPT !.row = "failed", !.step = "registered"]]
          \/ run' = [run EXCEPT ![r] = [run[r] EXCEPT !.step = "registered"]]
      BY <2>8 DEF GenerateStart
    <3>2. /\ [run[r] EXCEPT !.row = "running", !.step = "registered"] \in RunState
          /\ [run[r] EXCEPT !.row = "failed", !.step = "registered"] \in RunState
          /\ [run[r] EXCEPT !.step = "registered"] \in RunState
      BY <2>1, <2>2, EditType
    <3> QED  BY <3>1, <3>2
  <2>9. CASE CancelRun(r)
    <3>1. PICK x \in RunState, s \in BOOLEAN :
            run' = [run EXCEPT ![r] = [run[r] EXCEPT !.stop = s]] \/ run' = [run EXCEPT ![r] = x]
      BY <2>9, <2>1 DEF CancelRun
    <3>2. [run[r] EXCEPT !.stop = s] \in RunState
      BY <2>1, EditType
    <3> QED  BY <3>1, <3>2
  <2>10. CASE DeleteRun(r) \/ Recovers(r)
    <3>1. run' = run \/ \E w \in Rows : run' = [run EXCEPT ![r] = [run[r] EXCEPT !.row = w]]
      BY <2>10, <2>2 DEF DeleteRun, Recovers, TerminateOrphan, RecoverOwned, RecoverNoSpawn,
                         RecoverMarkFailed, SettleOrphan
    <3>2. \A w \in Rows : [run[r] EXCEPT !.row = w] \in RunState
      BY <2>1, EditType
    <3>3. run' = [run EXCEPT ![r] = run[r]] \/ \E w \in Rows : run' = [run EXCEPT ![r] = [run[r] EXCEPT !.row = w]]
      BY <3>1
    <3> QED  BY <2>1, <3>2, <3>3
  <2> QED  BY <1>1, <2>4, <2>5, <2>6, <2>7, <2>8, <2>9, <2>10 DEF Watch
<1>2. ASSUME NEW c \in Cells, NEW by \in Batches \cup Others, Popen(c, by)
      PROVE  run' \in [Runs -> RunState]
  BY <1>2, NewRunType DEF Popen
<1>3. ASSUME NEW c \in Cells, NEW row \in {"queued", "running"}, NEW step \in {"queued", "registered"},
             InsertReport(c, row, step)
      PROVE  run' \in [Runs -> RunState]
  <2>1. [NoRun EXCEPT !.cell = c, !.by = "report", !.row = row, !.step = step] \in RunState
    BY <1>3, NewRunType DEF RunState, Others, Rows, Steps
  <2> QED  BY <1>3, <2>1 DEF InsertReport
<1>4. ASSUME NEW r \in Runs, RecoverSpawn(r) PROVE run' \in [Runs -> RunState]
  <2>1. run[r].cell \in Cells /\ "orphan" \in Batches \cup Others
    BY DEF RunState, Others
  <2>2. Process(run[r].cell, "orphan") \in RunState
    BY <2>1, NewRunType
  <2>3. PICK n \in Runs : run' = [run EXCEPT ![n] = Process(run[r].cell, "orphan")]
    BY <1>4 DEF RecoverSpawn, NewRun
  <2> QED  BY <2>2, <2>3
<1>9. ASSUME NEW r \in Runs, RecoverSpawnRaises(r) PROVE run' \in [Runs -> RunState]
  <2>1. [run[r] EXCEPT !.row = "failed"] \in RunState /\ heir \in Runs
    BY <1>9, EditType DEF Rows, Final, RecoverSpawnRaises
  <2> DEFINE mid == [run EXCEPT ![r] = [run[r] EXCEPT !.row = "failed"]]
  <2>2. mid \in [Runs -> RunState]
    BY <2>1
  <2>3. [mid[heir] EXCEPT !.step = "past"] \in RunState
    BY <2>1, <2>2, EditType DEF Steps
  <2>4. run' = [mid EXCEPT ![heir] = [mid[heir] EXCEPT !.step = "past"]]
    BY <1>9 DEF RecoverSpawnRaises
  <2> DEFINE last == [mid[heir] EXCEPT !.step = "past"]
  <2>5. last \in RunState /\ run' = [mid EXCEPT ![heir] = last]
    BY <2>3, <2>4
  <2> HIDE DEF mid, last
  <2> QED  BY <2>1, <2>2, <2>5
<1>5. ASSUME NEW b \in Batches, NEW c \in Cells, StartRunRaises(b, c) PROVE run' \in [Runs -> RunState]
  <2>1. run' = run \/ \E r \in Runs : run' = [run EXCEPT ![r] = [run[r] EXCEPT !.step = "past"]]
    BY <1>5 DEF StartRunRaises, RunOf
  <2>2. ASSUME NEW r \in Runs PROVE [run[r] EXCEPT !.step = "past"] \in RunState
    BY EditType DEF Steps
  <2>3. CASE run' = run  BY <2>3
  <2>4. CASE \E r \in Runs : run' = [run EXCEPT ![r] = [run[r] EXCEPT !.step = "past"]]
    <3>1. PICK r \in Runs : run' = [run EXCEPT ![r] = [run[r] EXCEPT !.step = "past"]]
      BY <2>4
    <3>2. [run[r] EXCEPT !.step = "past"] \in RunState
      BY <2>2
    <3> QED  BY <3>1, <3>2
  <2> QED  BY <2>1, <2>3, <2>4
<1>6. ASSUME NEW b \in Batches, CancelBatch(b) PROVE run' \in [Runs -> RunState]
  BY <1>6, NewRunType DEF CancelBatch
<1>7. CASE Crash
  <2>1. \A r \in Runs : [run[r] EXCEPT !.watch = "none", !.out = "none", !.stop = FALSE,
                              !.step = IF @ = "unused" THEN @ ELSE "past"] \in RunState
    <3>1. {"unused", "past"} \subseteq Steps /\ "none" \in Outs /\ "none" \in Watches
      BY DEF Steps, Outs, Watches
    <3>2. TAKE r \in Runs
    <3>3. (IF run[r].step = "unused" THEN run[r].step ELSE "past") \in Steps /\ run[r] \in RunState
      BY <3>1 DEF RunState
    <3> QED  BY <3>1, <3>3, EditType
  <2> QED  BY <1>7, <2>1 DEF Crash
<1>8. CASE UNCHANGED run  BY <1>8
<1> QED
  <2>1. ASSUME NEW b \in Batches, NEW c \in Cells, Work(b, c) PROVE run' \in [Runs -> RunState]
    BY <2>1, <1>2, <1>8
       DEF Work, StartRun, ItemCancelledQueued, AcquireSampling, AttachOrReject, AcquireSemaphore,
           DiskCancelled, DiskExhausted, MarkRunning, NoSlot, Quit, PublishRunId, WaitForRun, JudgeRun
  <2>2. ASSUME NEW b \in Batches,
               \/ \E cells \in Requests : PostBatch(b, cells)
               \/ \E new \in Batches : ResumeBatch(b, new)
               \/ CompleteBatch(b) \/ CancelWrite(b) \/ RestoreBatch(b)
               \/ \E c \in Cells : WaitTooLong(b, c)
        PROVE  run' \in [Runs -> RunState]
    BY <2>2, <1>8 DEF PostBatch, ResumeBatch, StartBatch, CompleteBatch, CancelWrite, RestoreBatch,
                      WaitTooLong
  <2>3. ASSUME NEW c \in Cells, CreateRun(c) \/ GenerateRow(c) \/ GenerateQueue(c)
        PROVE  run' \in [Runs -> RunState]
    BY <2>3, <1>2, <1>3 DEF CreateRun, GenerateRow, GenerateQueue, Others
  <2>4. CASE Boot \/ StartupDone
    BY <2>4, <1>8 DEF Boot, StartupDone
  <2> QED  BY <1>1, <1>4, <1>5, <1>6, <1>7, <1>9, <2>1, <2>2, <2>3, <2>4 DEF Next, Startup, Recovers

LEMMA MemoryType ==
    ASSUME TypeOK, RunAssumption, Next
    PROVE  /\ batch' \in [Batches -> [status : Statuses, item : Items, cancel : BOOLEAN]]
           /\ copy' \in [Batches -> [status : Statuses, item : Items]]
           /\ snap' \in [Batches -> [status : Statuses, item : Items]]
           /\ worker' \in [Batches -> [Cells -> Places]]
           /\ lock' \in [Cells -> Batches \cup {None}]
<1> DEFINE Full == [status : Statuses, item : Items, cancel : BOOLEAN]
           Short == [status : Statuses, item : Items]
           Goal == /\ batch' \in [Batches -> Full] /\ copy' \in [Batches -> Short]
                   /\ snap' \in [Batches -> Short]
                   /\ worker' \in [Batches -> [Cells -> Places]]
                   /\ lock' \in [Cells -> Batches \cup {None}]
<1>0. /\ batch \in [Batches -> Full] /\ copy \in [Batches -> Short] /\ snap \in [Batches -> Short]
      /\ worker \in [Batches -> [Cells -> Places]] /\ lock \in [Cells -> Batches \cup {None}]
  BY DEF TypeOK
<1>names. /\ {"enter", "gone", "semaphore", "disk", "slot", "starting", "wait", "judge", "over"}
                \subseteq Places
          /\ {"none", "running", "completed", "cancelled"} \subseteq Statuses
  BY DEF Places, Statuses
<1>items. /\ \A f \in Items, c \in Cells, s \in {"running", "pending"} \cup Ended :
                [f EXCEPT ![c] = s] \in Items
          /\ [c \in Cells |-> "absent"] \in Items
  BY DEF Items, Ended
<1>item. ASSUME NEW b \in Batches, NEW c \in Cells, NEW s \in {"running", "pending"} \cup Ended,
                SetItem(b, c, s)
         PROVE  batch' \in [Batches -> Full]
  <2>1. batch[b] \in Full /\ batch[b].item \in Items
    BY <1>0
  <2>2. [batch[b].item EXCEPT ![c] = s] \in Items
    BY <2>1, <1>items
  <2>3. [batch[b] EXCEPT !.item = [batch[b].item EXCEPT ![c] = s]] \in Full
    BY <2>1, <2>2, Zenon
  <2>4. batch' = [batch EXCEPT ![b] = [batch[b] EXCEPT !.item = [batch[b].item EXCEPT ![c] = s]]]
    BY <1>item DEF SetItem
  <2> QED  BY <1>0, <2>3, <2>4
<1>go. ASSUME NEW b \in Batches, NEW c \in Cells, NEW pc \in Places, Go(b, c, pc)
       PROVE  worker' \in [Batches -> [Cells -> Places]]
  BY <1>0, <1>go DEF Go
<1>persist. ASSUME NEW b \in Batches, batch' \in [Batches -> Full], Persist(b)
            PROVE  copy' \in [Batches -> Short]
  BY <1>0, <1>persist DEF Persist, Copied
<1>leave. ASSUME NEW b \in Batches, NEW c \in Cells, NEW s \in Ended, Leave(b, c, s)
          PROVE  /\ batch' \in [Batches -> Full]
                 /\ worker' \in [Batches -> [Cells -> Places]]
                 /\ lock' \in [Cells -> Batches \cup {None}]
  <2>1. SetItem(b, c, s) /\ Go(b, c, "over") /\ lock' = [lock EXCEPT ![c] = IF lock[c] = b THEN None ELSE lock[c]]
    BY <1>leave DEF Leave
  <2> QED  BY <1>0, <1>names, <1>item, <1>go, <2>1
<1>none. NoBatch \in Full /\ NoCopy \in Short
  BY <1>items, <1>names DEF NoBatch, NoCopy
<1>1. ASSUME NEW b \in Batches, NEW c \in Cells, Work(b, c) PROVE Goal
  <2>1. CASE ItemCancelledQueued(b, c)
    BY <2>1, <1>0, <1>names, <1>item, <1>go DEF ItemCancelledQueued, Ended
  <2>2. CASE AcquireSampling(b, c)
    BY <2>2, <1>0, <1>names, <1>go DEF AcquireSampling
  <2>3. CASE AttachOrReject(b, c)
    BY <2>3, <1>0, <1>names, <1>item, <1>go DEF AttachOrReject, Ended
  <2>4. CASE AcquireSemaphore(b, c)
    BY <2>4, <1>0, <1>names, <1>go DEF AcquireSemaphore
  <2>5. CASE DiskCancelled(b, c) \/ DiskExhausted(b, c) \/ NoSlot(b, c)
    BY <2>5, <1>0, <1>leave DEF DiskCancelled, DiskExhausted, NoSlot, Quit, Ended
  <2>6. CASE MarkRunning(b, c)
    BY <2>6, <1>0, <1>names, <1>item, <1>go DEF MarkRunning
  <2>7. CASE StartRun(b, c)
    BY <2>7, <1>0, <1>names, <1>go DEF StartRun
  <2>8. CASE PublishRunId(b, c) \/ WaitForRun(b, c)
    BY <2>8, <1>0, <1>names, <1>go DEF PublishRunId, WaitForRun
  <2>9. CASE JudgeRun(b, c)
    <3>1. \E s \in Ended : Leave(b, c, s)
      BY <2>9 DEF JudgeRun, Ended
    <3> QED  BY <2>9, <3>1, <1>0, <1>leave, <1>persist DEF JudgeRun
  <2> QED  BY <1>1, <2>1, <2>2, <2>3, <2>4, <2>5, <2>6, <2>7, <2>8, <2>9 DEF Work
<1>2. ASSUME NEW b \in Batches, NEW c \in Cells, StartRunRaises(b, c) \/ WaitTooLong(b, c) PROVE Goal
  BY <1>2, <1>0, <1>names, <1>leave, <1>persist, <1>go DEF StartRunRaises, WaitTooLong, Ended
<1>3. ASSUME NEW b \in Batches, NEW cells, StartBatch(b, cells) PROVE Goal
  <2>1. /\ [c \in Cells |-> IF c \in cells THEN "pending" ELSE "absent"] \in Items
        /\ [c \in Cells |-> IF c \in cells THEN "enter" ELSE "gone"] \in [Cells -> Places]
    BY <1>names DEF Items
  <2>2. batch' \in [Batches -> Full]
    BY <1>3, <1>0, <1>names, <2>1 DEF StartBatch
  <2> QED  BY <1>3, <1>0, <1>persist, <2>1, <2>2 DEF StartBatch
<1>4. ASSUME NEW b \in Batches, CompleteBatch(b) PROVE Goal
  <2>1. batch' \in [Batches -> Full]
    <3>1. batch[b] \in Full /\ "completed" \in Statuses
      BY <1>0, <1>names
    <3>2. [batch[b] EXCEPT !.status = "completed"] \in Full
      BY <3>1, Zenon
    <3> QED  BY <1>4, <1>0, <3>2 DEF CompleteBatch
  <2> QED  BY <1>4, <1>0, <1>persist, <2>1 DEF CompleteBatch
<1>5. ASSUME NEW b \in Batches, CancelBatch(b) PROVE Goal
  <2>1. batch' \in [Batches -> Full]
    <3>1. batch[b] \in Full /\ TRUE \in BOOLEAN
      BY <1>0
    <3>2. [batch[b] EXCEPT !.cancel = TRUE] \in Full
      BY <3>1, Zenon
    <3> QED  BY <1>5, <1>0, <3>2 DEF CancelBatch
  <2>2. Copied(b) \in Short
    BY <2>1 DEF Copied
  <2> QED  BY <1>5, <1>0, <2>1, <2>2 DEF CancelBatch
<1>6. ASSUME NEW b \in Batches, CancelWrite(b) PROVE Goal
  BY <1>6, <1>0, <1>none DEF CancelWrite
<1>7. ASSUME NEW b \in Batches, RestoreBatch(b) PROVE Goal
  <2> DEFINE item == [c \in Cells |-> IF copy[b].item[c] \in {"pending", "running"}
                                      THEN "cancelled" ELSE copy[b].item[c]]
  <2>1. item \in Items
    BY <1>0 DEF Items, Ended
  <2>2. /\ batch' = [batch EXCEPT ![b] = [status |-> "cancelled", item |-> item, cancel |-> TRUE]]
        /\ copy' = [copy EXCEPT ![b] = [status |-> "cancelled", item |-> item]]
        /\ UNCHANGED <<snap, worker, lock>>
    BY <1>7 DEF RestoreBatch
  <2> HIDE DEF item
  <2>3. /\ [status |-> "cancelled", item |-> item, cancel |-> TRUE] \in Full
        /\ [status |-> "cancelled", item |-> item] \in Short
    BY <2>1, <1>names
  <2> QED  BY <1>0, <2>2, <2>3
<1>8. CASE Crash
  BY <1>8, <1>0, <1>none, <1>names DEF Crash
<1>9. CASE UNCHANGED memory
  BY <1>9, <1>0 DEF memory
<1> QED
  <2>1. ASSUME NEW r \in Runs,
               AnalyzerExit(r) \/ Watch(r) \/ RegisterRun(r) \/ GenerateStart(r) \/ GenerateEnd(r)
                 \/ CancelRun(r) \/ DeleteRun(r) \/ RecoveryStep(r)
        PROVE  UNCHANGED memory
    BY <2>1 DEF AnalyzerExit, Watch, WatchFailed, WatchNoSpins, WatchIndex, WatchFinal, WatchPop,
                RegisterRun, GenerateStart, GenerateEnd, CancelRun, DeleteRun, RecoveryStep,
                Recovers, TerminateOrphan, RecoverOwned, RecoverNoSpawn, SettleOrphan,
                RecoverSpawn, RecoverMarkFailed, RecoverSpawnRaises
  <2>2. ASSUME NEW c \in Cells, CreateRun(c) \/ GenerateRow(c) \/ GenerateQueue(c)
        PROVE  UNCHANGED memory
    BY <2>2 DEF CreateRun, GenerateRow, GenerateQueue
  <2>3. CASE Boot \/ StartupDone
    BY <2>3, <1>9 DEF Boot, StartupDone
  <2>4. ASSUME NEW b \in Batches,
               (\E cells \in Requests : PostBatch(b, cells)) \/ \E new \in Batches : ResumeBatch(b, new)
        PROVE  Goal
    BY <2>4, <1>3 DEF PostBatch, ResumeBatch
  <2> QED  BY <1>1, <1>2, <1>4, <1>5, <1>6, <1>7, <1>8, <1>9, <2>1, <2>2, <2>3, <2>4
           DEF Next, Startup, Recovers, RecoveryStep

(* All actions but those of the crash and the recovery.                    *)
LEMMA UpType ==
    ASSUME TypeOK, RunAssumption, Next
    PROVE  /\ console' \in {"up", "down", "recover"}
           /\ managed' \subseteq Runs /\ stale' \subseteq Runs /\ heir' \in Runs \cup {None}
           /\ said' \in [Runs -> Words]
<1> DEFINE Goal == /\ console' \in {"up", "down", "recover"}
                   /\ managed' \subseteq Runs /\ stale' \subseteq Runs /\ heir' \in Runs \cup {None}
           /\ said' \in [Runs -> Words]
<1> USE DEF TypeOK
<1>1. CASE managed' \subseteq Runs /\ UNCHANGED recovery
  BY <1>1 DEF recovery
<1>2. ASSUME NEW r \in Runs,
             AnalyzerExit(r) \/ Watch(r) \/ RegisterRun(r) \/ GenerateStart(r) \/ GenerateEnd(r)
               \/ CancelRun(r) \/ DeleteRun(r)
      PROVE  managed' \subseteq Runs /\ UNCHANGED recovery
  BY <1>2 DEF AnalyzerExit, Watch, WatchFailed, WatchNoSpins, WatchIndex, WatchFinal, WatchPop,
              RegisterRun, GenerateStart, GenerateEnd, CancelRun, DeleteRun
<1>3. ASSUME NEW c \in Cells, CreateRun(c) \/ GenerateRow(c) \/ GenerateQueue(c)
      PROVE  managed' \subseteq Runs /\ UNCHANGED recovery
  BY <1>3 DEF CreateRun, GenerateRow, GenerateQueue
<1>4. ASSUME NEW b \in Batches,
             \/ \E cells \in Requests : PostBatch(b, cells)
             \/ \E new \in Batches : ResumeBatch(b, new)
             \/ CompleteBatch(b) \/ CancelBatch(b) \/ CancelWrite(b) \/ RestoreBatch(b)
      PROVE  managed' \subseteq Runs /\ UNCHANGED recovery
  BY <1>4 DEF PostBatch, ResumeBatch, StartBatch, CompleteBatch, CancelBatch, CancelWrite,
              RestoreBatch, recovery
<1>5. ASSUME NEW b \in Batches, NEW c \in Cells, Work(b, c) \/ StartRunRaises(b, c) \/ WaitTooLong(b, c)
      PROVE  managed' \subseteq Runs /\ UNCHANGED recovery
  BY <1>5 DEF Work, StartRun, ItemCancelledQueued, AcquireSampling, AttachOrReject,
              AcquireSemaphore, DiskCancelled, DiskExhausted, MarkRunning, NoSlot, Quit,
              PublishRunId, WaitForRun, JudgeRun, StartRunRaises, WaitTooLong
<1>6. ASSUME NEW r \in Runs, RecoveryStep(r) PROVE Goal
  BY <1>6 DEF RecoveryStep, Recovers, TerminateOrphan, RecoverOwned, RecoverNoSpawn, SettleOrphan,
              RecoverSpawn, RecoverMarkFailed, RecoverSpawnRaises, NewRun, Words
<1>7. CASE Crash \/ Boot \/ StartupDone
  BY <1>7 DEF Crash, Boot, StartupDone, Words
<1> QED  BY <1>1, <1>2, <1>3, <1>4, <1>5, <1>6, <1>7 DEF Next, Startup, RecoveryStep, Recovers

LEMMA TypeStep == ASSUME TypeOK, RunAssumption, Next PROVE TypeOK'
BY RunType, MemoryType, UpType DEF TypeOK

----------------------------------------------------------------------------
(* The rows, processes and watchers.                                       *)

(* A run that a step leaves alone.                                         *)
LEMMA RunStill ==
    ASSUME NEW q \in Runs, RunOk(q), run'[q] = run[q], q \in managed' <=> q \in managed,
           q \in stale' <=> q \in stale, console' = console, said'[q] = said[q]
    PROVE  RunOk(q)'
BY DEF RunOk

(* The runs whose step it is not.                                          *)
LEMMA OtherRuns ==
    ASSUME TypeOK, NEW r \in Runs, NEW q \in Runs, q # r,
           AnalyzerExit(r) \/ Watch(r) \/ RegisterRun(r) \/ GenerateStart(r) \/ GenerateEnd(r)
             \/ CancelRun(r) \/ DeleteRun(r) \/ Recovers(r)
    PROVE  /\ run'[q] = run[q] /\ console' = console
           /\ q \in managed' <=> q \in managed
           /\ q \in stale' <=> q \in stale
           /\ said'[q] = said[q]
<1> USE DEF TypeOK, recovery
<1>1. CASE AnalyzerExit(r) \/ RegisterRun(r) \/ GenerateStart(r) \/ GenerateEnd(r)
  BY <1>1 DEF AnalyzerExit, RegisterRun, GenerateStart, GenerateEnd, UpdateRun
<1>2. CASE Watch(r)
  BY <1>2 DEF Watch, WatchFailed, WatchNoSpins, WatchIndex, WatchFinal, WatchPop, UpdateRun
<1>3. CASE CancelRun(r) \/ DeleteRun(r)
  BY <1>3 DEF CancelRun, DeleteRun
<1>4. CASE Recovers(r)
  BY <1>4 DEF Recovers, TerminateOrphan, RecoverOwned, RecoverNoSpawn, RecoverMarkFailed, SettleOrphan
<1> QED  BY <1>1, <1>2, <1>3, <1>4

(* What the three steps that leave a choice make of their run.             *)
LEMMA Edits ==
    ASSUME TypeOK, NEW r \in Runs
    PROVE  /\ AnalyzerExit(r) =>
                /\ run'[r].row = run[r].row /\ run'[r].by = run[r].by /\ run'[r].cell = run[r].cell
                /\ run'[r].step = run[r].step /\ run'[r].watch = run[r].watch
                /\ run'[r].proc = "done"
           /\ CancelRun(r) =>
                /\ run'[r].row = run[r].row /\ run'[r].by = run[r].by /\ run'[r].cell = run[r].cell
                /\ run'[r].step = run[r].step /\ run'[r].watch = run[r].watch
                /\ run'[r].proc \in {run[r].proc, "done"}
           /\ GenerateStart(r) =>
                /\ \/ run'[r].row \in {"running", "failed"}
                   \/ run'[r].row = run[r].row /\ run[r].row # "queued"
                /\ run'[r].step = "registered"
                /\ run'[r].by = run[r].by /\ run'[r].cell = run[r].cell
                /\ run'[r].watch = run[r].watch /\ run'[r].proc = run[r].proc
<1>0. run[r] \in RunState /\ run \in [Runs -> RunState]
  BY DEF TypeOK
<1>1. ASSUME AnalyzerExit(r)
      PROVE  /\ run'[r].row = run[r].row /\ run'[r].by = run[r].by /\ run'[r].cell = run[r].cell
             /\ run'[r].step = run[r].step /\ run'[r].watch = run[r].watch /\ run'[r].proc = "done"
  <2>1. PICK o, s : run' = [run EXCEPT ![r] = [run[r] EXCEPT !.proc = "done", !.out = o, !.stop = s]]
    BY <1>1, Zenon DEF AnalyzerExit
  <2> QED  BY <1>0, <2>1 DEF RunState
<1>2. ASSUME CancelRun(r)
      PROVE  /\ run'[r].row = run[r].row /\ run'[r].by = run[r].by /\ run'[r].cell = run[r].cell
             /\ run'[r].step = run[r].step /\ run'[r].watch = run[r].watch
             /\ run'[r].proc \in {run[r].proc, "done"}
  <2>1. \/ \E s : run' = [run EXCEPT ![r] = [run[r] EXCEPT !.stop = s]]
        \/ \E o : run' = [run EXCEPT ![r] = [run[r] EXCEPT !.proc = "done", !.stop = FALSE, !.out = o]]
    BY <1>0, <1>2 DEF CancelRun, Killed
  <2>2. CASE \E s : run' = [run EXCEPT ![r] = [run[r] EXCEPT !.stop = s]]
    BY <1>0, <2>2 DEF RunState
  <2>3. CASE \E o : run' = [run EXCEPT ![r] = [run[r] EXCEPT !.proc = "done", !.stop = FALSE, !.out = o]]
    BY <1>0, <2>3 DEF RunState
  <2> QED  BY <2>1, <2>2, <2>3
<1>3. ASSUME GenerateStart(r)
      PROVE  /\ \/ run'[r].row \in {"running", "failed"}
                \/ run'[r].row = run[r].row /\ run[r].row # "queued"
             /\ run'[r].step = "registered" /\ run'[r].by = run[r].by /\ run'[r].cell = run[r].cell
             /\ run'[r].watch = run[r].watch /\ run'[r].proc = run[r].proc
  <2>1. \/ run' = [run EXCEPT ![r] = [run[r] EXCEPT !.row = "running", !.step = "registered"]]
        \/ run' = [run EXCEPT ![r] = [run[r] EXCEPT !.row = "failed", !.step = "registered"]]
        \/ /\ run' = [run EXCEPT ![r] = [run[r] EXCEPT !.step = "registered"]]
           /\ run[r].row # "queued"
    BY <1>3 DEF GenerateStart
  <2> QED  BY <1>0, <2>1 DEF RunState
<1> QED  BY <1>1, <1>2, <1>3

(* The run whose step it is.                                               *)
LEMMA OwnRun ==
    ASSUME TypeOK, ConsoleOk, NEW r \in Runs, RunOk(r),
           AnalyzerExit(r) \/ Watch(r) \/ RegisterRun(r) \/ GenerateStart(r) \/ GenerateEnd(r)
             \/ CancelRun(r) \/ DeleteRun(r) \/ Recovers(r)
    PROVE  RunOk(r)'
<1>0. run[r] \in RunState /\ run \in [Runs -> RunState] /\ managed \subseteq Runs
  BY DEF TypeOK
<1> USE DEF RunOk, RunState, Final, Watching, recovery
<1>1. CASE AnalyzerExit(r)
  <2>1. run[r].proc = "alive" /\ run[r].step # "popen" /\ UNCHANGED <<managed, stale, console, said>>
    BY <1>1 DEF AnalyzerExit
  <2> QED  BY <1>0, <1>1, <2>1, Edits
<1>2. CASE WatchFailed(r)  BY <1>0, <1>2 DEF WatchFailed, UpdateRun
<1>3. CASE WatchNoSpins(r)  BY <1>0, <1>3 DEF WatchNoSpins, UpdateRun
<1>4. CASE WatchIndex(r)  BY <1>0, <1>4 DEF WatchIndex
<1>5. CASE WatchFinal(r)  BY <1>0, <1>5 DEF WatchFinal, UpdateRun
<1>6. CASE WatchPop(r)  BY <1>0, <1>6 DEF WatchPop
<1>7. CASE RegisterRun(r)  BY <1>0, <1>7 DEF RegisterRun
<1>8. CASE GenerateStart(r)
  <2>2. run[r].step = "queued" /\ UNCHANGED <<managed, stale, console, said>>
    BY <1>8 DEF GenerateStart
  <2> QED  BY <1>0, <1>8, <2>2, Edits
<1>9. CASE GenerateEnd(r)  BY <1>0, <1>9 DEF GenerateEnd, UpdateRun
<1>10. CASE CancelRun(r)
  <2>2. r \in managed /\ UNCHANGED <<managed, stale, console, said>>
    BY <1>10 DEF CancelRun
  <2> QED  BY <1>10, <2>2, Edits
<1>11. CASE DeleteRun(r)  BY <1>0, <1>11 DEF DeleteRun
<1>12. CASE TerminateOrphan(r)
  <2>1. UNCHANGED <<run, managed, stale, console>> /\ r \in stale
    BY <1>12 DEF TerminateOrphan, Orphan
  <2> QED  BY <1>0, <2>1
<1>13. CASE RecoverOwned(r) \/ RecoverNoSpawn(r) \/ RecoverMarkFailed(r)
  <2>1. SettleOrphan(r) /\ r \in stale /\ (HasPid(r) => said[r] # "nothing")
    BY <1>13 DEF RecoverOwned, RecoverNoSpawn, RecoverMarkFailed, Treated, Orphan, ConsoleOk
  <2> QED  BY <1>0, <2>1 DEF SettleOrphan, HasPid
<1> QED  BY <1>1, <1>2, <1>3, <1>4, <1>5, <1>6, <1>7, <1>8, <1>9, <1>10, <1>11, <1>12, <1>13
            DEF Watch, Recovers

(* A thread of a batch is at work only once the console is up.             *)
LEMMA WorkUp ==
    ASSUME ConsoleOk, ItemsInv, NEW b \in Batches, NEW c \in Cells, worker[b][c] # "gone"
    PROVE  console = "up" /\ batch[b].status \in {"running", "completed"}
BY DEF ConsoleOk, ItemsInv, ItemOk

(* A new row or a new process.                                             *)
LEMMA NewRunOk ==
    ASSUME TypeOK, NEW n \in Runs, NewRun(n), RunOk(n), console # "down",
           n \in managed' <=> n \in managed, n \in stale' <=> n \in stale, console' = console,
           \/ \E c \in Cells, by \in Batches \cup {"api", "orphan"} : run'[n] = Process(c, by)
           \/ \E c \in Cells : run'[n] = [NoRun EXCEPT !.cell = c, !.by = "report",
                                            !.row = "running", !.step = "registered"]
           \/ \E c \in Cells : run'[n] = [NoRun EXCEPT !.cell = c, !.by = "report",
                                            !.row = "queued", !.step = "queued"],
           RunAssumption
    PROVE  RunOk(n)'
<1>1. CASE \E c \in Cells, by \in Batches \cup {"api", "orphan"} : run'[n] = Process(c, by)
  <2>1. /\ run'[n].by # "report" /\ run'[n].row = "none" /\ run'[n].proc = "alive"
        /\ run'[n].step = "popen" /\ run'[n].watch = "none"
    BY <1>1 DEF Process, NoRun, RunAssumption, Others
  <2> QED  BY <2>1 DEF RunOk, NewRun, Final, Watching
<1>2. CASE \E c \in Cells : run'[n] = [NoRun EXCEPT !.cell = c, !.by = "report",
                                            !.row = "running", !.step = "registered"]
  <2>1. /\ run'[n].by = "report" /\ run'[n].row = "running" /\ run'[n].proc = "none"
        /\ run'[n].step = "registered" /\ run'[n].watch = "none"
    BY <1>2 DEF NoRun
  <2> QED  BY <2>1 DEF RunOk, NewRun, Final, Watching
<1>3. CASE \E c \in Cells : run'[n] = [NoRun EXCEPT !.cell = c, !.by = "report",
                                            !.row = "queued", !.step = "queued"]
  <2>1. /\ run'[n].by = "report" /\ run'[n].row = "queued" /\ run'[n].proc = "none"
        /\ run'[n].step = "queued" /\ run'[n].watch = "none"
    BY <1>3 DEF NoRun
  <2> QED  BY <2>1 DEF RunOk, NewRun, Final, Watching
<1> QED  BY <1>1, <1>2, <1>3

(* The steps that start a process or write a new row.                      *)
LEMMA Spawns ==
    ASSUME TypeOK, RunAssumption, ConsoleOk, ItemsInv,
           \/ \E c \in Cells : CreateRun(c) \/ GenerateRow(c) \/ GenerateQueue(c)
           \/ \E b \in Batches, c \in Cells : StartRun(b, c)
    PROVE  \E n \in Runs :
              /\ NewRun(n) /\ console # "down" /\ UNCHANGED <<managed, stale, heir, said, console>>
              /\ \A q \in Runs \ {n} : run'[q] = run[q]
              /\ \/ \E c \in Cells, by \in Batches \cup {"api", "orphan"} :
                       /\ run'[n] = Process(c, by)
                       /\ by \in Batches => StartRun(by, c)
                 \/ \E c \in Cells : run'[n] = [NoRun EXCEPT !.cell = c, !.by = "report",
                                                  !.row = "running", !.step = "registered"]
                 \/ \E c \in Cells : run'[n] = [NoRun EXCEPT !.cell = c, !.by = "report",
                                                  !.row = "queued", !.step = "queued"]
<1> USE DEF TypeOK, recovery
<1>1. ASSUME NEW c \in Cells, CreateRun(c)
      PROVE  \E n \in Runs :
              /\ NewRun(n) /\ console # "down" /\ UNCHANGED <<managed, stale, heir, said, console>>
              /\ \A q \in Runs \ {n} : run'[q] = run[q]
              /\ run'[n] = Process(c, "api")
  BY <1>1 DEF CreateRun, Popen
<1>2. ASSUME NEW c \in Cells, GenerateRow(c)
      PROVE  \E n \in Runs :
              /\ NewRun(n) /\ console # "down" /\ UNCHANGED <<managed, stale, heir, said, console>>
              /\ \A q \in Runs \ {n} : run'[q] = run[q]
              /\ run'[n] = [NoRun EXCEPT !.cell = c, !.by = "report",
                              !.row = "running", !.step = "registered"]
  BY <1>2 DEF GenerateRow, InsertReport
<1>3. ASSUME NEW c \in Cells, GenerateQueue(c)
      PROVE  \E n \in Runs :
              /\ NewRun(n) /\ console # "down" /\ UNCHANGED <<managed, stale, heir, said, console>>
              /\ \A q \in Runs \ {n} : run'[q] = run[q]
              /\ run'[n] = [NoRun EXCEPT !.cell = c, !.by = "report",
                              !.row = "queued", !.step = "queued"]
  BY <1>3 DEF GenerateQueue, InsertReport
<1>4. ASSUME NEW b \in Batches, NEW c \in Cells, StartRun(b, c)
      PROVE  \E n \in Runs :
              /\ NewRun(n) /\ console # "down" /\ UNCHANGED <<managed, stale, heir, said, console>>
              /\ \A q \in Runs \ {n} : run'[q] = run[q]
              /\ run'[n] = Process(c, b)
  <2>1. console = "up"
    BY <1>4, WorkUp DEF StartRun, At
  <2> QED  BY <1>4, <2>1 DEF StartRun, Popen
<1>5. "api" \notin Batches
  BY DEF RunAssumption, Others
<1> QED
  <2>1. CASE \E c \in Cells : CreateRun(c)
    <3>1. PICK c \in Cells : CreateRun(c)
      BY <2>1
    <3>2. PICK n \in Runs :
              /\ NewRun(n) /\ console # "down" /\ UNCHANGED <<managed, stale, heir, said, console>>
              /\ \A q \in Runs \ {n} : run'[q] = run[q]
              /\ run'[n] = Process(c, "api")
      BY <1>1, <3>1
    <3> QED  BY <1>5, <3>2
  <2>2. CASE \E c \in Cells : GenerateRow(c)
    <3>1. PICK c \in Cells : GenerateRow(c)
      BY <2>2
    <3>2. PICK n \in Runs :
              /\ NewRun(n) /\ console # "down" /\ UNCHANGED <<managed, stale, heir, said, console>>
              /\ \A q \in Runs \ {n} : run'[q] = run[q]
              /\ run'[n] = [NoRun EXCEPT !.cell = c, !.by = "report",
                              !.row = "running", !.step = "registered"]
      BY <1>2, <3>1
    <3> QED  BY <3>2
  <2>3. CASE \E c \in Cells : GenerateQueue(c)
    <3>1. PICK c \in Cells : GenerateQueue(c)
      BY <2>3
    <3>2. PICK n \in Runs :
              /\ NewRun(n) /\ console # "down" /\ UNCHANGED <<managed, stale, heir, said, console>>
              /\ \A q \in Runs \ {n} : run'[q] = run[q]
              /\ run'[n] = [NoRun EXCEPT !.cell = c, !.by = "report",
                              !.row = "queued", !.step = "queued"]
      BY <1>3, <3>1
    <3> QED  BY <3>2
  <2>4. CASE \E b \in Batches, c \in Cells : StartRun(b, c)
    <3>1. PICK b \in Batches, c \in Cells : StartRun(b, c)
      BY <2>4
    <3>2. PICK n \in Runs :
              /\ NewRun(n) /\ console # "down" /\ UNCHANGED <<managed, stale, heir, said, console>>
              /\ \A q \in Runs \ {n} : run'[q] = run[q]
              /\ run'[n] = Process(c, b)
      BY <1>4, <3>1
    <3> QED  BY <3>1, <3>2
  <2> QED  BY <2>1, <2>2, <2>3, <2>4

(* The steps that neither touch a run nor what its row depends on.         *)
RunsQuiet == UNCHANGED <<run, managed, stale, heir, said, console>>

LEMMA QuietSteps ==
    /\ \A b \in Batches, cells \in Requests : PostBatch(b, cells) => RunsQuiet
    /\ \A b, new \in Batches : ResumeBatch(b, new) => RunsQuiet
    /\ \A b \in Batches : CompleteBatch(b) \/ CancelWrite(b) \/ RestoreBatch(b) => RunsQuiet
    /\ \A b \in Batches, c \in Cells :
          WaitTooLong(b, c) \/ (Work(b, c) /\ ~StartRun(b, c)) => RunsQuiet
BY DEF RunsQuiet, recovery, PostBatch, ResumeBatch, StartBatch, CompleteBatch, CancelWrite,
       RestoreBatch, WaitTooLong, Work, ItemCancelledQueued, AcquireSampling, AttachOrReject,
       AcquireSemaphore, DiskCancelled, DiskExhausted, MarkRunning, NoSlot, Quit, PublishRunId,
       WaitForRun, JudgeRun

LEMMA RunsStep ==
    ASSUME TypeOK, RunAssumption, RunsInv, ConsoleOk, ItemsInv, Next
    PROVE  RunsInv'
<1> SUFFICES ASSUME NEW q \in Runs PROVE RunOk(q)'
  BY DEF RunsInv
<1>0. RunOk(q) /\ run[q] \in RunState /\ DOMAIN run = Runs
  BY DEF RunsInv, TypeOK
<1>1. ASSUME NEW r \in Runs,
             AnalyzerExit(r) \/ Watch(r) \/ RegisterRun(r) \/ GenerateStart(r) \/ GenerateEnd(r)
               \/ CancelRun(r) \/ DeleteRun(r) \/ Recovers(r)
      PROVE  RunOk(q)'
  <2>1. CASE q = r  BY <1>0, <1>1, <2>1, OwnRun
  <2>2. CASE q # r  BY <1>0, <1>1, <2>2, OtherRuns, RunStill
  <2> QED  BY <2>1, <2>2
<1>2. ASSUME NEW r \in Runs, RecoverSpawn(r) PROVE RunOk(q)'
  <2>1. PICK n \in Runs : NewRun(n) /\ run' = [run EXCEPT ![n] = Process(run[r].cell, "orphan")]
    BY <1>2 DEF RecoverSpawn
  <2>2. UNCHANGED <<managed, stale, console, said>> /\ console = "recover" /\ run[r].cell \in Cells
    BY <1>2 DEF RecoverSpawn, Treated, TypeOK, RunState
  <2>3. CASE q = n  BY <1>0, <2>1, <2>2, <2>3, NewRunOk
  <2>4. CASE q # n  BY <1>0, <2>1, <2>2, <2>4, RunStill
  <2> QED  BY <2>3, <2>4
<1>10. ASSUME NEW r \in Runs, RecoverSpawnRaises(r) PROVE RunOk(q)'
  <2>1. /\ Orphan(r) /\ heir \in Runs /\ heir # None /\ run[heir].step = "popen"
        /\ run' = [run EXCEPT ![r] = [run[r] EXCEPT !.row = "failed"],
                              ![heir] = [run[heir] EXCEPT !.step = "past"]]
        /\ stale' = stale \ {r} /\ UNCHANGED <<managed, console, said>>
    <3>1. run[r].step = "past"
      BY <1>10 DEF RecoverSpawnRaises, Orphan, RunsInv, RunOk
    <3> QED  BY <1>10, <3>1 DEF RecoverSpawnRaises, TypeOK
  <2>2. r # heir /\ RunOk(r)
    BY <2>1 DEF Orphan, RunsInv, RunOk
  <2>3. CASE q = r
    <3>1. /\ run'[q].row = "failed" /\ run'[q].by = run[q].by /\ run'[q].proc = run[q].proc
          /\ run'[q].step = run[q].step /\ run'[q].watch = run[q].watch
      BY <1>0, <2>1, <2>2, <2>3 DEF RunState
    <3>2. q \in stale /\ (HasPid(q) => said[q] # "nothing")
      BY <2>1, <2>3 DEF ConsoleOk, Orphan
    <3> QED  BY <1>0, <2>1, <2>3, <3>1, <3>2 DEF RunOk, HasPid, Final
  <2>4. CASE q = heir
    <3>1. /\ run'[q].row = run[q].row /\ run'[q].by = run[q].by /\ run'[q].proc = run[q].proc
          /\ run'[q].step = "past" /\ run'[q].watch = run[q].watch
      BY <1>0, <2>1, <2>2, <2>4 DEF RunState
    <3> QED  BY <1>0, <2>1, <2>2, <2>4, <3>1 DEF RunOk
  <2>5. CASE q # r /\ q # heir
    BY <1>0, <2>1, <2>5, RunStill
  <2> QED  BY <2>3, <2>4, <2>5
<1>3. ASSUME \/ \E c \in Cells : CreateRun(c) \/ GenerateRow(c) \/ GenerateQueue(c)
             \/ \E b \in Batches, c \in Cells : StartRun(b, c)
      PROVE  RunOk(q)'
  <2>1. PICK n \in Runs :
              /\ NewRun(n) /\ console # "down" /\ UNCHANGED <<managed, stale, heir, said, console>>
              /\ \A x \in Runs \ {n} : run'[x] = run[x]
              /\ \/ \E c \in Cells, by \in Batches \cup {"api", "orphan"} : run'[n] = Process(c, by)
                 \/ \E c \in Cells : run'[n] = [NoRun EXCEPT !.cell = c, !.by = "report",
                                                  !.row = "running", !.step = "registered"]
                 \/ \E c \in Cells : run'[n] = [NoRun EXCEPT !.cell = c, !.by = "report",
                                                  !.row = "queued", !.step = "queued"]
    BY <1>3, Spawns
  <2>2. CASE q = n  BY <1>0, <2>1, <2>2, NewRunOk
  <2>3. CASE q # n  BY <1>0, <2>1, <2>3, RunStill
  <2> QED  BY <2>2, <2>3
<1>4. ASSUME NEW b \in Batches, NEW c \in Cells, StartRunRaises(b, c) PROVE RunOk(q)'
  <2>1. /\ UNCHANGED <<managed, stale, console, said>>
        /\ \/ run' = run
           \/ \E r \in Runs : /\ run[r].step = "popen"
                              /\ run' = [run EXCEPT ![r] = [run[r] EXCEPT !.step = "past"]]
    BY <1>4 DEF StartRunRaises, RunOf, recovery
  <2>2. CASE run'[q] = run[q]  BY <1>0, <2>1, <2>2, RunStill
  <2>3. CASE run[q].step = "popen" /\ run'[q] = [run[q] EXCEPT !.step = "past"]
    <3>1. /\ run'[q].row = run[q].row /\ run'[q].by = run[q].by /\ run'[q].proc = run[q].proc
          /\ run'[q].step = "past" /\ run'[q].watch = run[q].watch
      BY <1>0, <2>3 DEF RunState
    <3> QED  BY <1>0, <2>1, <2>3, <3>1 DEF RunOk
  <2> QED  BY <1>0, <2>1, <2>2, <2>3
<1>5. ASSUME NEW b \in Batches, CancelBatch(b) PROVE RunOk(q)'
  <2>1. /\ UNCHANGED <<managed, stale, console, said>>
        /\ run'[q] = IF q \in Published(b) THEN Killed(run[q]) ELSE run[q]
    BY <1>5 DEF CancelBatch, recovery
  <2>2. CASE q \in Published(b)
    <3>1. /\ run'[q].row = run[q].row /\ run'[q].by = run[q].by /\ run'[q].proc = "done"
          /\ run'[q].step = run[q].step /\ run'[q].watch = run[q].watch
      BY <1>0, <2>1, <2>2 DEF Killed, RunState
    <3>2. q \in managed
      BY <2>2 DEF Published
    <3> QED  BY <1>0, <2>1, <3>1, <3>2 DEF RunOk
  <2>3. CASE q \notin Published(b)  BY <1>0, <2>1, <2>3, RunStill
  <2> QED  BY <2>2, <2>3
<1>6. CASE Crash
  <2>1. /\ run'[q].row = run[q].row /\ run'[q].by = run[q].by /\ run'[q].proc = run[q].proc
        /\ run'[q].step = (IF run[q].step = "unused" THEN "unused" ELSE "past")
        /\ run'[q].watch = "none"
    BY <1>0, <1>6 DEF Crash, RunState
  <2>2. /\ console' = "down" /\ managed' = {} /\ stale' = {}
        /\ said'[q] = IF q \in stale THEN "nothing" ELSE said[q]
    BY <1>6 DEF Crash
  <2> QED  BY <1>0, <2>1, <2>2 DEF RunOk, Watching
<1>7. CASE Boot
  <2>1. /\ run' = run /\ managed' = managed /\ console = "down" /\ console' = "recover" /\ said' = said
        /\ q \in stale' <=> run[q].row = "running"
    BY <1>7 DEF Boot
  <2>2. q \notin stale
    BY <2>1 DEF ConsoleOk
  <2> QED  BY <1>0, <2>1, <2>2 DEF RunOk
<1>8. CASE StartupDone
  BY <1>0, <1>8 DEF StartupDone, RunOk
<1>9. CASE RunsQuiet
  BY <1>0, <1>9, RunStill DEF RunsQuiet
<1> QED
  <2>1. ASSUME NEW b \in Batches, NEW c \in Cells, Work(b, c) PROVE RunOk(q)'
    <3>1. CASE StartRun(b, c)  BY <1>3, <3>1
    <3>2. CASE ~StartRun(b, c)  BY <2>1, <3>2, <1>9, QuietSteps
    <3> QED  BY <3>1, <3>2
  <2>2. ASSUME NEW c \in Cells, CreateRun(c) \/ GenerateRow(c) \/ GenerateQueue(c) PROVE RunOk(q)'
    BY <1>3, <2>2
  <2> QED  BY <1>1, <1>2, <1>4, <1>5, <1>6, <1>7, <1>8, <1>9, <1>10, <2>1, <2>2, QuietSteps
           DEF Next, Startup, Recovers

----------------------------------------------------------------------------
(* What a step may make of a run that is there already, and of a new one.  *)

Evolved(q) ==
    /\ run'[q].by = run[q].by /\ run'[q].cell = run[q].cell
    /\ run'[q].proc = "alive" => run[q].proc = "alive"
    /\ run'[q].step = "popen" => run[q].step = "popen"
    /\ run'[q].step = "registered" /\ run[q].by \in Batches =>
          run[q].step \in {"popen", "registered"}
    /\ run[q].by \in Batches /\ run[q].row \in {"completed", "deleted"} =>
          run'[q].row \in {"completed", "deleted"}

Born(q) ==
    /\ NewRun(q) /\ run'[q].cell \in Cells
    /\ \/ run'[q].by \in Others
       \/ /\ run'[q].by \in Batches /\ run'[q].step = "popen"
          /\ StartRun(run'[q].by, run'[q].cell)

LEMMA OwnEvolves ==
    ASSUME TypeOK, RunAssumption, NEW r \in Runs, RunOk(r),
           AnalyzerExit(r) \/ Watch(r) \/ RegisterRun(r) \/ GenerateStart(r) \/ GenerateEnd(r)
             \/ CancelRun(r) \/ DeleteRun(r) \/ Recovers(r)
    PROVE  Evolved(r)
<1>0. run[r] \in RunState /\ run \in [Runs -> RunState] /\ "report" \notin Batches
  BY DEF TypeOK, RunAssumption, Others
<1> USE DEF RunOk, RunState, Final, Watching, Evolved
<1>1. CASE AnalyzerExit(r)  BY <1>0, <1>1, Edits
<1>2. CASE WatchFailed(r)  BY <1>0, <1>2 DEF WatchFailed, UpdateRun
<1>3. CASE WatchNoSpins(r)  BY <1>0, <1>3 DEF WatchNoSpins, UpdateRun
<1>4. CASE WatchIndex(r)  BY <1>0, <1>4 DEF WatchIndex
<1>5. CASE WatchFinal(r)  BY <1>0, <1>5 DEF WatchFinal, UpdateRun
<1>6. CASE WatchPop(r)  BY <1>0, <1>6 DEF WatchPop
<1>7. CASE RegisterRun(r)  BY <1>0, <1>7 DEF RegisterRun
<1>8. CASE GenerateStart(r)
  <2>1. run[r].step = "queued"
    BY <1>8 DEF GenerateStart
  <2> QED  BY <1>0, <1>8, <2>1, Edits
<1>9. CASE GenerateEnd(r)  BY <1>0, <1>9 DEF GenerateEnd, UpdateRun
<1>10. CASE CancelRun(r)  BY <1>0, <1>10, Edits
<1>11. CASE DeleteRun(r)  BY <1>0, <1>11 DEF DeleteRun
<1>12. CASE TerminateOrphan(r)  BY <1>0, <1>12 DEF TerminateOrphan
<1>13. CASE RecoverOwned(r) \/ RecoverNoSpawn(r) \/ RecoverMarkFailed(r)
  <2>1. SettleOrphan(r) /\ r \in stale
    BY <1>13 DEF RecoverOwned, RecoverNoSpawn, RecoverMarkFailed, Treated, Orphan
  <2> QED  BY <1>0, <2>1 DEF SettleOrphan
<1> QED  BY <1>1, <1>2, <1>3, <1>4, <1>5, <1>6, <1>7, <1>8, <1>9, <1>10, <1>11, <1>12, <1>13
            DEF Watch, Recovers

LEMMA RunsEvolve ==
    ASSUME TypeOK, RunAssumption, RunsInv, ConsoleOk, ItemsInv, Next
    PROVE  \A q \in Runs : Evolved(q) \/ Born(q)
<1> SUFFICES ASSUME NEW q \in Runs PROVE Evolved(q) \/ Born(q)
  OBVIOUS
<1>0. RunOk(q) /\ run[q] \in RunState /\ DOMAIN run = Runs
  BY DEF RunsInv, TypeOK
<1>still. ASSUME run'[q] = run[q] PROVE Evolved(q)
  BY <1>still DEF Evolved
<1>kept. ASSUME run'[q].row = run[q].row, run'[q].by = run[q].by, run'[q].cell = run[q].cell,
                run'[q].proc \in {run[q].proc, "done"}, run'[q].step \in {run[q].step, "past"}
         PROVE  Evolved(q)
  BY <1>kept DEF Evolved
<1>1. ASSUME NEW r \in Runs,
             AnalyzerExit(r) \/ Watch(r) \/ RegisterRun(r) \/ GenerateStart(r) \/ GenerateEnd(r)
               \/ CancelRun(r) \/ DeleteRun(r) \/ Recovers(r)
      PROVE  Evolved(q)
  <2>1. CASE q = r  BY <1>0, <1>1, <2>1, OwnEvolves
  <2>2. CASE q # r  BY <1>1, <2>2, <1>still, OtherRuns
  <2> QED  BY <2>1, <2>2
<1>2. ASSUME NEW r \in Runs, RecoverSpawn(r) PROVE Evolved(q) \/ Born(q)
  <2>1. PICK n \in Runs : NewRun(n) /\ run' = [run EXCEPT ![n] = Process(run[r].cell, "orphan")]
    BY <1>2 DEF RecoverSpawn
  <2>2. run[r].cell \in Cells
    BY DEF TypeOK, RunState
  <2>3. CASE q = n
    <3>1. run'[q].by = "orphan" /\ run'[q].cell = run[r].cell
      BY <1>0, <2>1, <2>3 DEF Process, NoRun
    <3> QED  BY <2>1, <2>2, <2>3, <3>1 DEF Born, Others
  <2>4. CASE q # n  BY <1>0, <2>1, <2>4, <1>still
  <2> QED  BY <2>3, <2>4
<1>8. ASSUME NEW r \in Runs, RecoverSpawnRaises(r) PROVE Evolved(q)
  <2>1. /\ run[r].row = "running" /\ heir \in Runs /\ run[heir].step = "popen" /\ r # heir
    BY <1>8 DEF RecoverSpawnRaises, Orphan, RunsInv, RunOk, TypeOK
  <2>2. run' = [run EXCEPT ![r] = [run[r] EXCEPT !.row = "failed"],
                          ![heir] = [run[heir] EXCEPT !.step = "past"]]
    BY <1>8, <2>1 DEF RecoverSpawnRaises
  <2>3. CASE q = r
    <3>1. /\ run'[q].by = run[q].by /\ run'[q].cell = run[q].cell /\ run'[q].proc = run[q].proc
          /\ run'[q].step = run[q].step
      BY <1>0, <2>1, <2>2, <2>3 DEF RunState
    <3>2. run[q].step = "past"
      BY <1>8, <2>3 DEF RecoverSpawnRaises, Orphan, RunsInv, RunOk
    <3> QED  BY <2>1, <2>3, <3>1, <3>2 DEF Evolved
  <2>4. CASE q = heir
    <3>1. /\ run'[q].row = run[q].row /\ run'[q].by = run[q].by /\ run'[q].proc = run[q].proc
          /\ run'[q].step = "past" /\ run'[q].cell = run[q].cell
      BY <1>0, <2>1, <2>2, <2>4 DEF RunState
    <3> QED  BY <1>kept, <3>1
  <2>5. CASE q # r /\ q # heir
    BY <1>0, <2>2, <2>5, <1>still
  <2> QED  BY <2>3, <2>4, <2>5
<1>3. ASSUME \/ \E c \in Cells : CreateRun(c) \/ GenerateRow(c) \/ GenerateQueue(c)
             \/ \E b \in Batches, c \in Cells : StartRun(b, c)
      PROVE  Evolved(q) \/ Born(q)
  <2>1. PICK n \in Runs :
              /\ NewRun(n) /\ \A x \in Runs \ {n} : run'[x] = run[x]
              /\ \/ \E c \in Cells, by \in Batches \cup {"api", "orphan"} :
                       run'[n] = Process(c, by) /\ (by \in Batches => StartRun(by, c))
                 \/ \E c \in Cells : run'[n] = [NoRun EXCEPT !.cell = c, !.by = "report",
                                                  !.row = "running", !.step = "registered"]
                 \/ \E c \in Cells : run'[n] = [NoRun EXCEPT !.cell = c, !.by = "report",
                                                  !.row = "queued", !.step = "queued"]
    BY <1>3, Spawns
  <2>2. CASE q = n /\ \E c \in Cells, by \in Batches \cup {"api", "orphan"} :
                         run'[n] = Process(c, by) /\ (by \in Batches => StartRun(by, c))
    <3>1. PICK c \in Cells, by \in Batches \cup {"api", "orphan"} :
                         run'[n] = Process(c, by) /\ (by \in Batches => StartRun(by, c))
      BY <2>2
    <3>2. run'[n].by = by /\ run'[n].cell = c /\ run'[n].step = "popen"
      BY <3>1 DEF Process, NoRun
    <3> QED  BY <2>1, <2>2, <3>1, <3>2 DEF Born, Others
  <2>3. CASE q = n /\ run'[n].by = "report" /\ run'[n].cell \in Cells
    BY <2>1, <2>3 DEF Born, Others
  <2>4. CASE \E c \in Cells : run'[n] = [NoRun EXCEPT !.cell = c, !.by = "report",
                                                  !.row = "running", !.step = "registered"]
    <3>1. run'[n].by = "report" /\ run'[n].cell \in Cells
      BY <2>4 DEF NoRun
    <3> QED  BY <2>1, <2>3, <3>1, <1>still
  <2>5. CASE \E c \in Cells : run'[n] = [NoRun EXCEPT !.cell = c, !.by = "report",
                                                  !.row = "queued", !.step = "queued"]
    <3>1. run'[n].by = "report" /\ run'[n].cell \in Cells
      BY <2>5 DEF NoRun
    <3> QED  BY <2>1, <2>3, <3>1, <1>still
  <2>6. CASE q # n  BY <2>1, <2>6, <1>still
  <2> QED  BY <2>1, <2>2, <2>4, <2>5, <2>6
<1>4. ASSUME NEW b \in Batches, NEW c \in Cells, StartRunRaises(b, c) PROVE Evolved(q)
  <2>1. \/ run' = run
        \/ \E r \in Runs : run' = [run EXCEPT ![r] = [run[r] EXCEPT !.step = "past"]]
    BY <1>4 DEF StartRunRaises, RunOf
  <2>2. CASE run'[q] = run[q]  BY <2>2, <1>still
  <2>3. CASE run'[q] = [run[q] EXCEPT !.step = "past"]
    <3>1. /\ run'[q].row = run[q].row /\ run'[q].by = run[q].by /\ run'[q].proc = run[q].proc
          /\ run'[q].step = "past" /\ run'[q].cell = run[q].cell
      BY <1>0, <2>3 DEF RunState
    <3> QED  BY <1>kept, <3>1
  <2> QED  BY <1>0, <2>1, <2>2, <2>3
<1>5. ASSUME NEW b \in Batches, CancelBatch(b) PROVE Evolved(q)
  <2>1. run'[q] = IF q \in Published(b) THEN Killed(run[q]) ELSE run[q]
    BY <1>5 DEF CancelBatch
  <2>2. CASE q \in Published(b)
    <3>1. /\ run'[q].row = run[q].row /\ run'[q].by = run[q].by /\ run'[q].proc = "done"
          /\ run'[q].step = run[q].step /\ run'[q].cell = run[q].cell
      BY <1>0, <2>1, <2>2 DEF Killed, RunState
    <3> QED  BY <1>kept, <3>1
  <2>3. CASE q \notin Published(b)  BY <2>1, <2>3, <1>still
  <2> QED  BY <2>2, <2>3
<1>6. CASE Crash
  <2>1. /\ run'[q].row = run[q].row /\ run'[q].by = run[q].by /\ run'[q].proc = run[q].proc
        /\ run'[q].step \in {run[q].step, "past"} /\ run'[q].cell = run[q].cell
    BY <1>0, <1>6 DEF Crash, RunState
  <2> QED  BY <1>kept, <2>1
<1>7. CASE Boot \/ StartupDone \/ RunsQuiet
  BY <1>7, <1>still DEF Boot, StartupDone, RunsQuiet
<1> QED
  <2>1. ASSUME NEW b \in Batches, NEW c \in Cells, Work(b, c) PROVE Evolved(q) \/ Born(q)
    <3>1. CASE StartRun(b, c)  BY <1>3, <3>1
    <3>2. CASE ~StartRun(b, c)  BY <2>1, <3>2, <1>7, QuietSteps
    <3> QED  BY <3>1, <3>2
  <2>2. ASSUME NEW c \in Cells, CreateRun(c) \/ GenerateRow(c) \/ GenerateQueue(c)
        PROVE  Evolved(q) \/ Born(q)
    BY <1>3, <2>2
  <2> QED  BY <1>1, <1>2, <1>4, <1>5, <1>6, <1>7, <1>8, <2>1, <2>2, QuietSteps DEF Next, Startup, Recovers

----------------------------------------------------------------------------
(* What a step of the thread of one item may touch.                        *)
Touch(b, c) ==
    /\ UNCHANGED <<managed, console, stale, heir, said, snap>>
    /\ \A x \in Batches : batch'[x].status = batch[x].status
    /\ \A x \in Batches, y \in Cells : x # b \/ y # c =>
          worker'[x][y] = worker[x][y] /\ batch'[x].item[y] = batch[x].item[y]
    /\ \A y \in Cells \ {c} : lock'[y] = lock[y]
    /\ \/ lock'[c] = lock[c]
       \/ lock[c] = b /\ lock'[c] = None
       \/ lock[c] = None /\ lock'[c] = b
    /\ copy' = copy \/ Persist(b)

LEMMA ItemTypes ==
    ASSUME TypeOK, NEW b \in Batches, NEW c \in Cells
    PROVE  /\ \A s : SetItem(b, c, s) =>
                /\ \A x \in Batches : batch'[x].status = batch[x].status
                /\ \A x \in Batches, y \in Cells : x # b \/ y # c =>
                      batch'[x].item[y] = batch[x].item[y]
                /\ batch'[b].item[c] = s
           /\ \A pc : Go(b, c, pc) =>
                /\ \A x \in Batches, y \in Cells : x # b \/ y # c => worker'[x][y] = worker[x][y]
                /\ worker'[b][c] = pc
           /\ \A s : Leave(b, c, s) =>
                /\ SetItem(b, c, s) /\ Go(b, c, "over")
                /\ \A y \in Cells \ {c} : lock'[y] = lock[y]
                /\ lock'[c] = IF lock[c] = b THEN None ELSE lock[c]
<1>1. ASSUME NEW s, SetItem(b, c, s)
      PROVE  /\ \A x \in Batches : batch'[x].status = batch[x].status
             /\ \A x \in Batches, y \in Cells : x # b \/ y # c =>
                   batch'[x].item[y] = batch[x].item[y]
             /\ batch'[b].item[c] = s
  BY <1>1 DEF SetItem, TypeOK, Items
<1>2. ASSUME NEW pc, Go(b, c, pc)
      PROVE  /\ \A x \in Batches, y \in Cells : x # b \/ y # c => worker'[x][y] = worker[x][y]
             /\ worker'[b][c] = pc
  BY <1>2 DEF Go, TypeOK
<1>3. ASSUME NEW s, Leave(b, c, s)
      PROVE  /\ SetItem(b, c, s) /\ Go(b, c, "over")
             /\ \A y \in Cells \ {c} : lock'[y] = lock[y]
             /\ lock'[c] = IF lock[c] = b THEN None ELSE lock[c]
  BY <1>3 DEF Leave, TypeOK
<1> QED  BY <1>1, <1>2, <1>3

LEMMA WorkTouches ==
    ASSUME TypeOK, NEW b \in Batches, NEW c \in Cells,
           Work(b, c) \/ StartRunRaises(b, c) \/ WaitTooLong(b, c)
    PROVE  Touch(b, c)
<1> USE DEF TypeOK, recovery, Touch
<1>1. CASE ItemCancelledQueued(b, c)  BY <1>1, ItemTypes DEF ItemCancelledQueued
<1>2. CASE AcquireSampling(b, c)  BY <1>2, ItemTypes DEF AcquireSampling
<1>3. CASE AttachOrReject(b, c)  BY <1>3, ItemTypes DEF AttachOrReject
<1>4. CASE AcquireSemaphore(b, c)  BY <1>4, ItemTypes DEF AcquireSemaphore
<1>5. CASE DiskCancelled(b, c) \/ DiskExhausted(b, c) \/ NoSlot(b, c)
  BY <1>5, ItemTypes DEF DiskCancelled, DiskExhausted, NoSlot, Quit
<1>6. CASE MarkRunning(b, c)  BY <1>6, ItemTypes DEF MarkRunning
<1>7. CASE StartRun(b, c)  BY <1>7, ItemTypes DEF StartRun
<1>8. CASE PublishRunId(b, c)  BY <1>8, ItemTypes DEF PublishRunId
<1>9. CASE WaitForRun(b, c)  BY <1>9, ItemTypes DEF WaitForRun
<1>10. CASE JudgeRun(b, c)  BY <1>10, ItemTypes DEF JudgeRun
<1>11. CASE StartRunRaises(b, c)  BY <1>11, ItemTypes DEF StartRunRaises
<1>12. CASE WaitTooLong(b, c)  BY <1>12, ItemTypes DEF WaitTooLong
<1> QED  BY <1>1, <1>2, <1>3, <1>4, <1>5, <1>6, <1>7, <1>8, <1>9, <1>10, <1>11, <1>12 DEF Work

(* The steps that leave the batches, their copies, threads and locks alone.*)
LEMMA MemoryQuiet ==
    ASSUME \/ \E r \in Runs : \/ AnalyzerExit(r) \/ Watch(r) \/ RegisterRun(r) \/ GenerateStart(r)
                              \/ GenerateEnd(r) \/ CancelRun(r) \/ DeleteRun(r)
           \/ \E c \in Cells : CreateRun(c) \/ GenerateRow(c) \/ GenerateQueue(c)
    PROVE  UNCHANGED memory /\ UNCHANGED recovery
BY DEF AnalyzerExit, Watch, WatchFailed, WatchNoSpins, WatchIndex, WatchFinal, WatchPop,
       RegisterRun, GenerateStart, GenerateEnd, CancelRun, DeleteRun, CreateRun, GenerateRow,
       GenerateQueue

LEMMA ConsoleStep ==
    ASSUME TypeOK, RunAssumption, RunsInv, ConsoleOk, ItemsInv, Next
    PROVE  ConsoleOk'
<1> DEFINE Four == (heir # None => \A r \in Runs : Orphan(r) /\ HasPid(r) => said[r] # "nothing")'
<1>four. ASSUME UNCHANGED <<stale, heir, said>> PROVE Four
  <2> SUFFICES ASSUME heir' # None, NEW r \in Runs, Orphan(r)', HasPid(r)' PROVE said'[r] # "nothing"
    OBVIOUS
  <2>0. heir # None /\ Orphan(r)
    BY <1>four DEF Orphan
  <2>1. run[r].step = "past"
    BY <2>0 DEF RunsInv, RunOk, Orphan
  <2>2. Evolved(r)
    BY <2>1, RunsEvolve DEF Born, NewRun
  <2>3. HasPid(r)
    BY <2>2 DEF Evolved, HasPid
  <2> QED  BY <1>four, <2>0, <2>3 DEF ConsoleOk
<1>1. CASE UNCHANGED memory /\ UNCHANGED recovery
  BY <1>1, <1>four DEF ConsoleOk, memory, recovery
<1>2. ASSUME NEW b \in Batches, NEW c \in Cells,
             Work(b, c) \/ StartRunRaises(b, c) \/ WaitTooLong(b, c)
      PROVE  ConsoleOk'
  <2>1. Touch(b, c)
    BY <1>2, WorkTouches
  <2> QED  BY <2>1, <1>four DEF ConsoleOk, Touch
<1>3. ASSUME NEW b \in Batches, NEW cells, StartBatch(b, cells) PROVE ConsoleOk'
  BY <1>3, <1>four DEF ConsoleOk, StartBatch, recovery
<1>4. ASSUME NEW b \in Batches, CompleteBatch(b) \/ CancelBatch(b) \/ CancelWrite(b) \/ RestoreBatch(b)
      PROVE  ConsoleOk'
  <2>1. UNCHANGED <<console, stale, heir, said>>
    BY <1>4 DEF CompleteBatch, CancelBatch, CancelWrite, RestoreBatch, recovery
  <2>2. ASSUME console # "up", NEW x \in Batches PROVE batch'[x].status \in {"none", "cancelled"}
    <3>0. \A y \in Batches : batch[y].status \in {"none", "cancelled"}
      BY <2>2 DEF ConsoleOk
    <3>1. CASE CompleteBatch(b)  BY <3>0, <3>1 DEF CompleteBatch
    <3>2. CASE CancelBatch(b)  BY <3>0, <3>2 DEF CancelBatch, TypeOK
    <3>3. CASE CancelWrite(b)  BY <3>0, <3>3 DEF CancelWrite
    <3>4. CASE RestoreBatch(b)  BY <3>0, <3>4 DEF RestoreBatch, TypeOK
    <3> QED  BY <1>4, <3>1, <3>2, <3>3, <3>4
  <2> QED  BY <2>1, <2>2, <1>four DEF ConsoleOk
<1>5. CASE Crash
  BY <1>5 DEF Crash, ConsoleOk, NoBatch
<1>8. CASE Boot
  <2>1. console = "down" /\ console' = "recover" /\ UNCHANGED <<heir, batch>>
    BY <1>8 DEF Boot, memory
  <2>2. heir = None /\ \A b \in Batches : batch[b].status \in {"none", "cancelled"}
    BY <2>1 DEF ConsoleOk
  <2> QED  BY <2>1, <2>2 DEF ConsoleOk
<1>9. CASE StartupDone
  BY <1>9, <1>four DEF StartupDone, ConsoleOk
<1>6. ASSUME NEW r \in Runs, Recovers(r) \/ RecoverSpawnRaises(r) PROVE ConsoleOk'
  <2>1. heir' = None /\ UNCHANGED <<console, batch>> /\ console = "recover"
    BY <1>6 DEF Recovers, TerminateOrphan, RecoverOwned, RecoverNoSpawn, RecoverMarkFailed,
                SettleOrphan, RecoverSpawnRaises, Treated, ConsoleOk, memory, Orphan
  <2> QED  BY <2>1 DEF ConsoleOk
<1>7. ASSUME NEW r \in Runs, RecoverSpawn(r) PROVE ConsoleOk'
  <2>1. PICK n \in Runs : NewRun(n) /\ run' = [run EXCEPT ![n] = Process(run[r].cell, "orphan")]
    BY <1>7 DEF RecoverSpawn
  <2>2. /\ Orphan(r) /\ UNCHANGED <<console, stale, said, memory>> /\ console = "recover" /\ stale # {}
        /\ HasPid(r) => said[r] # "nothing"
    BY <1>7 DEF RecoverSpawn, Treated, Orphan
  <2>3. run[r].step = "past" /\ r # n /\ run'[r] = run[r]
    BY <2>1, <2>2 DEF Orphan, RunsInv, RunOk, NewRun
  <2>4. ASSUME NEW x \in Runs, Orphan(x) PROVE x = r
    BY <2>2, <2>4 DEF Orphan, Runs, RunAssumption
  <2> QED  BY <2>2, <2>3, <2>4 DEF ConsoleOk, Orphan, HasPid, memory
<1> QED
  <2>1. ASSUME NEW b \in Batches,
               (\E cells \in Requests : PostBatch(b, cells)) \/ \E new \in Batches : ResumeBatch(b, new)
        PROVE  ConsoleOk'
    BY <2>1, <1>3 DEF PostBatch, ResumeBatch
  <2> QED  BY <1>1, <1>2, <1>4, <1>5, <1>6, <1>7, <1>8, <1>9, <2>1, MemoryQuiet
           DEF Next, Startup, Recovers

(* The thread of an item at work, and the status its batch keeps.          *)
LEMMA AtWork ==
    ASSUME TypeOK, ConsoleOk, ItemsInv, SpanInv, NEW b \in Batches, NEW c \in Cells,
           Work(b, c) \/ StartRunRaises(b, c) \/ WaitTooLong(b, c)
    PROVE  /\ worker[b][c] \in Places \ {"gone", "over"}
           /\ console = "up" /\ batch[b].status \in {"running", "completed"}
           /\ copy' = copy \/ copy'[b].status = batch[b].status
           /\ \A x \in Batches \ {b} : copy'[x] = copy[x]
<1>1. worker[b][c] \in Places \ {"gone", "over"}
  <2>1. CASE Work(b, c) \/ WaitTooLong(b, c) \/ At(b, c, "slot")
    BY <2>1 DEF Work, ItemCancelledQueued, AcquireSampling, AttachOrReject, AcquireSemaphore,
                DiskCancelled, DiskExhausted, MarkRunning, NoSlot, StartRun, PublishRunId,
                WaitForRun, JudgeRun, WaitTooLong, At, Places
  <2>2. CASE \E r \in RunOf(b, c) : run[r].step = "popen"
    BY <2>2 DEF RunOf, SpanInv, SpanOk, Places
  <2> QED  BY <2>1, <2>2 DEF StartRunRaises
<1>2. Touch(b, c)
  BY WorkTouches
<1> QED  BY <1>1, <1>2, WorkUp DEF Touch, Persist, Copied, TypeOK

----------------------------------------------------------------------------
(* A batch id that was used stays in the table.                            *)
LEMMA BatchesStep ==
    ASSUME TypeOK, RunAssumption, ConsoleOk, BatchesInv, ItemsInv, SpanInv, Next
    PROVE  BatchesInv'
<1> SUFFICES ASSUME NEW x \in Batches PROVE BatchOk(x)'
  BY DEF BatchesInv
<1>0. BatchOk(x)
  BY DEF BatchesInv
<1> USE DEF BatchOk, TypeOK
<1>1. CASE UNCHANGED memory
  BY <1>0, <1>1 DEF memory
<1>2. ASSUME NEW b \in Batches, NEW c \in Cells,
             Work(b, c) \/ StartRunRaises(b, c) \/ WaitTooLong(b, c)
      PROVE  BatchOk(x)'
  <2>1. snap' = snap /\ batch'[x].status = batch[x].status
    BY <1>2, WorkTouches DEF Touch
  <2>2. /\ batch[b].status # "none"
        /\ copy' = copy \/ copy'[b].status = batch[b].status
        /\ x # b => copy'[x] = copy[x]
    BY <1>2, AtWork
  <2> QED  BY <1>0, <2>1, <2>2
<1>3. ASSUME NEW b \in Batches, NEW cells, StartBatch(b, cells) PROVE BatchOk(x)'
  <2>1. b \in FreshIds
    BY <1>3 DEF StartBatch
  <2>2. /\ batch' = [batch EXCEPT ![b] = [status |-> "running", cancel |-> FALSE,
                       item |-> [c \in Cells |-> IF c \in cells THEN "pending" ELSE "absent"]]]
        /\ copy' = [copy EXCEPT ![b] = Copied(b)] /\ snap' = snap
    BY <1>3 DEF StartBatch, Persist
  <2>3. batch[b].status = "none"
    BY <2>1 DEF FreshIds, NoBatch
  <2>4. CASE x = b
    <3>1. batch'[b].status = "running" /\ copy'[b].status = "running"
      BY <2>2 DEF Copied
    <3> QED  BY <1>0, <2>2, <2>3, <2>4, <3>1
  <2>5. CASE x # b  BY <1>0, <2>2, <2>5
  <2> QED  BY <2>4, <2>5
<1>4. ASSUME NEW b \in Batches, CompleteBatch(b) PROVE BatchOk(x)'
  <2>1. batch'[b].status = "completed" /\ copy'[b].status = "completed"
    BY <1>4 DEF CompleteBatch, Persist, Copied
  <2>2. batch[b].status = "running" /\ snap' = snap
    BY <1>4 DEF CompleteBatch
  <2>3. x # b => batch'[x] = batch[x] /\ copy'[x] = copy[x]
    BY <1>4 DEF CompleteBatch, Persist
  <2> QED  BY <1>0, <2>1, <2>2, <2>3
<1>5. ASSUME NEW b \in Batches, CancelBatch(b) PROVE BatchOk(x)'
  <2>1. batch[b].status # "none" /\ batch'[b].status = batch[b].status /\ copy' = copy
    BY <1>5 DEF CancelBatch
  <2>2. snap'[b].status = batch[b].status
    BY <1>5, <2>1 DEF CancelBatch, Copied
  <2>3. x # b => batch'[x] = batch[x] /\ snap'[x] = snap[x]
    BY <1>5 DEF CancelBatch
  <2> QED  BY <1>0, <2>1, <2>2, <2>3
<1>6. ASSUME NEW b \in Batches, CancelWrite(b) PROVE BatchOk(x)'
  BY <1>0, <1>6 DEF CancelWrite
<1>7. ASSUME NEW b \in Batches, RestoreBatch(b) PROVE BatchOk(x)'
  <2>1. batch'[b].status = "cancelled" /\ copy'[b].status = "cancelled" /\ snap' = snap
    BY <1>7 DEF RestoreBatch
  <2>2. x # b => batch'[x] = batch[x] /\ copy'[x] = copy[x]
    BY <1>7 DEF RestoreBatch
  <2>3. x = b => BatchOk(x)'
    BY <1>0, <2>1
  <2> QED  BY <1>0, <2>1, <2>2, <2>3
<1>8. CASE Crash
  BY <1>8 DEF Crash, NoBatch
<1> QED
  <2>1. ASSUME NEW b \in Batches,
               (\E cells \in Requests : PostBatch(b, cells)) \/ \E new \in Batches : ResumeBatch(b, new)
        PROVE  BatchOk(x)'
    BY <2>1, <1>3 DEF PostBatch, ResumeBatch
  <2>2. ASSUME NEW r \in Runs, RecoveryStep(r)
        PROVE  UNCHANGED memory
    BY <2>2 DEF RecoveryStep, Recovers, TerminateOrphan, RecoverOwned, RecoverNoSpawn,
                RecoverMarkFailed, SettleOrphan, RecoverSpawn, RecoverSpawnRaises
  <2>3. CASE Boot \/ StartupDone
    BY <2>3, <1>1 DEF Boot, StartupDone
  <2> QED  BY <1>1, <1>2, <1>4, <1>5, <1>6, <1>7, <1>8, <2>1, <2>2, <2>3, MemoryQuiet
           DEF Next, Startup, Recovers, RecoveryStep

----------------------------------------------------------------------------
(* Threads, items and locks.                                               *)

LEMMA OwnItem ==
    ASSUME TypeOK, RunAssumption, ConsoleOk, ItemsInv, SpanInv, NEW b \in Batches, NEW c \in Cells,
           Work(b, c) \/ StartRunRaises(b, c) \/ WaitTooLong(b, c)
    PROVE  ItemOk(b, c)'
<1>1. /\ ItemOk(b, c) /\ worker[b][c] \in Places \ {"gone", "over"} /\ None # b
      /\ batch'[b].status = batch[b].status /\ batch[b].status \in {"running", "completed"}
      /\ lock[c] \in Batches \cup {None}
  BY AtWork, WorkTouches DEF ItemsInv, Touch, RunAssumption, TypeOK
<1>2. batch[b].status = "running" /\ batch[b].item[c] # "absent"
  BY <1>1 DEF ItemOk
<1>leave. ASSUME NEW s \in Ended, Leave(b, c, s) PROVE ItemOk(b, c)'
  <2>1. /\ batch'[b].item[c] = s /\ worker'[b][c] = "over"
        /\ lock'[c] = IF lock[c] = b THEN None ELSE lock[c]
    BY <1>leave, ItemTypes
  <2> QED  BY <1>1, <1>2, <2>1 DEF ItemOk, Ended, Holding
<1> USE DEF ItemOk, Holding
<1>3. CASE ItemCancelledQueued(b, c)
  <2>1. /\ batch'[b].item[c] = "cancelled" /\ worker'[b][c] = "over" /\ lock' = lock
        /\ worker[b][c] = "enter"
    BY <1>3, ItemTypes DEF ItemCancelledQueued, At
  <2> QED  BY <1>1, <1>2, <2>1 DEF Ended
<1>4. CASE AcquireSampling(b, c)
  <2>1. batch' = batch /\ worker'[b][c] = "semaphore" /\ lock'[c] = b
    BY <1>4, ItemTypes DEF AcquireSampling, TypeOK
  <2> QED  BY <1>1, <1>2, <2>1
<1>5. CASE AttachOrReject(b, c)
  <2>1. /\ batch'[b].item[c] \in {"attached", "failed"} /\ worker'[b][c] = "over" /\ lock' = lock
        /\ worker[b][c] = "enter"
    BY <1>5, ItemTypes DEF AttachOrReject, At
  <2> QED  BY <1>1, <1>2, <2>1 DEF Ended
<1>6. CASE AcquireSemaphore(b, c) \/ StartRun(b, c) \/ PublishRunId(b, c) \/ WaitForRun(b, c)
           \/ WaitTooLong(b, c)
  <2>1. /\ batch' = batch /\ worker'[b][c] \in Holding /\ lock' = lock
        /\ worker[b][c] \in Holding
    BY <1>6, ItemTypes DEF AcquireSemaphore, StartRun, PublishRunId, WaitForRun, WaitTooLong, At
  <2> QED  BY <1>1, <1>2, <2>1
<1>7. CASE MarkRunning(b, c)
  <2>1. /\ batch'[b].item[c] = "running" /\ worker'[b][c] = "slot" /\ lock' = lock
        /\ worker[b][c] = "disk"
    BY <1>7, ItemTypes DEF MarkRunning, At
  <2> QED  BY <1>1, <1>2, <2>1
<1>8. CASE \E s \in Ended : Leave(b, c, s)
  BY <1>8, <1>leave
<1> QED
  <2>1. DiskCancelled(b, c) \/ DiskExhausted(b, c) \/ NoSlot(b, c) \/ JudgeRun(b, c)
          \/ StartRunRaises(b, c) => \E s \in Ended : Leave(b, c, s)
    BY DEF DiskCancelled, DiskExhausted, NoSlot, JudgeRun, StartRunRaises, Quit, Ended
  <2> QED  BY <1>3, <1>4, <1>5, <1>6, <1>7, <1>8, <2>1 DEF Work

LEMMA ItemsStep ==
    ASSUME TypeOK, RunAssumption, ConsoleOk, BatchesInv, ItemsInv, SpanInv, Next
    PROVE  ItemsInv'
<1> SUFFICES ASSUME NEW x \in Batches, NEW y \in Cells PROVE ItemOk(x, y)'
  BY DEF ItemsInv
<1>0. ItemOk(x, y) /\ worker[x][y] \in Places /\ None # x
  BY DEF ItemsInv, TypeOK, RunAssumption
<1>same. ASSUME worker'[x][y] = worker[x][y], batch'[x].status = batch[x].status,
                batch'[x].item[y] = batch[x].item[y], lock'[y] = x <=> lock[y] = x
         PROVE  ItemOk(x, y)'
  BY <1>0, <1>same DEF ItemOk
<1>1. CASE UNCHANGED memory
  BY <1>0, <1>1 DEF memory, ItemOk
<1>2. ASSUME NEW b \in Batches, NEW c \in Cells,
             Work(b, c) \/ StartRunRaises(b, c) \/ WaitTooLong(b, c)
      PROVE  ItemOk(x, y)'
  <2>1. CASE x = b /\ y = c  BY <1>2, <2>1, OwnItem
  <2>2. CASE x # b \/ y # c
    <3>1. Touch(b, c) /\ None # b
      BY <1>2, WorkTouches DEF RunAssumption
    <3>2. lock'[y] = x <=> lock[y] = x
      BY <1>0, <2>2, <3>1 DEF Touch
    <3> QED  BY <2>2, <3>1, <3>2, <1>same DEF Touch
  <2> QED  BY <2>1, <2>2
<1>3. ASSUME NEW b \in Batches, NEW cells, StartBatch(b, cells) PROVE ItemOk(x, y)'
  <2>1. /\ batch[b] = NoBatch /\ lock' = lock
        /\ batch' = [batch EXCEPT ![b] = [status |-> "running", cancel |-> FALSE,
                       item |-> [c \in Cells |-> IF c \in cells THEN "pending" ELSE "absent"]]]
        /\ worker' = [worker EXCEPT ![b] = [c \in Cells |-> IF c \in cells THEN "enter" ELSE "gone"]]
    BY <1>3 DEF StartBatch, FreshIds
  <2>2. CASE x = b
    <3>1. batch[b].status = "none"
      BY <2>1 DEF NoBatch
    <3>2. worker[x][y] = "gone" /\ lock[y] # x
      BY <1>0, <2>2, <3>1 DEF ItemOk, Holding
    <3>3. /\ batch'[x].status = "running"
          /\ batch'[x].item[y] = (IF y \in cells THEN "pending" ELSE "absent")
          /\ worker'[x][y] = (IF y \in cells THEN "enter" ELSE "gone")
      BY <2>1, <2>2 DEF TypeOK
    <3> QED  BY <2>1, <3>2, <3>3 DEF ItemOk, Holding
  <2>3. CASE x # b
    <3>1. batch'[x] = batch[x] /\ worker'[x] = worker[x]
      BY <2>1, <2>3
    <3> QED  BY <2>1, <3>1, <1>same
  <2> QED  BY <2>2, <2>3
<1>4. ASSUME NEW b \in Batches, CompleteBatch(b) PROVE ItemOk(x, y)'
  <2>1. /\ batch[b].status = "running" /\ batch' = [batch EXCEPT ![b].status = "completed"]
        /\ batch[b].item[y] # "absent" => worker[b][y] = "over"
        /\ UNCHANGED <<worker, lock>>
    BY <1>4 DEF CompleteBatch, At
  <2>2. CASE x = b
    <3>1. batch'[x].status = "completed" /\ batch'[x].item[y] = batch[x].item[y]
      BY <2>1, <2>2 DEF TypeOK
    <3> QED  BY <1>0, <2>1, <2>2, <3>1 DEF ItemOk, Holding
  <2>3. CASE x # b
    <3>1. batch'[x] = batch[x]
      BY <2>1, <2>3
    <3> QED  BY <2>1, <3>1, <1>same
  <2> QED  BY <2>2, <2>3
<1>5. ASSUME NEW b \in Batches, CancelBatch(b) \/ CancelWrite(b) PROVE ItemOk(x, y)'
  <2>1. /\ UNCHANGED <<worker, lock>>
        /\ batch' = [batch EXCEPT ![b].cancel = TRUE] \/ batch' = batch
    BY <1>5 DEF CancelBatch, CancelWrite
  <2>2. batch'[x].status = batch[x].status /\ batch'[x].item = batch[x].item
    BY <2>1 DEF TypeOK
  <2> QED  BY <2>1, <2>2, <1>same
<1>6. ASSUME NEW b \in Batches, RestoreBatch(b) PROVE ItemOk(x, y)'
  <2>1. UNCHANGED <<worker, lock>> /\ console = "recover"
    BY <1>6 DEF RestoreBatch
  <2>2. CASE x = b
    <3>1. batch'[x].status = "cancelled"
      BY <1>6, <2>2 DEF RestoreBatch, TypeOK
    <3>2. worker[x][y] = "gone"
      BY <2>1, WorkUp
    <3> QED  BY <1>0, <2>1, <3>1, <3>2 DEF ItemOk, Holding
  <2>3. CASE x # b
    <3>1. batch'[x] = batch[x]
      BY <1>6, <2>3 DEF RestoreBatch
    <3> QED  BY <2>1, <3>1, <1>same
  <2> QED  BY <2>2, <2>3
<1>7. CASE Crash
  <2>1. batch'[x].status = "none" /\ worker'[x][y] = "gone" /\ lock'[y] = None
    BY <1>7 DEF Crash, NoBatch
  <2> QED  BY <1>0, <2>1 DEF ItemOk, Holding
<1> QED
  <2>1. ASSUME NEW b \in Batches,
               (\E cells \in Requests : PostBatch(b, cells)) \/ \E new \in Batches : ResumeBatch(b, new)
        PROVE  ItemOk(x, y)'
    BY <2>1, <1>3 DEF PostBatch, ResumeBatch
  <2>2. ASSUME NEW r \in Runs, RecoveryStep(r)
        PROVE  UNCHANGED memory
    BY <2>2 DEF RecoveryStep, Recovers, TerminateOrphan, RecoverOwned, RecoverNoSpawn,
                RecoverMarkFailed, SettleOrphan, RecoverSpawn, RecoverSpawnRaises
  <2>3. CASE Boot \/ StartupDone
    BY <2>3, <1>1 DEF Boot, StartupDone
  <2> QED  BY <1>1, <1>2, <1>4, <1>5, <1>6, <1>7, <2>1, <2>2, <2>3, MemoryQuiet
           DEF Next, Startup, Recovers, RecoveryStep

----------------------------------------------------------------------------
(* A run of a batch and the thread that started it.                        *)

LEMMA OwnSpan ==
    ASSUME TypeOK, RunAssumption, RunsInv, ConsoleOk, ItemsInv, SpanInv, OneRunInv, RunsInv',
           NEW q \in Runs, Evolved(q), NEW b \in Batches, NEW c \in Cells,
           run[q].by = b, run[q].cell = c, copy[b].status # "none",
           Work(b, c) \/ StartRunRaises(b, c) \/ WaitTooLong(b, c)
    PROVE  SpanOk(q)'
<1>0. /\ SpanOk(q) /\ RunOk(q) /\ run[q] \in RunState /\ DOMAIN run = Runs /\ "report" \notin Batches
      /\ worker[b][c] \in {"starting", "wait", "judge"}
      /\ copy'[b].status # "none" /\ worker[b] \in [Cells -> Places]
  BY AtWork DEF SpanInv, SpanOk, RunsInv, TypeOK, RunAssumption, Others
<1>one. \A r \in RunOf(b, c) : r = q
  BY DEF RunOf, OneRunInv, OneRun
<1>1. CASE PublishRunId(b, c)
  <2>1. worker'[b][c] = "wait" /\ run[q].step = "registered" /\ run' = run
    BY <1>1, <1>one, ItemTypes DEF PublishRunId
  <2> QED  BY <1>0, <2>1 DEF SpanOk, Evolved
<1>2. CASE WaitForRun(b, c) \/ WaitTooLong(b, c)
  <2>1. worker'[b][c] = "judge" /\ worker[b][c] = "wait" /\ run' = run
    BY <1>2, ItemTypes DEF WaitForRun, WaitTooLong, At
  <2> QED  BY <1>0, <2>1 DEF SpanOk, Evolved
<1>3. CASE JudgeRun(b, c)
  <2>1. /\ worker'[b][c] = "over" /\ worker[b][c] = "judge" /\ run' = run
        /\ batch'[b].item[c] = (IF \E r \in RunOf(b, c) : run[r].row = "completed"
                                THEN "completed" ELSE "failed")
    BY <1>3, ItemTypes DEF JudgeRun, At
  <2>2. ASSUME run[q].step = "registered", run[q].proc = "alive"
        PROVE  batch'[b].item[c] = "failed"
    <3>1. run[q].watch = "wait"
      BY <1>0, <2>2 DEF RunOk
    <3>2. run[q].row = "running"
      BY <1>0, <2>2, <3>1 DEF RunOk, Watching
    <3> QED  BY <1>one, <2>1, <3>2
  <2> QED  BY <1>0, <2>1, <2>2 DEF SpanOk, Evolved
<1>4. CASE StartRunRaises(b, c)
  <2>1. PICK r \in RunOf(b, c) : run[r].step = "popen" /\ run' = [run EXCEPT ![r].step = "past"]
    BY <1>0, <1>4 DEF StartRunRaises, At
  <2>2. run'[q].step = "past"
    BY <1>0, <1>one, <2>1 DEF RunState
  <2>3. worker'[b][c] = "over"
    BY <1>4, ItemTypes DEF StartRunRaises
  <2> QED  BY <1>0, <2>2, <2>3 DEF SpanOk, Evolved
<1> QED
  <2>1. ASSUME Work(b, c) PROVE PublishRunId(b, c) \/ WaitForRun(b, c) \/ JudgeRun(b, c)
    BY <1>0, <2>1 DEF Work, ItemCancelledQueued, AcquireSampling, AttachOrReject, AcquireSemaphore,
                      DiskCancelled, DiskExhausted, MarkRunning, NoSlot, StartRun, At
  <2> QED  BY <1>1, <1>2, <1>3, <1>4, <2>1

LEMMA SpanStep ==
    ASSUME TypeOK, RunAssumption, RunsInv, ConsoleOk, BatchesInv, ItemsInv, SpanInv, OneRunInv,
           RunsInv', BatchesInv', Next
    PROVE  SpanInv'
<1> SUFFICES ASSUME NEW q \in Runs, run'[q].by \in Batches PROVE SpanOk(q)'
  BY DEF SpanInv, SpanOk
<1>born. CASE Born(q)
  <2> DEFINE b == run'[q].by
             c == run'[q].cell
  <2>1. b \in Batches /\ c \in Cells /\ run'[q].step = "popen" /\ StartRun(b, c)
    BY <1>born DEF Born, RunAssumption
  <2>2. worker'[b][c] = "starting" /\ batch' = batch /\ copy' = copy /\ worker[b][c] = "slot"
    BY <2>1, ItemTypes DEF StartRun, At
  <2>3. copy'[b].status # "none"
    BY <2>1, <2>2, WorkUp DEF BatchesInv, BatchOk
  <2> QED  BY <2>1, <2>2, <2>3 DEF SpanOk
<1>evolved. CASE Evolved(q)
  <2>0. PICK b \in Batches, c \in Cells : run[q].by = b /\ run[q].cell = c
    BY <1>evolved DEF Evolved, TypeOK, RunState
  <2>1. SpanOk(q) /\ run[q] \in RunState /\ DOMAIN run = Runs /\ copy[b].status # "none"
    BY <2>0 DEF SpanInv, SpanOk, TypeOK
  <2>same. ASSUME copy'[b].status # "none", worker'[b][c] = worker[b][c],
                  batch'[b].item[c] = batch[b].item[c]
           PROVE  SpanOk(q)'
    BY <1>evolved, <2>0, <2>1, <2>same DEF SpanOk, Evolved
  <2>2. CASE UNCHANGED memory
    BY <2>1, <2>2, <2>same DEF memory
  <2>3. ASSUME NEW x \in Batches, NEW y \in Cells,
               Work(x, y) \/ StartRunRaises(x, y) \/ WaitTooLong(x, y)
        PROVE  SpanOk(q)'
    <3>1. CASE x = b /\ y = c  BY <1>evolved, <2>0, <2>1, <2>3, <3>1, OwnSpan
    <3>2. CASE x # b \/ y # c
      <4>1. Touch(x, y)
        BY <2>3, WorkTouches
      <4>2. copy'[b].status # "none"
        BY <2>1, <2>3, AtWork
      <4> QED  BY <2>same, <3>2, <4>1, <4>2 DEF Touch
    <3> QED  BY <3>1, <3>2
  <2>4. ASSUME NEW x \in Batches, NEW cells, StartBatch(x, cells) PROVE SpanOk(q)'
    <3>1. copy[x] = NoCopy
      BY <2>4 DEF StartBatch, FreshIds
    <3>2. x # b
      BY <2>1, <3>1 DEF NoCopy
    <3>3. batch'[b] = batch[b] /\ copy'[b] = copy[b] /\ worker'[b] = worker[b]
      BY <2>4, <3>2 DEF StartBatch, Persist, TypeOK
    <3> QED  BY <2>1, <2>same, <3>3
  <2>5. ASSUME NEW x \in Batches, CompleteBatch(x) \/ CancelBatch(x) \/ CancelWrite(x)
        PROVE  SpanOk(q)'
    <3>1. worker' = worker
      BY <2>5 DEF CompleteBatch, CancelBatch, CancelWrite
    <3>2. \/ batch' = batch
          \/ batch' = [batch EXCEPT ![x].status = "completed"]
          \/ batch' = [batch EXCEPT ![x].cancel = TRUE]
      BY <2>5 DEF CompleteBatch, CancelBatch, CancelWrite
    <3>3. batch'[b].item = batch[b].item
      <4>1. CASE x = b  BY <3>2, <4>1 DEF TypeOK
      <4>2. CASE x # b  BY <3>2, <4>2 DEF TypeOK
      <4> QED  BY <4>1, <4>2
    <3>4. CASE CompleteBatch(x)
      <4>1. copy'[b].status # "none"
        BY <2>1, <3>4 DEF CompleteBatch, Persist, Copied, TypeOK
      <4> QED  BY <2>same, <3>1, <3>3, <4>1
    <3>5. CASE CancelBatch(x)  BY <2>1, <2>same, <3>1, <3>3, <3>5 DEF CancelBatch
    <3>6. CASE CancelWrite(x)
      <4>1. copy'[b].status # "none"
        BY <2>1, <3>6 DEF CancelWrite, BatchesInv, BatchOk, TypeOK
      <4> QED  BY <2>same, <3>1, <3>3, <4>1
    <3> QED  BY <2>5, <3>4, <3>5, <3>6
  <2>6. ASSUME NEW x \in Batches, RestoreBatch(x) PROVE SpanOk(q)'
    <3>1. worker' = worker /\ run' = run /\ console = "recover"
      BY <2>6 DEF RestoreBatch
    <3>2. worker[b][c] = "gone"
      BY <3>1, WorkUp
    <3>3. copy'[b].status # "none"
      BY <2>1, <2>6 DEF RestoreBatch, TypeOK
    <3> QED  BY <2>0, <2>1, <3>1, <3>2, <3>3 DEF SpanOk
  <2>7. CASE Crash
    <3>1. console' = "down" /\ worker'[b][c] = "gone" /\ copy' = copy
      BY <2>7 DEF Crash
    <3>2. run'[q].step \in {"unused", "past"}
      BY <3>1 DEF RunsInv, RunOk
    <3> QED  BY <1>evolved, <2>0, <2>1, <3>1, <3>2 DEF SpanOk, Evolved
  <2> QED
    <3>1. ASSUME NEW x \in Batches,
                 (\E cells \in Requests : PostBatch(x, cells)) \/ \E new \in Batches : ResumeBatch(x, new)
          PROVE  SpanOk(q)'
      BY <3>1, <2>4 DEF PostBatch, ResumeBatch
    <3>2. ASSUME NEW r \in Runs, RecoveryStep(r)
          PROVE  UNCHANGED memory
      BY <3>2 DEF RecoveryStep, Recovers, TerminateOrphan, RecoverOwned, RecoverNoSpawn,
                RecoverMarkFailed, SettleOrphan, RecoverSpawn, RecoverSpawnRaises
    <3>3. CASE Boot \/ StartupDone
      BY <3>3, <2>2 DEF Boot, StartupDone
    <3> QED  BY <2>2, <2>3, <2>5, <2>6, <2>7, <3>1, <3>2, <3>3, MemoryQuiet
             DEF Next, Startup, Recovers, RecoveryStep
<1> QED  BY <1>born, <1>evolved, RunsEvolve

(* An item has one run at most.                                            *)
LEMMA OneRunStep ==
    ASSUME TypeOK, RunAssumption, RunsInv, ConsoleOk, ItemsInv, SpanInv, OneRunInv, Next
    PROVE  OneRunInv'
<1> SUFFICES ASSUME NEW r \in Runs, NEW s \in Runs, run'[r].by \in Batches,
                    run'[s].by = run'[r].by, run'[s].cell = run'[r].cell
             PROVE  r = s
  BY DEF OneRunInv, OneRun
<1>0. \A q \in Runs : Evolved(q) \/ Born(q)
  BY RunsEvolve
<1>1. CASE Evolved(r) /\ Evolved(s)
  BY <1>1 DEF Evolved, OneRunInv, OneRun
<1>2. CASE Born(r) /\ Born(s)
  BY <1>2 DEF Born, NewRun, Runs, RunAssumption
<1>3. ASSUME NEW p \in Runs, NEW q \in Runs, Born(p), Evolved(q), run'[p].by \in Batches,
             run'[q].by = run'[p].by, run'[q].cell = run'[p].cell
      PROVE  FALSE
  <2>1. StartRun(run'[p].by, run'[p].cell)
    BY <1>3 DEF Born, RunAssumption
  <2>2. worker[run'[p].by][run'[p].cell] = "slot"
    BY <2>1 DEF StartRun, At
  <2>3. run[q].by = run'[p].by /\ run[q].cell = run'[p].cell
    BY <1>3 DEF Evolved
  <2> QED  BY <1>3, <2>2, <2>3 DEF SpanInv, SpanOk
<1> QED  BY <1>0, <1>1, <1>2, <1>3

----------------------------------------------------------------------------
(* Nothing is called completed that was not sampled.                       *)

LEMMA SampledStays ==
    ASSUME TypeOK, RunAssumption, RunsInv, ConsoleOk, ItemsInv, Next,
           NEW b \in Batches, NEW c \in Cells, Sampled(b, c)
    PROVE  Sampled(b, c)'
<1>1. PICK r \in Runs : run[r].by = b /\ run[r].cell = c /\ run[r].row \in {"completed", "deleted"}
  BY DEF Sampled, RunOf
<1>2. run[r].step # "unused"
  BY <1>1 DEF RunsInv, RunOk
<1>3. Evolved(r)
  BY <1>2, RunsEvolve DEF Born, NewRun
<1> QED  BY <1>1, <1>3 DEF Evolved, Sampled, RunOf

(* The step of an item's thread that calls it completed.                   *)
LEMMA OwnTruth ==
    ASSUME TypeOK, NEW b \in Batches, NEW c \in Cells,
           Work(b, c) \/ StartRunRaises(b, c) \/ WaitTooLong(b, c),
           batch'[b].item[c] = "completed", batch[b].item[c] # "completed"
    PROVE  Sampled(b, c)
<1>1. JudgeRun(b, c)
  BY ItemTypes DEF Work, ItemCancelledQueued, AcquireSampling, AttachOrReject, AcquireSemaphore,
        DiskCancelled, DiskExhausted, MarkRunning, NoSlot, StartRun, PublishRunId, WaitForRun,
        StartRunRaises, WaitTooLong, Quit
<1>2. batch'[b].item[c] = (IF \E r \in RunOf(b, c) : run[r].row = "completed"
                           THEN "completed" ELSE "failed")
  BY <1>1, ItemTypes DEF JudgeRun
<1> QED  BY <1>2 DEF Sampled

LEMMA TruthStep ==
    ASSUME TypeOK, RunAssumption, RunsInv, ConsoleOk, ItemsInv, SpanInv, TruthInv, Next
    PROVE  TruthInv'
<1> SUFFICES ASSUME NEW b \in Batches, NEW c \in Cells, ~Sampled(b, c) PROVE TruthOk(b, c)'
  BY SampledStays DEF TruthInv, TruthOk
<1>0. /\ batch[b].item[c] # "completed" /\ copy[b].item[c] # "completed"
      /\ snap[b].item[c] # "completed" /\ c \in Cells
  BY DEF TruthInv, TruthOk
<1> SUFFICES /\ batch'[b].item[c] # "completed" /\ copy'[b].item[c] # "completed"
             /\ snap'[b].item[c] # "completed"
  BY DEF TruthOk
<1>1. CASE UNCHANGED memory
  BY <1>0, <1>1 DEF memory
<1>2. ASSUME NEW x \in Batches, NEW y \in Cells,
             Work(x, y) \/ StartRunRaises(x, y) \/ WaitTooLong(x, y)
      PROVE  /\ batch'[b].item[c] # "completed" /\ copy'[b].item[c] # "completed"
             /\ snap'[b].item[c] # "completed"
  <2>1. Touch(x, y)
    BY <1>2, WorkTouches
  <2>2. batch'[b].item[c] # "completed"
    <3>1. CASE x = b /\ y = c  BY <1>0, <1>2, <3>1, OwnTruth
    <3>2. CASE x # b \/ y # c  BY <1>0, <2>1, <3>2 DEF Touch
    <3> QED  BY <3>1, <3>2
  <2>3. copy'[b].item[c] # "completed"
    <3>1. CASE copy' = copy  BY <1>0, <3>1
    <3>2. CASE Persist(x)  BY <1>0, <2>2, <3>2 DEF Persist, Copied, TypeOK
    <3> QED  BY <2>1, <3>1, <3>2 DEF Touch
  <2> QED  BY <1>0, <2>1, <2>2, <2>3 DEF Touch
<1>3. ASSUME NEW x \in Batches, NEW cells, StartBatch(x, cells)
      PROVE  /\ batch'[b].item[c] # "completed" /\ copy'[b].item[c] # "completed"
             /\ snap'[b].item[c] # "completed"
  <2>1. batch'[b].item[c] # "completed"
    BY <1>0, <1>3 DEF StartBatch, TypeOK
  <2>2. copy'[b].item[c] # "completed"
    BY <1>0, <1>3, <2>1 DEF StartBatch, Persist, Copied, TypeOK
  <2> QED  BY <1>0, <1>3, <2>1, <2>2 DEF StartBatch
<1>4. ASSUME NEW x \in Batches, CompleteBatch(x)
      PROVE  /\ batch'[b].item[c] # "completed" /\ copy'[b].item[c] # "completed"
             /\ snap'[b].item[c] # "completed"
  <2>1. batch'[b].item[c] # "completed"
    BY <1>0, <1>4 DEF CompleteBatch, TypeOK
  <2>2. copy'[b].item[c] # "completed"
    BY <1>0, <1>4, <2>1 DEF CompleteBatch, Persist, Copied, TypeOK
  <2> QED  BY <1>0, <1>4, <2>1, <2>2 DEF CompleteBatch
<1>5. ASSUME NEW x \in Batches, CancelBatch(x)
      PROVE  /\ batch'[b].item[c] # "completed" /\ copy'[b].item[c] # "completed"
             /\ snap'[b].item[c] # "completed"
  <2>1. batch'[b].item[c] # "completed"
    BY <1>0, <1>5 DEF CancelBatch, TypeOK
  <2>2. snap'[b].item[c] # "completed"
    BY <1>0, <1>5, <2>1 DEF CancelBatch, Copied, TypeOK
  <2> QED  BY <1>0, <1>5, <2>1, <2>2 DEF CancelBatch
<1>6. ASSUME NEW x \in Batches, CancelWrite(x)
      PROVE  /\ batch'[b].item[c] # "completed" /\ copy'[b].item[c] # "completed"
             /\ snap'[b].item[c] # "completed"
  BY <1>0, <1>6 DEF CancelWrite, TypeOK, NoCopy
<1>7. ASSUME NEW x \in Batches, RestoreBatch(x)
      PROVE  /\ batch'[b].item[c] # "completed" /\ copy'[b].item[c] # "completed"
             /\ snap'[b].item[c] # "completed"
  BY <1>0, <1>7 DEF RestoreBatch, TypeOK
<1>8. CASE Crash
  BY <1>0, <1>8 DEF Crash, NoBatch, NoCopy
<1> QED
  <2>1. ASSUME NEW x \in Batches,
               (\E cells \in Requests : PostBatch(x, cells)) \/ \E new \in Batches : ResumeBatch(x, new)
        PROVE  /\ batch'[b].item[c] # "completed" /\ copy'[b].item[c] # "completed"
               /\ snap'[b].item[c] # "completed"
    BY <2>1, <1>3 DEF PostBatch, ResumeBatch
  <2>2. ASSUME NEW r \in Runs, RecoveryStep(r)
        PROVE  UNCHANGED memory
    BY <2>2 DEF RecoveryStep, Recovers, TerminateOrphan, RecoverOwned, RecoverNoSpawn,
                RecoverMarkFailed, SettleOrphan, RecoverSpawn, RecoverSpawnRaises
  <2>3. CASE Boot \/ StartupDone
    BY <2>3, <1>1 DEF Boot, StartupDone
  <2> QED  BY <1>1, <1>2, <1>4, <1>5, <1>6, <1>7, <1>8, <2>1, <2>2, <2>3, MemoryQuiet
           DEF Next, Startup, Recovers, RecoveryStep

----------------------------------------------------------------------------
LEMMA Start == RunAssumption /\ Init => IInv
<1> SUFFICES ASSUME RunAssumption, Init PROVE IInv
  OBVIOUS
<1>1. NoRun \in RunState
  <2>1. (CHOOSE c \in Cells : TRUE) \in Cells
    BY DEF RunAssumption
  <2> QED  BY <2>1 DEF NoRun, RunState, Others, Rows, Procs, Outs, Steps, Watches
<1>2. TypeOK
  BY <1>1 DEF Init, TypeOK, Words, NoBatch, NoCopy, Items, Statuses, Places
<1>3. RunsInv
  BY DEF Init, RunsInv, RunOk, NoRun, Final, Watching
<1>4. ConsoleOk /\ BatchesInv
  BY DEF Init, ConsoleOk, BatchesInv, BatchOk, NoBatch, NoCopy
<1>5. ItemsInv
  BY DEF Init, ItemsInv, ItemOk, NoBatch, Holding, RunAssumption
<1>6. SpanInv /\ OneRunInv
  BY DEF Init, SpanInv, SpanOk, OneRunInv, OneRun, NoRun, RunAssumption, Others
<1>7. TruthInv
  BY DEF Init, TruthInv, TruthOk, NoBatch, NoCopy
<1> QED  BY <1>2, <1>3, <1>4, <1>5, <1>6, <1>7 DEF IInv

LEMMA Stutter == ASSUME IInv, UNCHANGED vars PROVE IInv'
<1> USE DEF vars
<1>1. TypeOK'
  BY DEF IInv, TypeOK
<1>2. RunsInv'
  BY DEF IInv, RunsInv, RunOk
<1>3. ConsoleOk' /\ BatchesInv'
  BY DEF IInv, ConsoleOk, Orphan, HasPid, BatchesInv, BatchOk
<1>4. ItemsInv'
  BY DEF IInv, ItemsInv, ItemOk
<1>5. SpanInv' /\ OneRunInv'
  BY DEF IInv, SpanInv, SpanOk, OneRunInv, OneRun
<1>6. TruthInv'
  BY DEF IInv, TruthInv, TruthOk, Sampled, RunOf
<1> QED  BY <1>1, <1>2, <1>3, <1>4, <1>5, <1>6 DEF IInv

LEMMA Invariance == Spec => []IInv
<1>1. Init => IInv
  BY Start, RunAssumption
<1>2. IInv /\ [Next]_vars => IInv'
  <2> SUFFICES ASSUME IInv, [Next]_vars PROVE IInv'
    OBVIOUS
  <2>1. CASE Next
    <3>1. /\ TypeOK /\ RunAssumption /\ RunsInv /\ ConsoleOk /\ BatchesInv /\ ItemsInv
          /\ SpanInv /\ OneRunInv /\ TruthInv
      BY RunAssumption DEF IInv
    <3>2. TypeOK' /\ RunsInv' /\ ConsoleOk' /\ BatchesInv' /\ ItemsInv' /\ OneRunInv' /\ TruthInv'
      BY <2>1, <3>1, TypeStep, RunsStep, ConsoleStep, BatchesStep, ItemsStep, OneRunStep, TruthStep
    <3>3. SpanInv'
      BY <2>1, <3>1, <3>2, SpanStep
    <3> QED  BY <3>2, <3>3 DEF IInv
  <2>2. CASE UNCHANGED vars
    BY <2>2, Stutter
  <2> QED  BY <2>1, <2>2
<1> QED  BY <1>1, <1>2, PTL DEF Spec

----------------------------------------------------------------------------
(* Rows, processes, threads, batches and locks keep their shape.           *)
THEOREM TypeCorrect == Spec => []TypeOK
<1>1. IInv => TypeOK
  BY DEF IInv
<1> QED  BY <1>1, Invariance, PTL

(* While the analyzer of an item runs, its batch holds SAMPLING on the     *)
(* cell, whoever cancels it, deletes its row or starts a batch on the same *)
(* cell, and wherever the console is restarted.                            *)
THEOREM LocksCoverRuns == Spec => []LockCoversRun
<1>1. IInv => LockCoversRun
  <2> SUFFICES ASSUME IInv, NEW r \in Runs, OfBatch(r), ThisLife(r), run[r].proc = "alive"
               PROVE  \/ lock[run[r].cell] = run[r].by
                      \/ batch[run[r].by].item[run[r].cell] = "failed"
    BY DEF LockCoversRun
  <2>1. /\ run[r].by \in Batches /\ run[r].cell \in Cells
        /\ run[r].step \in {"popen", "registered"}
    BY RunAssumption DEF OfBatch, ThisLife, IInv, TypeOK, RunState, RunsInv, RunOk, RunAssumption, Others
  <2>2. SpanOk(r) /\ ItemOk(run[r].by, run[r].cell)
    BY <2>1 DEF IInv, SpanInv, ItemsInv
  <2>3. \/ worker[run[r].by][run[r].cell] \in {"starting", "wait", "judge"}
        \/ batch[run[r].by].item[run[r].cell] = "failed"
    BY <2>1, <2>2 DEF SpanOk
  <2> QED  BY <2>2, <2>3 DEF ItemOk, Holding
<1> QED  BY <1>1, Invariance, PTL

(* Once the console is up, every running row has its watcher, a queued row *)
(* has no process, and whether its kills and resumes succeed or fail, the  *)
(* recovery leaves no analyzer of an earlier life of which neither a row   *)
(* says so nor a row was ever written.                                     *)
THEOREM RunsAccounted == Spec => []EveryRunAccounted
<1>1. IInv => EveryRunAccounted
  <2> SUFFICES ASSUME IInv, console = "up", NEW r \in Runs
               PROVE  /\ run[r].row = "running" /\ run[r].by # "report" => r \in managed
                      /\ run[r].row = "queued" => r \notin managed /\ run[r].proc = "none"
                      /\ run[r].proc = "alive" =>
                           \/ r \in managed \/ ThisLife(r) \/ run[r].row = "none"
                           \/ run[r].row \in {"failed", "deleted"} /\ said[r] # "nothing"
    BY DEF EveryRunAccounted
  <2>1. RunOk(r) /\ stale = {} /\ run[r].step \in Steps
    BY DEF IInv, RunsInv, ConsoleOk, TypeOK, RunState
  <2> QED  BY <2>1 DEF RunOk, ThisLife, Steps, Watching
<1> QED  BY <1>1, Invariance, PTL

(* What the batches table calls completed was sampled to the end.          *)
THEOREM CompletedSampled == Spec => []CompletedWasSampled
<1>1. IInv => CompletedWasSampled
  BY DEF IInv, TruthInv, TruthOk, Sampled, RunOf, CompletedWasSampled
<1> QED  BY <1>1, Invariance, PTL

(* A finished batch holds no cell and leaves no item open.                 *)
THEOREM BatchesSettled == Spec => []EndedBatchSettled
<1>1. IInv => EndedBatchSettled
  BY DEF IInv, ItemsInv, ItemOk, EndedBatchSettled, Holding, Ended
<1> QED  BY <1>1, Invariance, PTL
=============================================================================
