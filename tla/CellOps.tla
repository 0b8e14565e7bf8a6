------------------------------- MODULE CellOps -------------------------------
(***************************************************************************)
(* The threads of the console that work on the chunk files of one machine, *)
(* the analyzer processes they start, and the lock registry between them   *)
(* (app.py, fleet_refresh.py).  A cell is one mode of the machine.  The    *)
(* sample runs of a sweep draw into a scratch directory and are not here:  *)
(* see AutoInspect.                                                        *)
(*                                                                         *)
(*   batch and queue workers  SAMPLING around start_run and the wait       *)
(*   ad-hoc clients           POST /api/runs: GENERATING around start_run  *)
(*   generators               _run_generate_report                         *)
(*   deleters                 the DELETE endpoints on rawdata              *)
(*   cleaners                 disk cleanup, which takes no cell lock       *)
(*                                                                         *)
(* Not every flow is safe with every other, so a behaviour has a cast: the *)
(* threads, runs and cells that take part in it, and the delete endpoints. *)
(***************************************************************************)
EXTENDS Naturals, CellLockRefinement

CONSTANTS BatchWorkers,   (* BatchRunManager._run_one threads                 *)
          QueueWorkers,   (* fleet-refresh worker threads                     *)
          MayAbandon,     (* workers whose wait may end before the analyzer:  *)
                          (* the 2 h poll limit, a queue cancel               *)
          Adhoc,          (* POST /api/runs request threads                   *)
          Generators,     (* generate-report threads                          *)
          Deleters,       (* DELETE request threads                           *)
          Cleaners,       (* _auto_cleanup_for_space callers                  *)
          ManualCleaners, (* POST /api/cache/cleanup threads                  *)
          Casts,          (* [threads, runs, cells, kinds, chunks]: who takes  *)
                          (* part, the delete endpoints in play, and the bound *)
                          (* on the chunk indexes                             *)
          MaxChunk,       (* bound: highest chunk index of any cast           *)
          Keep,           (* chunks the retention quota protects              *)
          Past,           (* author of the chunks found on disk at start      *)
          Absent, NoCell

Workers == BatchWorkers \cup QueueWorkers
AllCleaners == Cleaners \cup ManualCleaners
AllThreads == Workers \cup Adhoc \cup Generators \cup Deleters \cup AllCleaners
ChunkIds == 1 .. MaxChunk

ASSUME CellOpsAssumption ==
    /\ Threads = AllThreads /\ GlobalOps = {"disk_cleanup"}
    /\ Workers \cap (Adhoc \cup Generators \cup Deleters \cup AllCleaners) = {}
    /\ Adhoc \cap (Generators \cup Deleters \cup AllCleaners) = {}
    /\ Generators \cap (Deleters \cup AllCleaners) = {}
    /\ Deleters \cap AllCleaners = {}
    /\ MayAbandon \subseteq Workers
    /\ MaxChunk \in Nat /\ Keep \in Nat
    /\ \A k \in Casts :
           /\ k.threads \subseteq Threads /\ k.runs \subseteq Runs /\ k.cells \subseteq Cells
           /\ k.kinds \subseteq {"version", "mode", "mode_force",
                                 "machine", "machine_force", "all"}
           /\ k.chunks \in 0 .. MaxChunk
    /\ Past \notin Runs /\ Absent \notin Runs \cup {Past}
    /\ NoCell \notin Cells

VARIABLES cast,    (* fixed                                                   *)
          proc,    (* analyzer processes, by run id                           *)
          chunks,  (* chunk files of each cell: index -> run that wrote it    *)
          dirs,    (* cells whose mode directory exists                       *)
          at,      (* where each thread is in its handler                     *)
          cell,    (* the cell the thread works on                            *)
          run,     (* the run a worker waits for                              *)
          kind,    (* the endpoint a deleter serves                           *)
          todo,    (* cells a deleter or cleaner has still to visit           *)
          snap     (* the <<cell, chunk>> pairs a thread has listed           *)

fileVars == <<proc, chunks, dirs>>
vars == <<cast, lockVars, fileVars, at, cell, run, kind, todo, snap>>

NoProc == [cell |-> NoCell, kind |-> "none", st |-> "none", next |-> 0]
Live(r) == proc[r].st \in {"seeding", "sampling"}
(* A run row with status running: an analyzer's or a generated report's.   *)
RowRunning == (\E r \in Runs : Live(r)) \/ (\E g \in Generators : at[g] = "reading")
Present(c) == {i \in ChunkIds : chunks[c][i] # Absent}
OnDisk == {f \in Cells \X ChunkIds : f[2] \in Present(f[1])}

(* Mutant of Kept: a chunk counts itself, so the quota is one chunk short. *)
KeptOneShort(c) == {i \in Present(c) : Cardinality({j \in Present(c) : j <= i}) < Keep}

(* _classify_chunks: the first chunks in index order fill the quota and    *)
(* are kept, the rest may be deleted.                                      *)
Kept(c) == {i \in Present(c) : Cardinality({j \in Present(c) : j < i}) < Keep}
Deletable(c) == Present(c) \ Kept(c)

Places == {"idle", "holding", "started", "waiting", "checked", "starting",
           "classified", "locked", "reading", "acquiring", "rollback",
           "unlinking", "releasing", "gated", "listing", "cleaning"}

TypeOK ==
    /\ cast \in Casts
    /\ RegistryTypeOK
    /\ proc \in [Runs -> [cell : Cells \cup {NoCell},
                          kind : {"none", "resume", "from_cache"},
                          st : {"none", "seeding", "sampling", "exited"},
                          next : 0 .. MaxChunk + 1]]
    /\ chunks \in [Cells -> [ChunkIds -> Runs \cup {Past, Absent}]]
    /\ dirs \in SUBSET Cells
    /\ at \in [Threads -> Places]
    /\ cell \in [Threads -> Cells \cup {NoCell}]
    /\ run \in [Threads -> Runs \cup {NoRun}]
    /\ kind \in [Threads -> cast.kinds \cup {"none"}]
    /\ todo \in [Threads -> SUBSET Cells]
    /\ snap \in [Threads -> SUBSET (Cells \X ChunkIds)]

(* The console has just started; earlier sessions left chunks behind.      *)
Init ==
    /\ cast \in Casts
    /\ RegistryInit
    /\ proc = [r \in Runs |-> NoProc]
    /\ \E n \in [cast.cells -> 0 .. cast.chunks] :
           /\ dirs = {c \in cast.cells : n[c] > 0}
           /\ chunks = [c \in Cells |-> [i \in ChunkIds |->
                            IF c \in dirs /\ i <= n[c] THEN Past ELSE Absent]]
    /\ at = [t \in Threads |-> "idle"]
    /\ cell = [t \in Threads |-> NoCell]
    /\ run = [t \in Threads |-> NoRun]
    /\ kind = [t \in Threads |-> "none"]
    /\ todo = [t \in Threads |-> {}]
    /\ snap = [t \in Threads |-> {}]

Goto(t, place) == at' = [at EXCEPT ![t] = place]

(* The handler returns and its local variables are gone.                   *)
Return(t) ==
    /\ Goto(t, "idle")
    /\ cell' = [cell EXCEPT ![t] = NoCell]
    /\ run' = [run EXCEPT ![t] = NoRun]
    /\ kind' = [kind EXCEPT ![t] = "none"]
    /\ todo' = [todo EXCEPT ![t] = {}]
    /\ snap' = [snap EXCEPT ![t] = {}]

locals == <<cell, run, kind, todo, snap>>
-----------------------------------------------------------------------------
(* RunManager.start_run: spawn the analyzer and insert its running row.    *)
Spawn(t, r, how) ==
    /\ proc[r] = NoProc
    /\ proc' = [proc EXCEPT ![r] =
                    [cell |-> cell[t], kind |-> how, st |-> "seeding", next |-> 0]]
    /\ UNCHANGED <<chunks, dirs>>

(* A worker takes SAMPLING before anything else; a refusal leaves it idle  *)
(* (attach, reject, wait and retry are the managers' own modules).         *)
AcquireSampling(w, c) ==
    /\ at[w] = "idle"
    /\ TryAcquireCell(w, c, "sampling", FALSE)
    /\ Goto(w, "holding")
    /\ cell' = [cell EXCEPT ![w] = c]
    /\ UNCHANGED <<fileVars, run, kind, todo, snap>>

StartSampling(w, r) ==
    /\ at[w] = "holding"
    /\ Spawn(w, r, "resume")
    /\ run' = [run EXCEPT ![w] = r]
    /\ Goto(w, IF w \in BatchWorkers THEN "started" ELSE "waiting")
    /\ UNCHANGED <<lockVars, cell, kind, todo, snap>>

(* The batch worker publishes the run id for attach lookups.               *)
PublishRunId(w) ==
    /\ at[w] = "started"
    /\ UpdateSamplingRunId(w, cell[w], run[w])
    /\ Goto(w, "waiting")
    /\ UNCHANGED <<fileVars, cell, run, kind, todo, snap>>

LeaveSampling(w) ==
    /\ ReleaseCell(w, cell[w], "sampling")
    /\ Return(w)
    /\ UNCHANGED fileVars

(* Cancelled or rate limited before the start, or start_run raised.        *)
LeaveBeforeStart(w) == at[w] = "holding" /\ LeaveSampling(w)

(* The run row reached a terminal status.                                  *)
FinishWait(w) == at[w] = "waiting" /\ ~Live(run[w]) /\ LeaveSampling(w)

(* The wait ends first: nothing stops the analyzer, the lock is released.  *)
Abandon(w) ==
    /\ w \in MayAbandon
    /\ at[w] = "waiting"
    /\ Live(run[w])
    /\ LeaveSampling(w)
-----------------------------------------------------------------------------
(* Mutant of Seed: the next index is counted, not the highest plus one.    *)
SeedFromCount(r) ==
    /\ proc[r].st = "seeding"
    /\ proc[r].kind = "resume"
    /\ proc' = [proc EXCEPT ![r].st = "sampling",
                            ![r].next = Cardinality(Present(proc[r].cell)) + 1]
    /\ UNCHANGED <<chunks, dirs, lockVars, at, cell, run, kind, todo, snap>>

(* The analyzer replays the cached chunks, then continues after the        *)
(* highest index it found (next_chunk_index = max_existing_idx + 1).       *)
Seed(r) ==
    /\ proc[r].st = "seeding"
    /\ proc[r].kind = "resume"
    /\ \E m \in {0} \cup Present(proc[r].cell) :
           /\ \A i \in Present(proc[r].cell) : i <= m
           /\ proc' = [proc EXCEPT ![r].st = "sampling", ![r].next = m + 1]
    /\ UNCHANGED <<chunks, dirs, lockVars, at, cell, run, kind, todo, snap>>

WriteChunk(r) ==
    /\ proc[r].st = "sampling"
    /\ proc[r].next <= cast.chunks
    /\ chunks' = [chunks EXCEPT ![proc[r].cell][proc[r].next] = r]
    /\ dirs' = dirs \cup {proc[r].cell}
    /\ proc' = [proc EXCEPT ![r].next = @ + 1]
    /\ UNCHANGED <<lockVars, at, cell, run, kind, todo, snap>>

(* Target reached, stop flag, kill or crash.                               *)
Exit(r) ==
    /\ Live(r)
    /\ proc' = [proc EXCEPT ![r] = [NoProc EXCEPT !.st = "exited"]]
    /\ UNCHANGED <<chunks, dirs, lockVars, at, cell, run, kind, todo, snap>>
-----------------------------------------------------------------------------
(* create_run: no running row, then GENERATING around start_run only.      *)
AdhocCheck(a, c) ==
    /\ at[a] = "idle"
    /\ ~RowRunning
    /\ Goto(a, "checked")
    /\ cell' = [cell EXCEPT ![a] = c]
    /\ UNCHANGED <<lockVars, fileVars, run, kind, todo, snap>>

AdhocAcquire(a) ==
    /\ at[a] = "checked"
    /\ \/ /\ TryAcquireCell(a, cell[a], "generating", TRUE)
          /\ Goto(a, "starting")
          /\ UNCHANGED locals
       \/ /\ ~CanAcquire(cell[a], "generating", TRUE)
          /\ Return(a)
          /\ UNCHANGED lockVars
    /\ UNCHANGED fileVars

AdhocStart(a, r) ==
    /\ at[a] = "starting"
    /\ \E how \in {"resume", "from_cache"} : Spawn(a, r, how)
    /\ Goto(a, "started")
    /\ UNCHANGED <<lockVars, cell, run, kind, todo, snap>>

(* The finally clause, after start_run returned or raised.                 *)
AdhocRelease(a) ==
    /\ at[a] \in {"starting", "started"}
    /\ ReleaseCell(a, cell[a], "generating")
    /\ Return(a)
    /\ UNCHANGED fileVars
-----------------------------------------------------------------------------
ListOf(c) == {<<c, i>> : i \in Present(c)}

(* _run_generate_report classifies the chunks before it asks for the lock. *)
Classify(g, c) ==
    /\ at[g] = "idle"
    /\ Present(c) # {}
    /\ Goto(g, "classified")
    /\ cell' = [cell EXCEPT ![g] = c]
    /\ snap' = [snap EXCEPT ![g] = ListOf(c)]
    /\ UNCHANGED <<lockVars, fileVars, run, kind, todo>>

(* Mutant of GenAcquire: the report is generated without the lock.         *)
GenWithoutLock(g) ==
    /\ at[g] = "classified"
    /\ Goto(g, "locked")
    /\ UNCHANGED <<lockVars, fileVars, cell, run, kind, todo, snap>>

GenAcquire(g) ==
    /\ at[g] = "classified"
    /\ \/ /\ TryAcquireCell(g, cell[g], "generating", TRUE)
          /\ Goto(g, "locked")
                /\ UNCHANGED <<cell, run, kind, todo, snap>>
       \/ /\ ~CanAcquire(cell[g], "generating", TRUE)
          /\ Return(g)
          /\ UNCHANGED lockVars
    /\ UNCHANGED fileVars

(* A strict subset of the directory is hardlinked into a scope directory;  *)
(* a selection as large as the directory feeds the directory itself.  A    *)
(* selected chunk that is gone fails the generation.                       *)
Scope(g) ==
    /\ at[g] = "locked"
    /\ \/ /\ Cardinality(snap[g]) = Cardinality(Present(cell[g]))
          /\ snap' = [snap EXCEPT ![g] = ListOf(cell[g])]
          /\ Goto(g, "reading")
       \/ /\ Cardinality(snap[g]) # Cardinality(Present(cell[g]))
          /\ Goto(g, IF snap[g] \subseteq OnDisk THEN "reading" ELSE "releasing")
          /\ UNCHANGED snap
    /\ UNCHANGED <<lockVars, fileVars, cell, run, kind, todo>>

(* The report is written and indexed; the finally clause releases.         *)
Report(g) ==
    /\ at[g] = "reading"
    /\ Goto(g, "releasing")
    /\ UNCHANGED <<lockVars, fileVars, cell, run, kind, todo, snap>>

GenRelease(g) ==
    /\ at[g] = "releasing"
    /\ ReleaseCell(g, cell[g], "generating")
    /\ Return(g)
    /\ UNCHANGED fileVars
-----------------------------------------------------------------------------
ActiveCells == {c \in Cells : registry[c] # {}}

(* The cells a delete endpoint locks: its own mode, every mode directory   *)
(* on disk, or those and the cells active in the registry.                 *)
ToLock(k, c) ==
    CASE k \in {"version", "mode", "mode_force"} -> {c}
      [] k \in {"machine", "machine_force"}      -> dirs
      [] k = "all"                               -> dirs \cup ActiveCells

DeleteRequest(d, k, c) ==
    /\ at[d] = "idle"
    /\ Goto(d, "acquiring")
    /\ kind' = [kind EXCEPT ![d] = k]
    /\ cell' = [cell EXCEPT ![d] = c]
    /\ todo' = [todo EXCEPT ![d] = ToLock(k, c)]
    /\ UNCHANGED <<lockVars, fileVars, run, snap>>

(* One mode at a time; the first refusal rolls everything back.            *)
DeleteAcquire(d) ==
    /\ at[d] = "acquiring"
    /\ \E c \in todo[d] :
           \/ /\ TryAcquireCell(d, c, "deleting", FALSE)
              /\ todo' = [todo EXCEPT ![d] = @ \ {c}]
              /\ UNCHANGED at
           \/ /\ ~CanAcquire(c, "deleting", FALSE)
              /\ Goto(d, "rollback")
              /\ UNCHANGED <<lockVars, todo>>
    /\ UNCHANGED <<fileVars, cell, run, kind, snap>>

(* All acquired.  The all-data endpoint refuses while a run row is         *)
(* running; delete_rawdata lists the modes of the machine again.           *)
DeleteStart(d) ==
    /\ at[d] = "acquiring"
    /\ todo[d] = {}
    /\ \/ /\ kind[d] = "all"
          /\ RowRunning
          /\ Goto(d, "releasing")
          /\ UNCHANGED todo
       \/ /\ kind[d] = "all" => ~RowRunning
          /\ Goto(d, "unlinking")
          /\ todo' = [todo EXCEPT ![d] =
                 IF kind[d] \in {"version", "mode", "mode_force"} THEN {cell[d]} ELSE dirs]
    /\ UNCHANGED <<lockVars, fileVars, cell, run, kind, snap>>

Remove(gone) ==
    chunks' = [c \in Cells |-> [i \in ChunkIds |->
                  IF <<c, i>> \in gone THEN Absent ELSE chunks[c][i]]]

(* Tiered deletes list, mode by mode, what is above the quota (version:    *)
(* the chunks of one md5) and unlink the listed files one by one.          *)
DeleteList(d) ==
    /\ at[d] = "unlinking"
    /\ kind[d] \in {"version", "mode", "machine"}
    /\ snap[d] = {}
    /\ \E c \in todo[d] :
           /\ \E gone \in SUBSET Present(c) :
                  /\ kind[d] # "version" => gone = Deletable(c)
                  /\ snap' = [snap EXCEPT ![d] = {<<c, i>> : i \in gone}]
           /\ todo' = [todo EXCEPT ![d] = @ \ {c}]
    /\ UNCHANGED <<fileVars, lockVars, at, cell, run, kind>>

Unlink(t) ==
    /\ \E f \in snap[t] :
           /\ Remove({f})
           /\ snap' = [snap EXCEPT ![t] = @ \ {f}]
    /\ UNCHANGED <<proc, dirs, lockVars, at, cell, run, kind, todo>>

DeleteUnlink(d) == at[d] = "unlinking" /\ Unlink(d)

(* Forced deletes rmtree the mode, or the whole machine directory.         *)
DeleteTree(d) ==
    /\ at[d] = "unlinking"
    /\ kind[d] \in {"mode_force", "machine_force", "all"}
    /\ todo[d] # {}
    /\ LET tree == IF kind[d] = "mode_force" THEN {cell[d]} ELSE Cells
       IN  /\ Remove(tree \X ChunkIds)
           /\ dirs' = dirs \ tree
    /\ todo' = [todo EXCEPT ![d] = {}]
    /\ UNCHANGED <<proc, lockVars, at, cell, run, kind, snap>>

DeleteDone(d) ==
    /\ at[d] = "unlinking"
    /\ todo[d] = {} /\ snap[d] = {}
    /\ Goto(d, "releasing")
    /\ UNCHANGED <<lockVars, fileVars, cell, run, kind, todo, snap>>

(* Mutant of DeleteRelease: the rollback returns without releasing.        *)
DeleteReleaseLeaks(d) ==
    /\ at[d] \in {"rollback", "releasing"}
    /\ IF at[d] = "releasing" /\ \E c \in Cells : <<c, "deleting">> \in held[d]
       THEN /\ \E c \in Cells : ReleaseCell(d, c, "deleting")
            /\ UNCHANGED <<at, locals>>
       ELSE /\ Return(d)
            /\ UNCHANGED lockVars
    /\ UNCHANGED fileVars

(* The rollback loop and the finally clause release mode by mode.          *)
DeleteRelease(d) ==
    /\ at[d] \in {"rollback", "releasing"}
    /\ IF \E c \in Cells : <<c, "deleting">> \in held[d]
       THEN /\ \E c \in Cells : ReleaseCell(d, c, "deleting")
            /\ UNCHANGED <<at, locals>>
       ELSE /\ Return(d)
            /\ UNCHANGED lockVars
    /\ UNCHANGED fileVars
-----------------------------------------------------------------------------
(* cache_cleanup: refused while a run row is running, single-flight.       *)
CleanGate(k) ==
    /\ at[k] = "idle"
    /\ k \in ManualCleaners => ~RowRunning
    /\ Goto(k, "gated")
    /\ UNCHANGED <<lockVars, fileVars, cell, run, kind, todo, snap>>

(* The cells in use are read once, before the chunks are listed.           *)
CleanReadInUse(k) ==
    /\ at[k] = "gated"
    /\ IF k \in ManualCleaners THEN TryAcquireGlobal(k, "disk_cleanup")
                               ELSE UNCHANGED lockVars
    /\ Goto(k, "listing")
    /\ todo' = [todo EXCEPT ![k] = dirs \ ActiveCells]
    /\ UNCHANGED <<fileVars, cell, run, kind, snap>>

CleanList(k) ==
    /\ at[k] = "listing"
    /\ snap' = [snap EXCEPT ![k] =
                   {f \in OnDisk : f[1] \in todo[k] /\ f[2] \in Deletable(f[1])}]
    /\ todo' = [todo EXCEPT ![k] = {}]
    /\ Goto(k, "cleaning")
    /\ UNCHANGED <<lockVars, fileVars, cell, run, kind>>

CleanUnlink(k) == at[k] = "cleaning" /\ Unlink(k)

(* Enough space freed, or nothing left to delete.                          *)
CleanDone(k) ==
    /\ at[k] = "cleaning"
    /\ IF k \in ManualCleaners THEN ReleaseGlobal(k, "disk_cleanup")
                               ELSE UNCHANGED lockVars
    /\ Return(k)
    /\ UNCHANGED fileVars
-----------------------------------------------------------------------------
WorkerNext(w) ==
    \/ \E c \in cast.cells : AcquireSampling(w, c)
    \/ \E r \in cast.runs : StartSampling(w, r)
    \/ PublishRunId(w) \/ LeaveBeforeStart(w) \/ FinishWait(w) \/ Abandon(w)

AnalyzerNext(r) == Seed(r) \/ WriteChunk(r) \/ Exit(r)

AdhocNext(a) ==
    \/ \E c \in cast.cells : AdhocCheck(a, c)
    \/ \E r \in cast.runs : AdhocStart(a, r)
    \/ AdhocAcquire(a) \/ AdhocRelease(a)

GeneratorNext(g) ==
    \/ \E c \in cast.cells : Classify(g, c)
    \/ GenAcquire(g) \/ Scope(g) \/ Report(g) \/ GenRelease(g)

DeleterNext(d) ==
    \/ \E k \in cast.kinds, c \in cast.cells : DeleteRequest(d, k, c)
    \/ DeleteAcquire(d) \/ DeleteStart(d) \/ DeleteList(d) \/ DeleteTree(d)
    \/ DeleteUnlink(d) \/ DeleteDone(d) \/ DeleteRelease(d)

CleanerNext(k) ==
    CleanGate(k) \/ CleanReadInUse(k) \/ CleanList(k) \/ CleanUnlink(k) \/ CleanDone(k)

ThreadNext(t) ==
    \/ t \in Workers /\ WorkerNext(t)
    \/ t \in Adhoc /\ AdhocNext(t)
    \/ t \in Generators /\ GeneratorNext(t)
    \/ t \in Deleters /\ DeleterNext(t)
    \/ t \in AllCleaners /\ CleanerNext(t)

Next ==
    /\ \/ \E t \in cast.threads : ThreadNext(t)
       \/ \E r \in cast.runs : AnalyzerNext(r)
    /\ UNCHANGED cast

Spec == Init /\ [][Next]_vars

-----------------------------------------------------------------------------
(* The flows the registry makes safe together: every sampling is waited    *)
(* for, no ad-hoc run, no cleanup, and deletes of one mode at a time.      *)
Disciplined ==
    /\ cast.threads \cap (MayAbandon \cup Adhoc \cup AllCleaners) = {}
    /\ cast.kinds \subseteq {"version", "mode", "mode_force"}

(* Among those, a chunk file on disk is never replaced by another run's,   *)
(* and none disappears from a cell with a live analyzer or a report being  *)
(* read: data an active run still needs must not be deleted.               *)
NoLiveDataLost ==
    [][Disciplined => \A c \in Cells, i \in ChunkIds :
           chunks[c][i] # Absent /\ chunks'[c][i] # chunks[c][i] =>
               /\ chunks'[c][i] = Absent
               /\ \A r \in Runs : Live(r) => proc[r].cell # c
               /\ \A g \in Generators : at[g] = "reading" => cell[g] # c]_vars

(* The chunks a report is made from are on disk while it is made.          *)
ReportInputPresent ==
    Disciplined => \A g \in Generators : at[g] = "reading" => snap[g] \subseteq OnDisk

(* The retention quota protects the first chunks of a cell: as long as no  *)
(* forced delete and no delete of a version is among them, the tiered      *)
(* deletes and the cleanups never leave less than Keep chunks of a cell    *)
(* they take from, although each works through a list made earlier, some   *)
(* without a lock, while analyzers write.                                  *)
RetentionQuota ==
    [][cast.kinds \subseteq {"mode", "machine"} =>
           \A c \in Cells : Present(c) \ Present(c)' # {} => Cardinality(Present(c)') >= Keep]_vars

(* Every way out of a handler returns what it took: a thread that is idle  *)
(* holds nothing, so a cell nobody works on is free in the registry.       *)
LocksReturned ==
    /\ \A t \in Threads : at[t] = "idle" => held[t] = {} /\ heldGlobal[t] = {}
    /\ \A c \in Cells : \A op \in registry[c] :
           \E t \in Threads : at[t] # "idle" /\ <<c, op>> \in held[t]

=============================================================================
