----------------------------- MODULE ReportIndex -----------------------------
(***************************************************************************)
(* The report store of one (machine, mode): the version directories, the   *)
(* run rows that name them, index.json and latest.json, and everything     *)
(* that writes them:                                                       *)
(*   - the producers (run finalizer, generate-report, import), which       *)
(*     append under the report-index lock (report_index.py);               *)
(*   - delete_report_version, delete_run, cleanup_old_reports and          *)
(*     _tag_reports_stale, which read index.json and write it back without *)
(*     that lock (app.py);                                                 *)
(*   - prune_versions and reconcile_reports, which decide outside the lock *)
(*     and write under it (reports_retention.py, app.py);                  *)
(*   - an import in replace mode and the all-data delete, which remove the *)
(*     whole tree without it (app.py).                                     *)
(* Producers fail before and after their summary is on disk, directories   *)
(* and files refuse to go, rewrites raise, and the console may be killed.  *)
(*                                                                         *)
(* A version is a number, in the order of the rv_<timestamp> names.  An    *)
(* index entry is the version it names, the version whose summary file it  *)
(* carries and its created_at.  All paths are canonical and all fields     *)
(* filled, so reconcile's actions 4 to 6 have nothing to do; the SQLite    *)
(* backfill (action 8) and the flag _tag_reports_stale sets on the entries *)
(* are left out.  In-process lock only: every caller of the append runs in *)
(* the console's process.                                                  *)
(***************************************************************************)
EXTENDS Integers, Sequences, FiniteSetsExt

CONSTANTS Versions,     (* a set of numbers                                   *)
          Origin,       (* [Versions -> {"sample", "generate", "import"}]     *)
          Tag,          (* [Versions -> tags], the analyzer_version stamped   *)
          Effective,    (* [Versions -> tags], its effective_analyzer_version *)
          CurrentTag,   (* the effective version of the cell, or "none"       *)
          KeepLast,     (* prune_versions' keep_last                          *)
          MaxClock,     (* bound on the seconds that pass                     *)
          MaxReports,   (* bound on the versions that are ever begun          *)
          MaxMaint,     (* bound on the maintenance calls                     *)
          MaxFaults,    (* bound on removals and writes that fail, and kills  *)
          None

ASSUME StoreAssumption ==
    /\ Versions \subseteq Nat /\ IsFiniteSet(Versions)
    /\ Origin \in [Versions -> {"sample", "generate", "import"}]
    /\ MaxClock \in Nat /\ MaxReports \in Nat /\ MaxMaint \in Nat /\ MaxFaults \in Nat
    /\ None \notin Versions /\ None # "deleted"
    /\ None \notin [rv : Versions, sf : Versions, created : 0..MaxClock]

Maint == {"delete_version", "delete_run", "cleanup", "tag", "prune", "reconcile", "wipe"}

VARIABLES dir,      (* [Versions -> {"none", "partial", "full"}]; full = has
                       player_impact_summary.json                            *)
          row,      (* [Versions -> {"none", "active", "done", "failed"}]    *)
          index,    (* index.json                                            *)
          latest,   (* latest.json, or None when the file does not exist     *)
          lock,     (* the producer inside _report_index_lock, or None       *)
          read,     (* the list that producer read                           *)
          pc,       (* [Versions -> where the producer of a version is]      *)
          stamp,    (* [Versions -> created_at of the entry it built]        *)
          m,        (* [Maint -> the state of a maintenance call]            *)
          spent,    (* maintenance calls and faults so far                   *)
          clock,    (* the second _now_iso returns                           *)
          exposed   (* ghost: versions a rewrite may legitimately confuse,
                       or a step that failed has left half done              *)

store == <<dir, row, index, latest>>
storeVars == <<dir, row, index, latest, lock, read, pc, stamp, m, spent, clock, exposed>>

Idle == [pc |-> "idle", of |-> {}, one |-> None, idx |-> <<>>, full |-> {}]
Entry(v, t) == [rv |-> v, sf |-> v, created |-> t]
Rvs(s) == {s[i].rv : i \in DOMAIN s}

(* The i-th smallest of some numbers, and a list without some versions.    *)
Nth(S, i) == CHOOSE x \in S : Cardinality({y \in S : y <= x}) = i
Without(s, vs) ==
    LET kept == {i \in DOMAIN s : s[i].rv \notin vs}
    IN [i \in 1..Cardinality(kept) |-> s[Nth(kept, i)]]
FullDirs == {v \in Versions : dir[v] = "full"}
DirsOnDisk == {v \in Versions : dir[v] # "none"}

StoreTypeOK ==
    /\ dir \in [Versions -> {"none", "partial", "full"}]
    /\ row \in [Versions -> {"none", "active", "done", "failed"}]
    /\ Rvs(index) \subseteq Versions
    /\ lock \in Versions \cup {None}
    /\ pc \in [Versions -> {"new", "begun", "running", "built", "locked", "end", "failed"}]
    /\ clock \in 0..MaxClock
    /\ spent \in [calls : 0..MaxMaint, faults : 0..MaxFaults] /\ exposed \subseteq Versions

StoreInit ==
    /\ dir = [v \in Versions |-> "none"]
    /\ row = [v \in Versions |-> "none"]
    /\ index = <<>> /\ latest = None
    /\ lock = None /\ read = <<>>
    /\ pc = [v \in Versions |-> "new"]
    /\ stamp = [v \in Versions |-> 0]
    /\ m = [p \in Maint |-> Idle]
    /\ spent = [calls |-> 0, faults |-> 0] /\ clock = 0 /\ exposed = {}
-----------------------------------------------------------------------------
(* The cell operations held (cell_lock_registry.py): a sampling run holds  *)
(* SAMPLING, a generation and delete_run GENERATING, delete_report_version,*)
(* the rawdata delete that tags the reports and the all-data delete        *)
(* DELETING; an import and the three fleet-wide maintenance calls hold no  *)
(* cell.                                                                   *)
InFlight == {v \in Versions : pc[v] \notin {"new", "end", "failed"}}
CellOps ==
    {CASE Origin[v] = "sample" -> "sampling" [] Origin[v] = "generate" -> "generating"
          : v \in {x \in InFlight : Origin[x] # "import"}}
        \cup (IF m["delete_run"].pc # "idle" THEN {"generating"} ELSE {})
        \cup (IF \/ \E p \in {"delete_version", "tag"} : m[p].pc # "idle"
                 \/ m["wipe"].pc # "idle" /\ m["wipe"].one # None
              THEN {"deleting"} ELSE {})

Refused(op) ==
    CASE op = "sampling"   -> {"deleting", "sampling"}
      [] op = "generating" -> {"deleting", "generating"}
      [] op = "deleting"   -> {"sampling", "generating", "deleting"}
CanTake(op) == CellOps \cap Refused(op) = {}

(* The newest entry: created_at, ties to the later position.               *)
Newest(s) ==
    IF s = <<>> THEN None
    ELSE s[CHOOSE i \in DOMAIN s : \A j \in DOMAIN s :
              s[j].created < s[i].created \/ (s[j].created = s[i].created /\ j <= i)]

(* prune and reconcile break ties by version name before position.         *)
NewestByName(s) ==
    IF s = <<>> THEN None
    ELSE s[CHOOSE i \in DOMAIN s : \A j \in DOMAIN s :
              \/ s[j].created < s[i].created
              \/ s[j].created = s[i].created /\ s[j].rv < s[i].rv
              \/ s[j].created = s[i].created /\ s[j].rv = s[i].rv /\ j <= i]
-----------------------------------------------------------------------------
Spend(c, f) ==
    /\ spent.calls + c <= MaxMaint /\ spent.faults + f <= MaxFaults
    /\ spent' = [calls |-> spent.calls + c, faults |-> spent.faults + f]

(* rmtree of version directories: all go or, with a fault, some stay,      *)
(* whole or without their summary.                                         *)
RmTree(vs, f) ==
    \E left \in [vs -> {"none", "partial", "full"}] :
       /\ \A v \in vs : \/ left[v] \in {"none", dir[v]}
                        \/ left[v] = "partial" /\ dir[v] = "full"
       /\ f = 0 <=> \A v \in vs : left[v] = "none"
       /\ dir' = [v \in Versions |-> IF v \in vs THEN left[v] ELSE dir[v]]

Gutted(vs) == {v \in vs : dir[v] = "full" /\ dir'[v] = "partial"}
Unmoved(vs) == {v \in vs : dir'[v] = "full"}
DropRows(vs) == row' = [v \in Versions |-> IF v \in vs THEN "none" ELSE row[v]]
-----------------------------------------------------------------------------
NextReport(v) ==
    /\ pc[v] = "new" /\ dir[v] = "none"
    /\ Cardinality({x \in Versions : pc[x] # "new"}) < MaxReports

(* Producers.  A sampling run and a generation take their cell operation,  *)
(* create the directory and then insert the running row.                   *)
Begin(v) ==
    /\ NextReport(v) /\ Origin[v] # "import"
    /\ CanTake(IF Origin[v] = "sample" THEN "sampling" ELSE "generating")
    /\ pc' = [pc EXCEPT ![v] = "begun"]
    /\ dir' = [dir EXCEPT ![v] = "partial"]
    /\ UNCHANGED <<row, index, latest, lock, read, stamp, m, spent, clock, exposed>>

Register(v) ==
    /\ pc[v] = "begun" /\ Origin[v] # "import"
    /\ pc' = [pc EXCEPT ![v] = "running"]
    /\ row' = [row EXCEPT ![v] = "active"]
    /\ UNCHANGED <<dir, index, latest, lock, read, stamp, m, spent, clock, exposed>>

(* An import inserts the importing row of a version it does not find on    *)
(* disk, then copies the directory; it holds no cell.                      *)
ImportRow(v) ==
    /\ NextReport(v) /\ Origin[v] = "import"
    /\ pc' = [pc EXCEPT ![v] = "begun"]
    /\ row' = [row EXCEPT ![v] = "active"]
    /\ UNCHANGED <<dir, index, latest, lock, read, stamp, m, spent, clock, exposed>>

ImportCopy(v) ==
    /\ pc[v] = "begun" /\ Origin[v] = "import"
    /\ pc' = [pc EXCEPT ![v] = "running"]
    /\ dir' = [dir EXCEPT ![v] = "partial"]
    /\ UNCHANGED <<row, index, latest, lock, read, stamp, m, spent, clock, exposed>>

(* The summary is written (analyzer, engine or copytree) and the entry     *)
(* built, which stamps created_at before the lock is taken (in the second  *)
(* of the last entry or a later one).  A directory that was removed        *)
(* meanwhile makes the write fail.                                         *)
Written(v) ==
    /\ pc[v] = "running" /\ dir[v] = "partial"
    /\ dir' = [dir EXCEPT ![v] = "full"]
    /\ pc' = [pc EXCEPT ![v] = "built"]
    /\ clock' \in {clock, clock + 1} \cap 0..MaxClock
    /\ stamp' = [stamp EXCEPT ![v] = clock']
    /\ UNCHANGED <<index, latest, lock, read, m, spent, exposed>>

Completed(v) == row' = [row EXCEPT ![v] = IF @ = "active" THEN "done" ELSE @]

(* generate-report and import complete the row before the append, a        *)
(* sampling run's watcher after it.                                        *)
Finish(v)       == Origin[v] = "generate" /\ Written(v) /\ Completed(v)
ImportFinish(v) == Origin[v] = "import" /\ Written(v) /\ Completed(v)
FinishSample(v) == Origin[v] = "sample" /\ Written(v) /\ UNCHANGED row

(* A failure before the append: how the producer leaves its directory.  A  *)
(* generation removes it unless the engine has written the summary, which  *)
(* then stays, unlisted; a sampling run leaves it, with a summary if the   *)
(* analyzer wrote one (no spins, an exit code); an import rolls back its   *)
(* row and its directory.  A removal may fail.                             *)
Failing(v, left, f) ==
    /\ pc[v] = "running"
    /\ pc' = [pc EXCEPT ![v] = "failed"]
    /\ dir' = [dir EXCEPT ![v] = IF @ = "none" THEN @ ELSE left]
    /\ Spend(0, f)
    /\ UNCHANGED <<index, latest, lock, read, stamp, m, clock, exposed>>
FailRow(v) == row' = [row EXCEPT ![v] = IF @ = "none" THEN @ ELSE "failed"]

GenerateFails(v) ==
    /\ Origin[v] = "generate" /\ FailRow(v)
    /\ \/ \E left \in {"none", "full"} : Failing(v, left, 0)
       \/ Failing(v, "partial", 1)

SampleFails(v) ==
    /\ Origin[v] = "sample" /\ FailRow(v)
    /\ \E left \in {"partial", "full"} : Failing(v, left, 0)

ImportRollback(v) ==
    /\ Origin[v] = "import" /\ row' = [row EXCEPT ![v] = "none"]
    /\ \/ Failing(v, "none", 0)
       \/ \E left \in {"partial", "full"} : Failing(v, left, 1)

(* Mutant of AppendRead: no lock around the read-modify-write.             *)
AppendReadUnlocked(v) ==
    /\ pc[v] = "built"
    /\ lock' = v /\ read' = index
    /\ pc' = [pc EXCEPT ![v] = "locked"]
    /\ UNCHANGED <<store, stamp, m, spent, clock, exposed>>

(* append_and_rewrite_latest: lock, read; then write both files, unlock.   *)
AppendRead(v) ==
    /\ pc[v] = "built" /\ lock = None
    /\ lock' = v /\ read' = index
    /\ pc' = [pc EXCEPT ![v] = "locked"]
    /\ UNCHANGED <<store, stamp, m, spent, clock, exposed>>

(* An index.json that cannot be read counts as empty.                      *)
AppendReadFails(v) ==
    /\ pc[v] = "built" /\ lock = None
    /\ lock' = v /\ read' = <<>>
    /\ pc' = [pc EXCEPT ![v] = "locked"]
    /\ Spend(0, 1)
    /\ exposed' = exposed \cup Rvs(index)
    /\ UNCHANGED <<store, stamp, m, clock>>

AppendWrite(v) ==
    /\ pc[v] = "locked"
    /\ index' = Append(read, Entry(v, stamp[v]))
    /\ latest' = Newest(index')
    /\ lock' = None /\ read' = <<>>
    /\ pc' = [pc EXCEPT ![v] = "end"]
    /\ Completed(v)
    /\ stamp' = [stamp EXCEPT ![v] = 0]
    /\ UNCHANGED <<dir, m, spent, clock, exposed>>

(* The append raises, before it has the lock or in one of its two writes.  *)
(* An import swallows that, a generation fails a row that was completed    *)
(* (a batch leaves it), a sampling run's watcher ends and leaves it        *)
(* running.                                                                *)
AppendFails(v) ==
    /\ pc[v] \in {"built", "locked"}
    /\ Spend(0, 1)
    /\ \/ UNCHANGED <<index, exposed>>
       \/ /\ pc[v] = "locked"
          /\ index' = Append(read, Entry(v, stamp[v]))
          /\ exposed' = exposed \cup {v}
    /\ UNCHANGED row \/ (Origin[v] = "generate" /\ FailRow(v))
    /\ pc' = [pc EXCEPT ![v] = "failed"]
    /\ stamp' = [stamp EXCEPT ![v] = 0]
    /\ IF lock = v THEN lock' = None /\ read' = <<>> ELSE UNCHANGED <<lock, read>>
    /\ UNCHANGED <<dir, latest, m, clock>>
-----------------------------------------------------------------------------
(* What maintenance calls have in common.                                  *)
Start(p, r, f) ==
    /\ m[p] = Idle /\ Spend(1, f)
    /\ m' = [m EXCEPT ![p] = r]
End(p) == m' = [m EXCEPT ![p] = Idle]

(* What changed since the call read the index.                             *)
Changed(p) ==
    {v \in Versions : \/ (v \in Rvs(index)) # (v \in Rvs(m[p].idx))
                      \/ (v \in FullDirs) # (v \in m[p].full)}
Imports == {v \in Versions : Origin[v] = "import"}

(* read_json(index_path).                                                  *)
ReadIndex(p, from, to) ==
    /\ m[p].pc = from
    /\ m' = [m EXCEPT ![p].pc = to, ![p].idx = index, ![p].full = FullDirs]
    /\ UNCHANGED <<store, lock, read, pc, stamp, spent, clock, exposed>>

(* The plain write of what was read before, less the entries of `of`,      *)
(* under config_writer's lock for the path (tag's read-modify-write holds  *)
(* it throughout).  `guarded`: versions the caller's cell lock protects.   *)
WriteBack(p, from, to, guarded) ==
    /\ m[p].pc = from
    /\ p = "tag" \/ m["tag"].pc # "write"
    /\ index' = Without(m[p].idx, m[p].of)
    /\ exposed' = exposed \cup (Changed(p) \ guarded)
                          \cup (IF lock = None THEN {} ELSE m[p].of)
    /\ m' = [m EXCEPT ![p].pc = to, ![p].full = {}]
    /\ UNCHANGED <<dir, row, latest, lock, read, pc, stamp, spent, clock>>

(* Versions of which an operation that holds DELETING may believe what it  *)
(* read: their producers are kept away, unless a reconcile finds the       *)
(* report of a failed one missing.                                         *)
Guarded(p) == {v \in FullDirs \ Imports : pc[v] = "failed" => v \in Rvs(m[p].idx)}

(* latest.json is chosen from the list written before: what changed since. *)
Overtaken(p) ==
    {v \in Versions : (v \in Rvs(index)) # (v \in Rvs(Without(m[p].idx, m[p].of)))}
-----------------------------------------------------------------------------
(* DELETE /api/reports/{machine}/{mode}/{version}.                         *)
DeleteVersion(v) ==
    /\ CanTake("deleting")
    /\ v \in DirsOnDisk \cup Rvs(index)
    /\ Start("delete_version", [Idle EXCEPT !.pc = "read", !.of = {v}], 0)
    /\ RmTree({v}, 0) /\ DropRows({v})
    /\ exposed' = exposed \cup ({v} \cap InFlight)
    /\ UNCHANGED <<index, latest, lock, read, pc, stamp, clock>>

(* The directory stays, the row is gone: the call ends with a 500.         *)
DeleteVersionFails(v) ==
    /\ CanTake("deleting") /\ m["delete_version"] = Idle
    /\ Spend(1, 1)
    /\ RmTree({v}, 1) /\ DropRows({v})
    /\ exposed' = exposed \cup ({v} \cap InFlight) \cup Gutted({v})
    /\ UNCHANGED <<index, latest, lock, read, pc, stamp, m, clock>>

DvRead  == ReadIndex("delete_version", "read", "write")
DvWrite == WriteBack("delete_version", "write", "latest", Guarded("delete_version"))

(* Mutant of DvLatest: latest.json is left to the next finalize.           *)
DvLatestSkipped ==
    /\ m["delete_version"].pc = "latest"
    /\ End("delete_version")
    /\ UNCHANGED <<store, lock, read, pc, stamp, spent, clock, exposed>>

(* latest.json is rewritten only if it names the deleted version, to the   *)
(* highest version name of what was read.                                  *)
DvLatest ==
    LET p == "delete_version"
        rest == Without(m[p].idx, m[p].of)
        top  == CHOOSE i \in DOMAIN rest : \A j \in DOMAIN rest :
                    rest[j].rv < rest[i].rv \/ (rest[j].rv = rest[i].rv /\ i <= j)
    IN /\ m[p].pc = "latest"
       /\ latest' = IF latest = None \/ latest.rv \notin m[p].of THEN latest
                    ELSE IF rest = <<>> THEN None ELSE rest[top]
       /\ exposed' = exposed \cup (Overtaken(p) \ Guarded(p))
       /\ End(p)
       /\ UNCHANGED <<dir, row, index, lock, read, pc, stamp, spent, clock>>

(* DELETE /api/runs/{run_id}: refused while the row is running or a        *)
(* watcher has the run.  A directory that stays is passed over.            *)
DeleteRun(v) ==
    /\ CanTake("generating")
    /\ row[v] # "none" /\ (row[v] = "active" => Origin[v] = "import")
    /\ v \in InFlight => Origin[v] # "sample"
    /\ \E f \in {0, 1} : /\ Start("delete_run", [Idle EXCEPT !.pc = "read", !.of = {v}], f)
                         /\ RmTree({v}, f)
    /\ exposed' = exposed \cup ({v} \cap InFlight) \cup Gutted({v}) \cup Unmoved({v})
    /\ UNCHANGED <<row, index, latest, lock, read, pc, stamp, clock>>

DrRead  == ReadIndex("delete_run", "read", "write")
DrWrite == WriteBack("delete_run", "write", "latest", {})

(* latest.json becomes the last remaining item; then the row goes.         *)
DrLatest ==
    LET p == "delete_run"
        rest == Without(m[p].idx, m[p].of)
    IN /\ m[p].pc = "latest"
       /\ latest' = IF rest = <<>> THEN None ELSE rest[Len(rest)]
       /\ DropRows(m[p].of)
       /\ exposed' = exposed \cup Overtaken(p)
       /\ End(p)
       /\ UNCHANGED <<dir, index, lock, read, pc, stamp, spent, clock>>

(* _tag_reports_stale, called by a rawdata delete under DELETING: it       *)
(* writes back every entry it read, flagged.                               *)
TagStale ==
    /\ CanTake("deleting") /\ index # <<>>
    /\ Start("tag", [Idle EXCEPT !.pc = "write", !.idx = index, !.full = FullDirs], 0)
    /\ UNCHANGED <<store, lock, read, pc, stamp, clock, exposed>>

TagWrite ==
    /\ m["tag"].pc = "write"
    /\ index' = m["tag"].idx
    /\ exposed' = exposed \cup (Changed("tag") \ Guarded("tag"))
    /\ End("tag")
    /\ UNCHANGED <<dir, row, latest, lock, read, pc, stamp, spent, clock>>
-----------------------------------------------------------------------------
(* POST /api/reports/cleanup, for this cell.  A directory without summary  *)
(* has the empty tag.                                                      *)
TagOf(v) == IF dir[v] = "full" THEN Tag[v] ELSE ""
EffectiveOf(v) == IF dir[v] = "full" THEN Effective[v] ELSE ""

(* With a current report the newest of them survives, and every version    *)
(* that is stale or has the survivor's analyzer version goes; without one  *)
(* only older versions with the newest one's analyzer version go.          *)
Current == {v \in DirsOnDisk : EffectiveOf(v) = CurrentTag}
Survivor == Max(IF Current # {} THEN Current ELSE DirsOnDisk)
CleanupVictims ==
    {v \in DirsOnDisk \ {Survivor} : \/ TagOf(v) = TagOf(Survivor)
                                     \/ Current # {} /\ v \notin Current}

Cleanup ==
    /\ DirsOnDisk # {}
    /\ Start("cleanup", [Idle EXCEPT !.pc = "remove", !.of = CleanupVictims,
                                     !.one = Survivor], 0)
    /\ exposed' = exposed \cup ((CleanupVictims \cup {Survivor}) \cap InFlight)
    /\ UNCHANGED <<store, lock, read, pc, stamp, clock>>

CleanupRemove ==
    LET p == "cleanup"
    IN /\ m[p].pc = "remove"
       /\ \E f \in {0, 1} : Spend(0, f) /\ RmTree(m[p].of, f)
       /\ DropRows(m[p].of)
       /\ exposed' = exposed \cup (m[p].of \cap InFlight)
                             \cup Gutted(m[p].of) \cup Unmoved(m[p].of)
       /\ IF m[p].of = {} THEN End(p) ELSE m' = [m EXCEPT ![p].pc = "read"]
       /\ UNCHANGED <<index, latest, lock, read, pc, stamp, clock>>

CleanupRead  == ReadIndex("cleanup", "read", "write")
CleanupWrite == WriteBack("cleanup", "write", "latest", {})

(* Only the report_version of latest.json is overwritten, with a survivor  *)
(* that need not be listed (a directory without summary, one deleted       *)
(* meanwhile).                                                             *)
CleanupLatest ==
    LET p == "cleanup"
    IN /\ m[p].pc = "latest"
       /\ latest' = IF latest = None THEN None ELSE [latest EXCEPT !.rv = m[p].one]
       /\ exposed' = exposed \cup Overtaken(p) \cup ({m[p].one} \ Rvs(index))
       /\ End(p)
       /\ UNCHANGED <<dir, row, index, lock, read, pc, stamp, spent, clock>>

(* A rewrite of index.json or latest.json raises.  delete_run gives up on  *)
(* both, the other two go on to latest.json; the answer is the same.       *)
RewriteFails(p) ==
    /\ m[p].pc \in {"write", "latest"} /\ Spend(0, 1)
    /\ exposed' = exposed \cup m[p].of
    /\ IF p = "delete_run" THEN DropRows(m[p].of) ELSE UNCHANGED row
    /\ IF m[p].pc = "write" /\ p # "delete_run" THEN m' = [m EXCEPT ![p].pc = "latest"]
       ELSE End(p)
    /\ UNCHANGED <<dir, index, latest, lock, read, pc, stamp, clock>>
-----------------------------------------------------------------------------
(* POST /api/maintenance/prune: the KeepLast highest names stay; `of` is   *)
(* what is left to drop, `one` whether a directory was removed.            *)
Dropped == {v \in DirsOnDisk : Cardinality({w \in DirsOnDisk : w > v}) >= KeepLast}

Prune ==
    /\ Dropped # {}
    /\ Start("prune", [Idle EXCEPT !.pc = "check", !.of = Dropped], 0)
    /\ UNCHANGED <<store, lock, read, pc, stamp, clock, exposed>>

PruneCheck ==
    LET p == "prune"
        v == Max(m[p].of)
    IN /\ m[p].pc = "check" /\ m[p].of # {}
       /\ m' = IF row[v] = "active" THEN [m EXCEPT ![p].of = @ \ {v}]
               ELSE [m EXCEPT ![p].pc = "remove"]
       /\ UNCHANGED <<store, lock, read, pc, stamp, spent, clock, exposed>>

(* A version whose directory stays keeps its row.                          *)
PruneRemove ==
    LET p == "prune"
        v == Max(m[p].of)
    IN /\ m[p].pc = "remove"
       /\ \E f \in {0, 1} :
             /\ Spend(0, f) /\ RmTree({v}, f)
             /\ IF f = 0 THEN DropRows({v}) ELSE UNCHANGED row
             /\ m' = [m EXCEPT ![p].pc = "check", ![p].of = @ \ {v},
                               ![p].one = IF f = 0 THEN "deleted" ELSE @]
       /\ exposed' = exposed \cup ({v} \cap InFlight) \cup Gutted({v})
       /\ UNCHANGED <<index, latest, lock, read, pc, stamp, clock>>

(* Mutant of PruneScan: no manifest refresh.                               *)
PruneScanNever ==
    /\ m["prune"].pc = "check" /\ m["prune"].of = {}
    /\ End("prune")
    /\ UNCHANGED <<store, lock, read, pc, stamp, spent, clock, exposed>>

(* _refresh_mode_manifests, if a directory went: entries are rebuilt from  *)
(* the surviving directories, outside the lock ...                         *)
PruneScan ==
    LET p == "prune"
    IN /\ m[p].pc = "check" /\ m[p].of = {}
       /\ m' = IF m[p].one = None THEN [m EXCEPT ![p] = Idle]
               ELSE [m EXCEPT ![p].pc = "write", ![p].idx = index,
                              ![p].full = FullDirs, ![p].one = clock]
       /\ UNCHANGED <<store, lock, read, pc, stamp, spent, clock, exposed>>

Entries(vs, t) == [i \in 1..Cardinality(vs) |-> Entry(Nth(vs, i), t)]

(* ... and written under it.                                               *)
PruneWrite ==
    LET p == "prune"
    IN /\ m[p].pc = "write" /\ lock = None
       /\ index' = Entries(m[p].full, m[p].one)
       /\ latest' = NewestByName(index')
       /\ exposed' = exposed \cup Changed(p)
       /\ End(p)
       /\ UNCHANGED <<dir, row, lock, read, pc, stamp, spent, clock>>
-----------------------------------------------------------------------------
(* POST /api/maintenance/reconcile-reports (dry_run false): the active     *)
(* rows are read first (`of`), then index.json ...                         *)
Reconcile ==
    /\ Start("reconcile", [Idle EXCEPT !.pc = "read",
                                       !.of = {v \in Versions : row[v] = "active"}], 0)
    /\ UNCHANGED <<store, lock, read, pc, stamp, clock, exposed>>

RecRead == ReadIndex("reconcile", "read", "scan")

(* Mutant of Repaired: versions missing from the index stay missing.       *)
RepairedNoAppend(s, gone, t) == Without(s, gone)

(* The new index: directories deleted lose their entries, directories with *)
(* a summary and no entry get one.                                         *)
Repaired(s, gone, t) == Without(s, gone) \o Entries(FullDirs \ Rvs(s), t)

(* ... then the directories: an empty one is removed, and so is one        *)
(* without summary that no active row names and that is older than an      *)
(* hour.  Its entry goes even if the directory stays.  What is spared is   *)
(* left in `of`.                                                           *)
RecScan ==
    LET p == "reconcile"
        bare == {v \in Versions : dir[v] = "partial"}
    IN /\ m[p].pc = "scan"
       /\ \E gone \in SUBSET {v \in bare : v \notin m[p].of \/ v \in InFlight}, f \in {0, 1} :
             /\ Spend(0, f) /\ RmTree(gone, f)
             /\ exposed' = exposed \cup (gone \cap InFlight)
             /\ m' = [m EXCEPT ![p].full = FullDirs, ![p].pc = "write", ![p].of = bare \ gone,
                               ![p].one = Repaired(m[p].idx, gone, clock)]
       /\ UNCHANGED <<row, index, latest, lock, read, pc, stamp, clock>>

(* Dirty: index.json and latest.json under the lock.  Otherwise only a     *)
(* latest.json that is not the newest of what was read, without the lock.  *)
RecWrite ==
    LET p == "reconcile"
        new == m[p].one
        top == NewestByName(new)
        rvOf(e) == IF e = None THEN None ELSE e.rv
    IN /\ m[p].pc = "write"
       /\ \/ /\ new # m[p].idx /\ lock = None
             /\ index' = new
             /\ exposed' = exposed \cup Changed(p)
          \/ /\ new = m[p].idx
             /\ exposed' = IF Changed(p) = {} THEN exposed ELSE exposed \cup Rvs(new) \cup Rvs(index)
             /\ UNCHANGED index
       /\ latest' = IF rvOf(latest) = rvOf(top) THEN latest ELSE top
       /\ End(p)
       /\ UNCHANGED <<dir, row, lock, read, pc, stamp, spent, clock>>
-----------------------------------------------------------------------------
(* The tree of the machine is removed, directories and files in either     *)
(* order: by DELETE /api/machines/{machine}/all-data, which refuses while  *)
(* a run is running, passes over what stays and drops the rows it listed   *)
(* (`of`; `one` tells the two apart), and by an import in replace mode,    *)
(* which fails when something stays and leaves the rows alone.             *)
WipeAllData ==
    /\ CanTake("deleting")
    /\ \A v \in Versions : row[v] = "active" => Origin[v] = "import"
    /\ Start("wipe", [Idle EXCEPT !.pc = "tree", !.one = "deleted",
                                  !.of = {v \in Versions : row[v] # "none"}], 0)
    /\ UNCHANGED <<store, lock, read, pc, stamp, clock, exposed>>

WipeForImport ==
    /\ DirsOnDisk # {} \/ index # <<>>
    /\ Start("wipe", [Idle EXCEPT !.pc = "tree"], 0)
    /\ UNCHANGED <<store, lock, read, pc, stamp, clock, exposed>>

(* On to what is left of the tree, or the end.                             *)
WipeOn(left) ==
    LET p == "wipe"
    IN IF m[p].pc = "tree" /\ left # "over"
       THEN m' = [m EXCEPT ![p].pc = left] /\ UNCHANGED row
       ELSE End(p) /\ DropRows(m[p].of)

WipeDirs ==
    LET p == "wipe"
    IN /\ m[p].pc \in {"tree", "dirs"}
       /\ \E f \in {0, 1} :
             /\ Spend(0, f) /\ RmTree(Versions, f)
             /\ WipeOn(IF f = 1 /\ m[p].one = None THEN "over" ELSE "files")
             /\ exposed' = exposed \cup InFlight \cup Gutted(Versions) \cup Unmoved(Versions)
                    \cup (IF f = 1 \/ m[p].pc = "dirs" THEN Rvs(index) \cup Rvs(read) ELSE {})
       /\ UNCHANGED <<index, latest, lock, read, pc, stamp, clock>>

WipeFiles ==
    LET p == "wipe"
    IN /\ m[p].pc \in {"tree", "files"}
       /\ \/ /\ index' = <<>> /\ latest' = None
             /\ exposed' = exposed \cup FullDirs \cup Rvs(read)
             /\ WipeOn("dirs") /\ UNCHANGED spent
          \/ /\ index' \in {index, <<>>} /\ latest' \in {latest, None}
             /\ Spend(0, 1)
             /\ exposed' = exposed \cup FullDirs \cup Rvs(read) \cup Rvs(index)
             /\ WipeOn(IF m[p].one = None THEN "over" ELSE "dirs")
       /\ UNCHANGED <<dir, lock, read, pc, stamp, clock>>

(* What a kill may leave of a write of the two files: the index only.      *)
HalfWritten ==
    IF lock # None THEN {Append(read, Entry(lock, stamp[lock]))}
    ELSE (IF m["prune"].pc = "write" THEN {Entries(m["prune"].full, m["prune"].one)} ELSE {})
         \cup (IF m["reconcile"].pc = "write" THEN {m["reconcile"].one} ELSE {})

(* The console is killed.  Analyzers and pool workers may still write      *)
(* their summary, which nobody lists; recovery fails the running rows and  *)
(* leaves an importing one.  A run it resumes is a new version.            *)
Crash ==
    /\ Spend(0, 1)
    /\ index' \in {index} \cup HalfWritten
    /\ \E wrote \in SUBSET {v \in InFlight : dir[v] = "partial"} :
          dir' = [v \in Versions |-> IF v \in wrote THEN "full" ELSE dir[v]]
    /\ row' = [v \in Versions |-> IF row[v] = "active" /\ Origin[v] # "import"
                                  THEN "failed" ELSE row[v]]
    /\ pc' = [v \in Versions |-> IF v \in InFlight THEN "failed" ELSE pc[v]]
    /\ stamp' = [v \in Versions |-> 0]
    /\ lock' = None /\ read' = <<>> /\ m' = [p \in Maint |-> Idle]
    /\ exposed' = exposed \cup {v \in Versions : (v \in Rvs(index)) # (dir[v] = "full")}
                          \cup (UNION {m[p].of : p \in {"delete_version", "delete_run", "cleanup"}})
                          \cup (IF index' = index THEN {} ELSE Rvs(index) \cup Rvs(index'))
    /\ UNCHANGED <<latest, clock>>
-----------------------------------------------------------------------------
Produce(v) ==
    \/ Begin(v) \/ Register(v) \/ Finish(v) \/ FinishSample(v)
    \/ GenerateFails(v) \/ SampleFails(v)
    \/ ImportRow(v) \/ ImportCopy(v) \/ ImportFinish(v) \/ ImportRollback(v)
    \/ AppendRead(v) \/ AppendReadFails(v) \/ AppendWrite(v) \/ AppendFails(v)

Maintain ==
    \/ \E v \in Versions : DeleteVersion(v) \/ DeleteVersionFails(v) \/ DeleteRun(v)
    \/ DvRead \/ DvWrite \/ DvLatest
    \/ DrRead \/ DrWrite \/ DrLatest
    \/ TagStale \/ TagWrite
    \/ Cleanup \/ CleanupRemove \/ CleanupRead \/ CleanupWrite \/ CleanupLatest
    \/ \E p \in {"delete_version", "delete_run", "cleanup"} : RewriteFails(p)
    \/ Prune \/ PruneCheck \/ PruneRemove \/ PruneScan \/ PruneWrite
    \/ Reconcile \/ RecRead \/ RecScan \/ RecWrite
    \/ WipeAllData \/ WipeForImport \/ WipeDirs \/ WipeFiles

StoreNext == Maintain \/ Crash \/ \E v \in Versions : Produce(v)

StoreSpec == StoreInit /\ [][StoreNext]_storeVars
-----------------------------------------------------------------------------
Quiet == lock = None /\ InFlight = {} /\ \A p \in Maint : m[p].pc = "idle"

(* A report whose producer got through its append is listed in index.json  *)
(* for as long as its summary is on disk, and once all calls have ended no *)
(* entry outlives its report.  Only a version is wrong that changed        *)
(* between the unlocked read and the write of a maintenance call, was      *)
(* removed under its producer, or was left half done by a removal, a       *)
(* rewrite or a read that failed or by a kill of the console: the          *)
(* report-index lock orders the producers, the cell's DELETING lock keeps  *)
(* delete_version and the tagging away from sampling and generation, and a *)
(* producer that fails after its summary was written harms no other.       *)
FinishedReportsStayListed ==
    /\ \A v \in Versions :
         pc[v] = "end" /\ dir[v] = "full" /\ v \notin exposed => v \in Rvs(index)
    /\ Quiet => \A v \in Rvs(index) : dir[v] = "full" \/ v \in exposed

(* Without an overlap or a fault, latest.json names a listed version       *)
(* exactly while there is one, whichever of its writers touched it last.   *)
LatestNamesAListedVersion ==
    Quiet /\ exposed = {} =>
        IF latest = None THEN index = <<>> ELSE latest.rv \in Rvs(index)

(* Whatever overlaps, failed deletes and kills have left behind, a         *)
(* reconcile that nothing overtook brings index.json and the directories   *)
(* together: every directory with a summary is listed, and an entry        *)
(* without one is an old entry whose directory is gone altogether or was   *)
(* spared (active, or touched within the hour); latest.json then names the *)
(* newest entry.                                                           *)
ReconcileRepairs ==
    [][RecWrite /\ m["reconcile"].idx = index /\ m["reconcile"].full = FullDirs =>
          /\ \A v \in Versions :
                /\ dir[v] = "full" => v \in Rvs(index')
                /\ v \in Rvs(index') /\ dir[v] # "full" =>
                      /\ v \in Rvs(index)
                      /\ dir[v] = "none" \/ v \in m["reconcile"].of
          /\ IF latest' = None THEN index' = <<>>
             ELSE latest'.rv = NewestByName(index').rv]_storeVars
=============================================================================
