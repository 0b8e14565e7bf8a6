------------------------------ MODULE Provenance ------------------------------
(***************************************************************************)
(* The versions a report is tagged with and who believes them, for one     *)
(* (machine, mode): src/web_console/backend/app.py, fresh_slotlab's        *)
(* report engine, machine_md5 and summary_md5_patch.                       *)
(*                                                                         *)
(* A chunk carries the md5 pair the server had when it was sampled.  A     *)
(* report is meant to carry the pair of the chunks it was made from and    *)
(* the version of the analyzer that made it; the two are copied from its   *)
(* summary to its row and to its index entry, and three readers judge      *)
(* whether it is current: the stale banner from the rows, the validation   *)
(* from the summaries, the version list from the entries.  Meanwhile the   *)
(* server's pair is refreshed, chunks are sampled and deleted, and the     *)
(* console is restarted with a new analyzer.  How chunk files, indices and *)
(* locks fare under finer interleavings is in ChunkIndex, ReportIndex and  *)
(* CellOps.                                                                *)
(***************************************************************************)
EXTENDS FiniteSets, FiniteSetsExt, Naturals

CONSTANTS Reports,    (* ids of the reports that may be made                 *)
          MaxChunk,   (* bound: largest chunk index                          *)
          MaxVersion, (* bound: md5 versions of the server                   *)
          MaxCode,    (* bound: versions of the analyzer                     *)
          Keep,       (* min_retention_spins, in chunks                      *)
          MaxTrouble, (* bound: crashes, failures, lost updates of the index *)
          MaxChores   (* bound: cleanups, reconciles, uploads, new analyzers *)

Idx == 1 .. MaxChunk

ASSUME ProvenanceAssumption ==
    /\ Reports \subseteq Nat \ {0}
    /\ MaxChunk \in Nat /\ MaxVersion \in Nat /\ MaxCode \in Nat \ {0} /\ Keep \in Nat
    /\ MaxTrouble \in Nat /\ MaxChores \in Nat

VARIABLES
    roster,   (* the server's pair in machines.json; 0 when it is unknown    *)
    localCfg, (* machineconfig/<machine>Cfg.txt exists                       *)
    chunks,   (* the md5 pair of every chunk file                            *)
    idx,      (* the cell's entry of _index.json                             *)
    code,     (* the analyzer that is installed and running                  *)
    held,     (* the operations that hold the cell in the lock registry      *)
    victims,  (* files a cleanup has listed and not yet unlinked             *)
    rep,      (* what is being made, and how far it is                       *)
    summary,  (* player_impact_summary.json of each version directory        *)
    entries,  (* its entries of index.json                                   *)
    row,      (* its row of the runs table                                   *)
    budget

disk == <<chunks, idx>>
world == <<roster, localCfg, code>>
reports == <<rep, summary, entries, row>>
vars == <<roster, localCfg, chunks, idx, code, held, victims, rep, summary, entries, row, budget>>

-----------------------------------------------------------------------------
(* md5 pairs: a server version, or the hash of a local config beside the   *)
(* server's code.                                                          *)
Server(v) == <<"server", v>>
Local(v) == <<"local", v>>
Blank == Server(0)
Absent == <<"absent", 0>>
Tags == {Server(v) : v \in 0 .. MaxVersion} \cup {Local(v) : v \in 0 .. MaxVersion}

Files == {i \in Idx : chunks[i] # Absent}
TagsOf(files) == {chunks[i] : i \in files}

(* The pairs that count as current, and what makes a chunk current.        *)
CurrentPairs == ({Server(roster)} \cup IF localCfg THEN {Local(roster)} ELSE {}) \ {Blank}
Unverifiable == roster = 0
Current(tag) == Unverifiable \/ tag \in CurrentPairs

(* _classify_chunks: the first current chunks up to the retention are kept,*)
(* the others deletable, the rest historical.                              *)
CurrentFiles == {i \in Files : Current(chunks[i])}
KeptFiles == {i \in CurrentFiles : Cardinality({j \in CurrentFiles : j < i}) < Keep}
Evictable == Files \ KeptFiles

(* What a generation takes: the current chunks, or every chunk of the pair *)
(* the request names.                                                      *)
Selection(kind, pair) ==
    IF kind = "filtered" THEN {i \in Files : chunks[i] = pair} ELSE CurrentFiles

(* _scan_mode_dir: a chunk without a pair neither sets nor mixes the pair. *)
NoIdx == [n |-> 0, tag |-> Blank, mixed |-> FALSE]
Scan(files) ==
    LET tagged == {i \in DOMAIN files : files[i] \notin {Absent, Blank}}
        n == Cardinality({i \in DOMAIN files : files[i] # Absent})
    IN IF n = 0 THEN NoIdx
       ELSE [n |-> n,
             tag |-> IF tagged = {} THEN Blank ELSE files[Min(tagged)],
             mixed |-> \E i, j \in tagged : files[i] # files[j]]

(* Mutant of IndexUsable: the number of files is not compared.             *)
IndexUsableUncounted ==
    ~idx.mixed /\ (idx.n = 0 \/ Unverifiable \/ (idx.tag # Blank /\ idx.tag = Server(roster)))

(* The fast path of check_rawdata_status: an entry that counts the files   *)
(* and, unless the server is unknown, holds one pair, the server's.        *)
IndexUsable ==
    /\ idx.n = Cardinality(Files)
    /\ ~idx.mixed
    /\ idx.n = 0 \/ Unverifiable \/ (idx.tag # Blank /\ idx.tag = Server(roster))

UsableChunks == IF IndexUsable THEN idx.n ELSE Cardinality(CurrentFiles)

NoRep == [kind |-> "none", at |-> "idle", sel |-> {}, scoped |-> FALSE, picked |-> {},
          stamp |-> Blank, upstream |-> Blank, src |-> {}, fault |-> {}]
NoSummary == [tag |-> Absent, eff |-> 0]
NoRow == [status |-> "none", tag |-> Blank, eff |-> 0]

InitChunks == {c \in [Idx -> {Absent, Server(0), Server(1)}] :
                   \A i \in Idx : i > 1 /\ c[i] # Absent => c[i - 1] # Absent}

Init ==
    /\ roster \in {0, 1} /\ localCfg = FALSE /\ code = 1
    /\ chunks \in {c \in InitChunks : \A i \in Idx : c[i] = Absent \/ c[i][2] <= roster}
    /\ idx = Scan(chunks)
    /\ held = {} /\ victims = {}
    /\ rep = [r \in Reports |-> NoRep]
    /\ summary = [r \in Reports |-> NoSummary]
    /\ entries = [r \in Reports |-> {}]
    /\ row = [r \in Reports |-> NoRow]
    /\ budget = [trouble |-> MaxTrouble, chores |-> MaxChores]

Spend(what) == budget[what] > 0 /\ budget' = [budget EXCEPT ![what] = @ - 1]

(* CellLockRegistry.try_acquire_cell.                                      *)
Free(op) == op \notin held /\ "deleting" \notin held /\ (op = "deleting" => held = {})

(* Every report that has picked its files and still depends on what lies   *)
(* in the directory.                                                       *)
Exposed(r) ==
    \/ rep[r].at \in {"picked", "locked"}
    \/ rep[r].at \in {"prepared", "ready"} /\ ~rep[r].scoped

(* The chunk files change; the update of _index.json may fail, and its     *)
(* exception is swallowed.                                                 *)
ChangeFiles(new, writer) ==
    /\ chunks' = new
    /\ \/ idx' = Scan(new) /\ UNCHANGED budget
       \/ idx' = idx /\ idx # Scan(new) /\ Spend("trouble")
    /\ rep' = [r \in Reports |->
                  IF Exposed(r) /\ r # writer
                  THEN [rep[r] EXCEPT !.fault = @ \cup {"overtaken"}] ELSE rep[r]]

-----------------------------------------------------------------------------
(* Generating a report: _run_generate_report in the console, and the batch *)
(* item prepared, run in a worker and finalized.                           *)
Unused(r) == rep[r].kind = "none" /\ \A q \in Reports : q < r => rep[q].kind # "none"
Go(r, place) == rep' = [rep EXCEPT ![r].at = place]
Inline == {"default", "filtered"}

(* The handler is over: what it kept in its local variables is gone.       *)
Over(it) == [NoRep EXCEPT !.kind = it.kind, !.at = "done", !.picked = it.picked,
                          !.src = it.src, !.fault = it.fault]

(* Between the engine and the stamp the summary has the pair of the roster;*)
(* a generation that ends there leaves it so.                              *)
Unstamped(it) == it.kind # "sampled" /\ it.at \in {"written", "patched"}
Interrupted(it) == IF Unstamped(it) THEN [it EXCEPT !.fault = @ \cup {"unstamped"}] ELSE it
Done(r) == rep' = [rep EXCEPT ![r] = Over(@)]

(* Classify and pick; an empty selection is refused.                       *)
Pick(r, kind, pair) ==
    LET sel == Selection(kind, pair)
    IN /\ Unused(r)
       /\ kind = "filtered" <=> pair # Blank
       /\ sel # {}
       /\ rep' = [rep EXCEPT ![r] = [NoRep EXCEPT
                     !.kind = kind, !.at = "picked", !.sel = sel, !.picked = TagsOf(sel),
                     !.stamp = pair]]
       /\ UNCHANGED <<world, disk, held, victims, summary, entries, row, budget>>

(* An inline generation takes the cell before it looks further, and not    *)
(* beside a sampler; a batch item takes it when it is prepared.            *)
Lock(r) ==
    \/ /\ rep[r].kind \in Inline /\ rep[r].at = "picked"
       /\ IF Free("generating") /\ "sampling" \notin held
          THEN held' = held \cup {"generating"} /\ Go(r, "locked")
          ELSE Done(r) /\ UNCHANGED held
       /\ UNCHANGED <<world, disk, victims, summary, entries, row, budget>>
    \/ /\ rep[r].kind = "batch" /\ rep[r].at = "prepared"
       /\ IF Free("generating")
          THEN held' = held \cup {"generating"} /\ Go(r, "ready")
          ELSE Done(r) /\ UNCHANGED held
       /\ UNCHANGED <<world, disk, victims, summary, entries, row, budget>>

(* Mutant of Scoped: the engine is always given the mode directory.        *)
ScopedNever(sel) == FALSE /\ sel # {}

(* Fewer chunks than files: the selection is linked into a directory of    *)
(* its own.                                                                *)
Scoped(sel) == Cardinality(sel) # Cardinality(Files)

(* The first chunk gives the pair to stamp, the selection is linked when   *)
(* it is not the whole directory, and the row is running.  A file that is  *)
(* gone ends the generation before it has a row.                           *)
Scope(r) ==
    LET it == rep[r]
        first == chunks[Min(it.sel)]
        next == IF it.kind = "batch" THEN "prepared" ELSE "ready"
        needed == IF Scoped(it.sel) THEN it.sel ELSE {Min(it.sel)}
    IN /\ it.at = (IF it.kind = "batch" THEN "picked" ELSE "locked")
       /\ IF needed \subseteq Files
          THEN /\ rep' = [rep EXCEPT ![r] = [it EXCEPT
                             !.at = next, !.scoped = Scoped(it.sel),
                             !.stamp = IF it.kind = "filtered" THEN it.stamp ELSE first,
                             !.upstream = Server(roster),
                             !.src = IF Scoped(it.sel) THEN TagsOf(it.sel) ELSE {}]]
               /\ row' = [row EXCEPT ![r] = [NoRow EXCEPT !.status = "running"]]
               /\ UNCHANGED held
          ELSE /\ Done(r)
               /\ held' = IF it.kind = "batch" THEN held ELSE held \ {"generating"}
               /\ UNCHANGED row
       /\ UNCHANGED <<world, disk, victims, summary, entries, budget>>

(* The engine parses every file of the directory it was given and tags the *)
(* summary with the roster's pair of the moment.  An empty directory fails.*)
Engine(r) ==
    LET src == IF rep[r].scoped THEN rep[r].src ELSE TagsOf(Files)
    IN /\ rep[r].at = "ready" /\ src # {}
       /\ summary' = [summary EXCEPT ![r] = [tag |-> Server(roster), eff |-> code]]
       /\ rep' = [rep EXCEPT ![r].at = "written", ![r].src = src]
       /\ UNCHANGED <<world, disk, held, victims, entries, row, budget>>

(* patch_summary_md5 fills a blank pair, from the roster or, in a worker,  *)
(* from the pair read when the item was prepared; it never overwrites.     *)
Patch(r) ==
    LET known == IF rep[r].kind = "batch" THEN rep[r].upstream ELSE Server(roster)
    IN /\ rep[r].at = "written" /\ rep[r].kind # "sampled"
       /\ summary' = [summary EXCEPT ![r].tag = IF @ = Blank THEN known ELSE @]
       /\ Go(r, "patched")
       /\ UNCHANGED <<world, disk, held, victims, entries, row, budget>>

(* Mutant of Stamped: only a blank pair is replaced.                       *)
StampedBlank(r) == IF summary[r].tag = Blank THEN rep[r].stamp ELSE summary[r].tag

Stamped(r) == IF rep[r].stamp # Blank THEN rep[r].stamp ELSE summary[r].tag

(* The stamp: the pair of the source.  A worker that cannot write it only  *)
(* prints.                                                                 *)
Stamp(r) ==
    /\ rep[r].at = "patched"
    /\ \/ /\ summary' = [summary EXCEPT ![r].tag = Stamped(r)]
          /\ Go(r, "stamped")
          /\ UNCHANGED budget
       \/ /\ rep[r].kind = "batch" /\ Spend("trouble")
          /\ rep' = [rep EXCEPT ![r].at = "stamped", ![r].fault = @ \cup {"unstamped"}]
          /\ UNCHANGED summary
    /\ UNCHANGED <<world, disk, held, victims, entries, row>>

Entry(r) == [tag |-> summary[r].tag, eff |-> summary[r].eff]
CompletedRow(r) == [status |-> "completed", tag |-> summary[r].tag, eff |-> summary[r].eff]

Complete(r) ==
    /\ rep[r].at = "stamped"
    /\ row' = [row EXCEPT ![r] = CompletedRow(r)]
    /\ Go(r, "completed")
    /\ UNCHANGED <<world, disk, held, victims, summary, entries, budget>>

(* append_and_rewrite_latest, and the lock is given back.                  *)
Publish(r) ==
    /\ rep[r].at = "completed"
    /\ entries' = [entries EXCEPT ![r] = @ \cup {Entry(r)}]
    /\ held' = held \ {"generating"}
    /\ Done(r)
    /\ UNCHANGED <<world, disk, victims, summary, row, budget>>

(* An exception of an inline generation, or a worker that fails: the row   *)
(* is failed, whatever it was; a summary that is written stays.            *)
GenerateFails(r) ==
    /\ \/ rep[r].at = "ready"
       \/ rep[r].kind \in Inline /\ rep[r].at \in {"written", "patched", "stamped", "completed"}
    /\ IF rep[r].at = "ready" /\ ~rep[r].scoped /\ Files = {}
       THEN UNCHANGED budget ELSE Spend("trouble")
    /\ row' = [row EXCEPT ![r].status = "failed"]
    /\ rep' = [rep EXCEPT ![r] = Over(Interrupted(@))]
    /\ held' = held \ {"generating"}
    /\ UNCHANGED <<world, disk, victims, summary, entries>>

-----------------------------------------------------------------------------
(* Sampling: the pair of the chunks is read when the run starts, from the  *)
(* roster or derived from the local config the run is given.               *)
StartSampling(r, withLocal) ==
    /\ Unused(r) /\ Free("sampling") /\ (withLocal => localCfg)
    /\ held' = held \cup {"sampling"}
    /\ rep' = [rep EXCEPT ![r] = [NoRep EXCEPT !.kind = "sampled", !.at = "sampling",
                  !.stamp = IF withLocal THEN Local(roster) ELSE Server(roster)]]
    /\ row' = [row EXCEPT ![r] = [NoRow EXCEPT !.status = "running"]]
    /\ UNCHANGED <<world, disk, victims, summary, entries, budget>>

WriteChunk(r) ==
    LET next == IF Files = {} THEN 1 ELSE Max(Files) + 1
    IN /\ rep[r].at = "sampling" /\ next \in Idx
       /\ ChangeFiles([chunks EXCEPT ![next] = rep[r].stamp], r)
       /\ UNCHANGED <<world, held, victims, summary, entries, row>>

(* The analyzer makes its report from the chunks of its pair, all of them  *)
(* when it was given none, and tags it with the roster's pair.             *)
Analyse(r) ==
    LET src == IF rep[r].stamp = Blank THEN TagsOf(Files) ELSE TagsOf(Files) \cap {rep[r].stamp}
    IN /\ rep[r].at = "sampling" /\ src # {}
       /\ summary' = [summary EXCEPT ![r] = [tag |-> Server(roster), eff |-> code]]
       /\ rep' = [rep EXCEPT ![r].at = "written", ![r].src = src, ![r].picked = src,
                     ![r].fault = IF Unverifiable \/ rep[r].stamp # Server(roster)
                                  THEN {"drift"} ELSE {}]
       /\ UNCHANGED <<world, disk, held, victims, entries, row, budget>>

(* _update_report_index: the entry first, then what is not blank to the    *)
(* row; the watcher completes the row last, and the slot is given back.    *)
IndexSample(r) ==
    /\ rep[r].kind = "sampled" /\ rep[r].at = "written"
    /\ entries' = [entries EXCEPT ![r] = @ \cup {Entry(r)}]
    /\ Go(r, "indexed")
    /\ UNCHANGED <<world, disk, held, victims, summary, row, budget>>

PatchRow(r) ==
    /\ rep[r].at = "indexed"
    /\ row' = [row EXCEPT ![r].tag = summary[r].tag, ![r].eff = summary[r].eff]
    /\ Go(r, "patchedrow")
    /\ UNCHANGED <<world, disk, held, victims, summary, entries, budget>>

FinishSample(r) ==
    /\ rep[r].at = "patchedrow"
    /\ row' = [row EXCEPT ![r].status = "completed"]
    /\ held' = held \ {"sampling"}
    /\ Done(r)
    /\ UNCHANGED <<world, disk, victims, summary, entries, budget>>

(* A run without chunks, or one that is stopped, fails.                    *)
SampleFails(r) ==
    /\ rep[r].at = "sampling" /\ Spend("trouble")
    /\ row' = [row EXCEPT ![r].status = "failed"]
    /\ held' = held \ {"sampling"}
    /\ Done(r)
    /\ UNCHANGED <<world, disk, victims, summary, entries>>

-----------------------------------------------------------------------------
(* What happens meanwhile.                                                 *)

(* _do_refresh_machines_md5 stores the server's pair.                      *)
Refresh ==
    /\ roster < MaxVersion
    /\ roster' = roster + 1
    /\ UNCHANGED <<localCfg, code, disk, held, victims, reports, budget>>

(* A local config is uploaded or removed.                                  *)
ToggleLocal ==
    /\ Spend("chores")
    /\ localCfg' = ~localCfg
    /\ UNCHANGED <<roster, code, disk, held, victims, reports>>

(* delete_rawdata_version: every chunk of one pair, under DELETING.        *)
DeleteVersion(pair) ==
    /\ Free("deleting") /\ pair \in TagsOf(Files)
    /\ ChangeFiles([i \in Idx |-> IF chunks[i] = pair THEN Absent ELSE chunks[i]], 0)
    /\ UNCHANGED <<world, held, victims, summary, entries, row>>

(* The cleanup skips a cell in use when it lists, and unlinks later.       *)
CleanupList ==
    /\ held = {} /\ victims = {} /\ Evictable # {} /\ Spend("chores")
    /\ victims' = Evictable
    /\ UNCHANGED <<world, disk, held, reports>>

CleanupUnlink ==
    /\ victims # {}
    /\ victims' = {}
    /\ ChangeFiles([i \in Idx |-> IF i \in victims THEN Absent ELSE chunks[i]], 0)
    /\ UNCHANGED <<world, held, summary, entries, row>>

(* The cold path of check_rawdata_status ends by refreshing the entry.     *)
ReadStatus ==
    /\ ~IndexUsable /\ idx # Scan(chunks)
    /\ idx' = Scan(chunks)
    /\ UNCHANGED <<world, chunks, held, victims, reports, budget>>

(* Mutant of Filled: the pair of the moment is written to the row.         *)
FilledFromRoster(r) ==
    IF row[r].status = "completed" /\ summary[r] # NoSummary
    THEN [row[r] EXCEPT !.tag = Server(roster), !.eff = IF @ = 0 THEN summary[r].eff ELSE @]
    ELSE row[r]

(* What a completed row lacks is filled from its summary: at every start   *)
(* of the console, and by the reconcile's action 8.                        *)
Filled(r) ==
    IF row[r].status = "completed" /\ summary[r] # NoSummary
    THEN [row[r] EXCEPT !.tag = IF @ = Blank THEN summary[r].tag ELSE @,
                        !.eff = IF @ = 0 THEN summary[r].eff ELSE @]
    ELSE row[r]

(* reconcile_reports, actions 3, 5 and 8: a summary without an entry gets  *)
(* one, whether or not its run still writes it; blank fields are filled.   *)
Reconciled(r) ==
    IF summary[r] = NoSummary THEN {}
    ELSE IF entries[r] = {} THEN {Entry(r)}
    ELSE {[e EXCEPT !.tag = IF @ = Blank THEN summary[r].tag ELSE @] : e \in entries[r]}

Reconcile ==
    /\ Spend("chores")
    /\ entries' = [r \in Reports |-> Reconciled(r)]
    /\ row' = [r \in Reports |-> Filled(r)]
    /\ rep' = [r \in Reports |->
                  IF entries[r] = {} /\ Unstamped(rep[r])
                  THEN [rep[r] EXCEPT !.fault = @ \cup {"early"}] ELSE rep[r]]
    /\ UNCHANGED <<world, disk, held, victims, summary>>

(* Update and restart, or a crash: what was being made is gone, its row is *)
(* failed, the locks are free, and the rows are filled from the summaries. *)
Restart(new) ==
    /\ \/ new = code /\ Spend("trouble")
       \/ new = code + 1 /\ new <= MaxCode /\ Spend("chores")
    /\ code' = new /\ held' = {} /\ victims' = {}
    /\ rep' = [r \in Reports |->
                  IF rep[r].at \in {"idle", "done"} THEN rep[r]
                  ELSE Over(Interrupted(rep[r]))]
    /\ row' = [r \in Reports |->
                  IF row[r].status = "running" THEN [row[r] EXCEPT !.status = "failed"]
                  ELSE Filled(r)]
    /\ UNCHANGED <<roster, localCfg, disk, summary, entries>>

Next ==
    \/ \E r \in Reports :
           \/ \E kind \in {"default", "filtered", "batch"}, pair \in Tags : Pick(r, kind, pair)
           \/ \E withLocal \in BOOLEAN : StartSampling(r, withLocal)
           \/ Lock(r) \/ Scope(r) \/ Engine(r) \/ Patch(r) \/ Stamp(r) \/ Complete(r)
           \/ Publish(r) \/ GenerateFails(r)
           \/ WriteChunk(r) \/ Analyse(r) \/ IndexSample(r) \/ PatchRow(r)
           \/ FinishSample(r) \/ SampleFails(r)
    \/ Refresh \/ ToggleLocal \/ CleanupList \/ CleanupUnlink \/ ReadStatus \/ Reconcile
    \/ \E pair \in Tags : DeleteVersion(pair)
    \/ \E new \in 1 .. MaxCode : Restart(new)

Spec == Init /\ [][Next]_vars

-----------------------------------------------------------------------------
(* The three readers.                                                      *)
Completed == {r \in Reports : row[r].status = "completed"}

(* stale_report_count judges the cell by its completed rows: it is stale   *)
(* when it has tags and none is the current one.                           *)
RowTags == {row[r].tag : r \in Completed} \ {Blank}
RowVersions == {row[r].eff : r \in Completed} \ {0}
RawdataStale == RowTags # {} /\ ~Unverifiable /\ Server(roster) \notin RowTags
AnalyzerStale == RowVersions # {} /\ code \notin RowVersions
Fixable == AnalyzerStale /\ UsableChunks > 0
NeedsRawdata == AnalyzerStale /\ UsableChunks = 0

(* validate_machine_reports judges every report by its summary.            *)
Md5Status(r) ==
    IF summary[r].tag = Blank THEN "untagged"
    ELSE IF summary[r].tag = Server(roster) THEN "match" ELSE "outdated"
AnalyzerStatus(r) ==
    IF summary[r].eff = 0 THEN "untagged" ELSE IF summary[r].eff = code THEN "match" ELSE "outdated"

(* report_versions shows a report under the pair of one of its entries; an *)
(* entry without a pair shows under every pair.                            *)
ListedUnder(r, pair) == \E e \in entries[r] : e.tag \in {Blank, pair}

(* The types, and what each stage of a report has.                         *)
TypeOK ==
    /\ roster \in 0 .. MaxVersion /\ code \in 1 .. MaxCode /\ localCfg \in BOOLEAN
    /\ chunks \in [Idx -> Tags \cup {Absent}]
    /\ held \subseteq {"sampling", "generating"} /\ victims \subseteq Idx
    /\ \A r \in Reports : /\ rep[r].sel \subseteq Idx
                          /\ rep[r].stamp \in Tags /\ rep[r].src \subseteq Tags
                          /\ summary[r].tag \in Tags \cup {Absent}
                          /\ row[r].tag \in Tags \cup {Absent}

(* The pair a finished report is tagged with is the pair of every chunk it *)
(* was made from: always when its chunks shared one known pair and nobody  *)
(* changed the files it had not yet linked, whatever the server's pair has *)
(* become since.  A sampled report only when the server's pair is the one  *)
(* it sampled with, a generated one only when the stamp was written.       *)
TagTellsTheSource ==
    \A r \in Reports :
        /\ summary[r] # NoSummary /\ rep[r].at \in {"stamped", "completed", "indexed", "patchedrow", "done"}
        /\ rep[r].fault \cap {"overtaken", "unstamped", "drift"} = {}
        /\ Cardinality(rep[r].picked) = 1 /\ Blank \notin rep[r].picked
        => rep[r].src = {summary[r].tag}

(* The banner that counts rows, the validation that opens summaries and    *)
(* the list that filters index entries say the same of the completed       *)
(* reports, through failures, restarts, backfills and reconciles; only an  *)
(* entry that a reconcile made before the stamp lists a report under a     *)
(* pair its summary does not have.                                         *)
ReadersAgree ==
    /\ RawdataStale <=> /\ ~Unverifiable
                        /\ \E r \in Completed : Md5Status(r) # "untagged"
                        /\ \A r \in Completed : Md5Status(r) # "match"
    /\ AnalyzerStale <=> /\ \E r \in Completed : AnalyzerStatus(r) # "untagged"
                         /\ \A r \in Completed : AnalyzerStatus(r) # "match"
    /\ \A r \in Completed, pair \in Tags \ {Blank} :
           entries[r] # {} /\ "early" \notin rep[r].fault
           => (ListedUnder(r, pair) <=> summary[r].tag \in {Blank, pair})

(* A cell the banner offers to regenerate has chunks a generation would    *)
(* take, and one it sends to sampling has none, although the one count     *)
(* comes from the index of the rawdata tree and the other from the chunks; *)
(* one lost update of the index is not enough to mislead it.               *)
FixableCanBeRegenerated ==
    /\ Fixable => Selection("default", Blank) # {}
    /\ NeedsRawdata => Selection("default", Blank) = {}
=============================================================================
