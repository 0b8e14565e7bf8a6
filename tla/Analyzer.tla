------------------------------ MODULE Analyzer ------------------------------
(***************************************************************************)
(* One analyzer process, from its arguments to its exit                    *)
(* (player_impact_analyzer.main, analyzer/core/base_pipeline,              *)
(* analyzer/report_engine, analyzer/topo_sort): it replays the chunk files *)
(* of the cell, samples more in batches of concurrent requests, and makes  *)
(* the report from the directory, one feature plugin after the other.      *)
(*                                                                         *)
(* A chunk file is of a kind: "cur" (the version asked for), "old"         *)
(* (another version), "rejected" (the version asked for, but it does not   *)
(* parse) or "corrupt" (unreadable, and so absent from the sidecar).  A    *)
(* file is known by its index.  The statistics are not computed: the       *)
(* interval after a chunk and the return of the player are any of the      *)
(* cases the code tells apart.                                             *)
(***************************************************************************)
EXTENDS Integers, Sequences, FiniteSetsExt

CONSTANTS Arguments,   (* command lines                                       *)
          Caches,      (* the chunk directories a run may find                *)
          Requires,    (* REQUIRES of the feature plugins, by feature         *)
          MaxConsecutiveNet, MaxNet, MaxMachine, (* the bail-out limits       *)
          MinChunks,   (* NON_CONVERGENCE_ABORT_MIN_CHUNKS                    *)
          BandLimit,   (* NON_CONVERGENCE_RTP_OUT_OF_BAND_CONSECUTIVE         *)
          MinSpins     (* MIN_CHUNK_SPINS                                     *)

(* main refuses a budget or a concurrency that is not positive; indexes    *)
(* start at 1.                                                             *)
ASSUME ArgumentsAssumption ==
    /\ \A a \in Arguments : /\ a.mode \in {"cache", "resume"}
                            /\ {a.scoped, a.fuzzy, a.registered} \subseteq BOOLEAN
                            /\ {a.max, a.conc} \subseteq Nat \ {0}
    /\ \A c \in Caches : /\ c = [i \in DOMAIN c |-> c[i]]
                         /\ DOMAIN c \subseteq Nat \ {0} /\ IsFiniteSet(DOMAIN c)
    /\ {MaxNet, MaxMachine} \subseteq Nat

(* Features are numbered in the order of their ids, and no feature         *)
(* requires itself, be it through others: in every set of them one         *)
(* requires no other of the set.                                           *)
ASSUME RequiresAssumption ==
    /\ DOMAIN Requires \subseteq Nat /\ IsFiniteSet(DOMAIN Requires)
    /\ \A S \in SUBSET DOMAIN Requires :
         S # {} => \E f \in S : Requires[f] \cap S = {}

VARIABLES args,    (* [mode, scoped, fuzzy, registered, max, conc, spins]     *)
          stored,  (* the chunk files: index -> kind                          *)
          phase,   (* where main is                                           *)
          unread,  (* the cached files still to replay                        *)
          merged,  (* the chunks in the loop's totals                         *)
          lost,    (* merged chunks whose file could not be written           *)
          loop,    (* [first, next, max, conc, spins]: the sampling loop      *)
          flight,  (* the requests of the batch not yet answered              *)
          batch,   (* [ok, net]: what the batch brought                       *)
          fails,   (* [net, machine, batches, band]: the bail-out counters    *)
          stop,    (* a stop was asked for                                    *)
          reason,  (* stop_reason                                             *)
          chosen,  (* the features the machine's manifest selects             *)
          emitted, (* the features emitted, in order                          *)
          broken,  (* those whose emit raised                                 *)
          report   (* [kind, covers]: what the run leaves behind              *)

analyzerVars == <<args, stored, phase, unread, merged, lost, loop, flight, batch, fails,
          stop, reason, chosen, emitted, broken, report>>
loopVars == <<merged, lost, loop, flight, batch, fails>>
reportVars == <<chosen, emitted, broken, report>>

Lesser(a, b) == IF a < b THEN a ELSE b
Greater(a, b) == IF a < b THEN b ELSE a
Files == DOMAIN stored
Highest(S) == Max(S \cup {0})
-----------------------------------------------------------------------------
(* Choosing the files to replay.                                           *)

Listed == {i \in Files : stored[i] # "corrupt"}
Matching == {i \in Files : stored[i] \in {"cur", "rejected"}}
Readable(i) == stored[i] \in {"cur", "old"}

(* select_replay_chunks_by_md5 when versions were given and the sidecar    *)
(* knows any file, the directory otherwise.                                *)
Selected == IF args.scoped /\ Listed # {} THEN Matching ELSE Files

(* --from-cache replays max_chunks files, --resume-from-cache all.         *)
ToRead ==
    IF args.mode = "cache"
    THEN {i \in Selected : Cardinality({j \in Selected : j < i}) < args.max}
    ELSE Selected

AnalyzerInit ==
    /\ args \in Arguments /\ stored \in Caches
    /\ phase = "start" /\ unread = {}
    /\ merged = {} /\ lost = {} /\ flight = {}
    /\ loop = [first |-> 1, next |-> 1, max |-> args.max, conc |-> args.conc, spins |-> args.spins]
    /\ batch = [ok |-> 0, net |-> 0]
    /\ fails = [net |-> 0, machine |-> 0, batches |-> 0, band |-> 0]
    /\ stop = FALSE /\ reason = "max_chunks_reached"
    /\ chosen = {} /\ emitted = << >> /\ broken = {}
    /\ report = [kind |-> "none", covers |-> {}]

(* SystemExit: nothing is written.                                         *)
Abort == phase' = "ended" /\ UNCHANGED <<reason, reportVars>>

Begin ==
    /\ phase = "start"
    /\ unread' = ToRead
    /\ IF args.mode = "cache" /\ ToRead = {} /\ ~args.scoped
       THEN Abort ELSE phase' = "read" /\ UNCHANGED <<reason, reportVars>>
    /\ UNCHANGED <<args, stored, loopVars, stop>>

(* New chunks are numbered after the highest index found, in the sidecar   *)
(* or among the files read; when that is beyond max_chunks, the bound      *)
(* moves by what is left of the budget.                                    *)
Numbered(read) ==
    LET highest == Highest(IF args.scoped /\ Listed # {} THEN Listed ELSE read)
        left == Greater(1, args.max - Cardinality(read))
    IN  [loop EXCEPT !.first = highest + 1, !.next = highest + 1,
                     !.max = IF highest + 1 > @ THEN highest + left ELSE @]

(* Replaying one file.  A file that cannot be read or parsed ends the run; *)
(* a resumed run stops here once its target is met.                        *)
Replay ==
    /\ phase = "read" /\ unread # {}
    /\ LET i == Min(unread)
       IN  IF ~Readable(i)
           THEN Abort /\ UNCHANGED <<unread, merged, loop>>
           ELSE /\ merged' = merged \cup {i}
                /\ unread' = unread \ {i}
                /\ \/ UNCHANGED <<phase, reason, loop>>
                   \/ /\ args.mode = "resume" /\ ~args.fuzzy
                      /\ phase' = "engine" /\ reason' = "target_ci_reached_from_cache"
                      /\ loop' = Numbered(merged')
                /\ UNCHANGED reportVars
    /\ UNCHANGED <<args, stored, lost, flight, batch, fails, stop>>

ReplayDone ==
    /\ phase = "read" /\ unread = {}
    /\ IF args.mode = "cache"
       THEN phase' = "engine" /\ reason' = "from_cache_complete" /\ UNCHANGED loop
       ELSE phase' = "batch" /\ loop' = Numbered(merged) /\ UNCHANGED reason
    /\ UNCHANGED <<args, stored, unread, merged, lost, flight, batch, fails, stop, reportVars>>
-----------------------------------------------------------------------------
(* The sampling loop.                                                      *)

(* SIGTERM, SIGINT or the stop-flag file, looked at between batches.       *)
AskToStop ==
    /\ phase # "ended" /\ ~stop
    /\ stop' = TRUE
    /\ UNCHANGED <<args, stored, phase, unread, loopVars, reason, reportVars>>

Leave(why) == phase' = "engine" /\ reason' = why

BudgetSpent ==
    /\ phase = "batch"
    /\ loop.next > loop.max
    /\ Leave(reason)
    /\ UNCHANGED <<args, stored, unread, loopVars, stop, reportVars>>

StopBeforeBatch ==
    /\ phase = "batch"
    /\ loop.next <= loop.max
    /\ \/ stop /\ Leave("user_stop")
       \/ ~stop /\ Leave("disk_low")
    /\ UNCHANGED <<args, stored, unread, loopVars, stop, reportVars>>

(* Mutant of BatchSize: the chunks already merged are not taken off.       *)
BatchSizeOfAll == Lesser(loop.conc, loop.max)

BatchSize == Lesser(loop.conc, loop.max - Cardinality(merged))

Submit ==
    /\ phase = "batch" /\ ~stop
    /\ loop.next <= loop.max
    /\ BatchSize > 0
    /\ flight' = loop.next .. (loop.next + BatchSize - 1)
    /\ loop' = [loop EXCEPT !.next = @ + BatchSize]
    /\ batch' = [ok |-> 0, net |-> 0]
    /\ phase' = "fetch"
    /\ UNCHANGED <<args, stored, unread, merged, lost, fails, stop, reason, reportVars>>

(* run_sampling_chunk: a request is answered in any order.  The answer is  *)
(* saved before it is parsed, and a file that cannot be written is no      *)
(* failure.  Errors are of the network or of the machine.                  *)
Save(i, kind) == stored' = [j \in Files \cup {i} |-> IF j = i THEN kind ELSE stored[j]]

Merge(i) ==
    /\ merged' = merged \cup {i}
    /\ batch' = [batch EXCEPT !.ok = @ + 1]
    /\ UNCHANGED fails

Fail(class) ==
    /\ fails' = [fails EXCEPT ![class] = @ + 1]
    /\ batch' = IF class = "net" THEN [batch EXCEPT !.net = @ + 1] ELSE batch
    /\ UNCHANGED merged

Answer(i) ==
    /\ phase = "fetch" /\ i \in flight
    /\ flight' = flight \ {i}
    /\ \/ Save(i, "cur") /\ Merge(i) /\ UNCHANGED lost
       \/ UNCHANGED stored /\ Merge(i) /\ lost' = lost \cup {i}
       \/ Save(i, "rejected") /\ Fail("machine") /\ UNCHANGED lost
       \/ UNCHANGED <<stored, lost>> /\ \E class \in {"net", "machine"} : Fail(class)
    /\ UNCHANGED <<args, phase, unread, loop, stop, reason, reportVars>>

(* aimd_tune: a batch that failed as a whole, and on the network, halves   *)
(* the concurrency and the chunk size, any other grows both.               *)
Tuned(halve) ==
    IF halve
    THEN [loop EXCEPT !.conc = Greater(1, @ \div 2), !.spins = Greater(MinSpins, @ \div 2)]
    ELSE [loop EXCEPT !.conc = Lesser(args.conc, @ + 1), !.spins = Lesser(args.spins, (@ * 5) \div 4)]

(* The end of a batch, in the order of the code: the bail-outs, the        *)
(* target, the aborts of a run that will not converge.  An interval is met *)
(* or not, or so wide that the budget cannot close it; under the target of *)
(* a fuzzy run every interval is met.                                      *)
Intervals == IF args.fuzzy THEN {"none", "met"} ELSE {"none", "met", "wide", "hopeless"}

BatchDone ==
    /\ phase = "fetch" /\ flight = {}
    /\ \E ci \in Intervals, out \in BOOLEAN :
         LET halve == batch.ok = 0 /\ batch.net > 0
             batches == IF halve THEN fails.batches + 1 ELSE 0
             machineBug == fails.machine >= MaxMachine
             unstable == batches >= MaxConsecutiveNet \/ fails.net >= MaxNet
             met == Cardinality(merged) >= 2 /\ ci = "met"
             watched == /\ ~machineBug /\ ~unstable /\ ~met
                        /\ ~args.fuzzy /\ Cardinality(merged) >= MinChunks
             band == IF ~watched THEN fails.band ELSE IF out THEN fails.band + 1 ELSE 0
         IN  /\ fails' = [fails EXCEPT !.batches = batches, !.band = band]
             /\ loop' = Tuned(halve)
             /\ CASE machineBug -> Leave("machine_bug")
                  [] ~machineBug /\ unstable -> Leave("upstream_unstable")
                  [] ~machineBug /\ ~unstable /\ met -> Leave("target_ci_reached")
                  [] watched /\ (band >= BandLimit \/ ci = "hopeless") -> Leave("non_convergence_abort")
                  [] OTHER -> phase' = "batch" /\ UNCHANGED reason
    /\ UNCHANGED <<args, stored, unread, merged, lost, flight, batch, stop, reportVars>>
-----------------------------------------------------------------------------
(* The report.                                                             *)

(* Mutant of EngineFiles: the directory is the report's input as it is.    *)
EngineFilesUnscoped == Files

(* Files of another version are left out of the engine's directory, unless *)
(* there are as many files as chunks were merged.                          *)
EngineFiles ==
    IF args.scoped /\ Cardinality(Files) # Cardinality(merged) /\ Matching # {}
    THEN Matching ELSE Files

(* Without a spin a shell of a summary is written.  An unregistered        *)
(* machine, an empty directory or a file that cannot be parsed fails the   *)
(* analysis; the summary then holds the error.                             *)
Analyse ==
    /\ phase = "engine"
    /\ IF merged = {}
       THEN phase' = "ended" /\ report' = [report EXCEPT !.kind = "empty"] /\ UNCHANGED chosen
       ELSE IF ~args.registered \/ EngineFiles = {} \/ \E i \in EngineFiles : ~Readable(i)
       THEN phase' = "ended" /\ report' = [report EXCEPT !.kind = "failed"] /\ UNCHANGED chosen
       ELSE /\ phase' = "sort"
            /\ report' = [report EXCEPT !.covers = EngineFiles]
            /\ chosen' \in SUBSET DOMAIN Requires
    /\ UNCHANGED <<args, stored, unread, loopVars, stop, reason, emitted, broken>>

(* Mutant of Ready: a feature does not wait for those it requires.         *)
ReadyAtOnce(features, done) == features \ done

Ready(features, done) == {f \in features \ done : Requires[f] \subseteq done}

(* topological_sort: the least ready feature first, as far as that goes.   *)
TopologicalSort(features) ==
    LET order[n \in 0 .. Cardinality(features)] ==
            IF n = 0 THEN << >>
            ELSE LET sorted == order[n - 1]
                     ready == Ready(features, Range(sorted))
                 IN  IF ready = {} THEN sorted ELSE Append(sorted, Min(ready))
    IN  order[Cardinality(features)]

EmitOrder == TopologicalSort(chosen)

InitError == phase' = "ended" /\ report' = [report EXCEPT !.kind = "init_error"]

(* A required feature that is not selected, or a cycle: SystemExit, with   *)
(* the summary so far on disk.                                             *)
Sort ==
    /\ phase = "sort"
    /\ IF \/ \E f \in chosen : ~(Requires[f] \subseteq chosen)
          \/ Len(EmitOrder) < Cardinality(chosen)
       THEN InitError ELSE phase' = "emit" /\ UNCHANGED report
    /\ UNCHANGED <<args, stored, unread, loopVars, stop, reason, chosen, emitted, broken>>

(* One turn of the emit loop: an emit that raises is recorded and the loop *)
(* goes on.  (The summary keys a feature declares are all set by the       *)
(* engine before the loop, so the check for them never ends a run.)        *)
Emit ==
    /\ phase = "emit" /\ Len(emitted) < Cardinality(chosen)
    /\ LET f == EmitOrder[Len(emitted) + 1]
       IN  emitted' = Append(emitted, f) /\ broken' \in {broken, broken \cup {f}}
    /\ UNCHANGED <<args, stored, unread, loopVars, stop, reason, phase, chosen, report>>

WriteSummary ==
    /\ phase = "emit" /\ Len(emitted) = Cardinality(chosen)
    /\ phase' = "ended" /\ report' = [report EXCEPT !.kind = "full"]
    /\ UNCHANGED <<args, stored, unread, loopVars, stop, reason, chosen, emitted, broken>>

Exited == phase = "ended" /\ UNCHANGED analyzerVars

AnalyzerNext ==
    \/ Begin \/ Replay \/ ReplayDone
    \/ AskToStop \/ BudgetSpent \/ StopBeforeBatch \/ Submit
    \/ (\E i \in flight : Answer(i)) \/ BatchDone
    \/ Analyse \/ Sort \/ Emit \/ WriteSummary \/ Exited

AnalyzerSpec == AnalyzerInit /\ [][AnalyzerNext]_analyzerVars
-----------------------------------------------------------------------------
AnalyzerTypeOK ==
    /\ args \in Arguments
    /\ DOMAIN stored \subseteq Nat
    /\ phase \in {"start", "read", "batch", "fetch", "engine", "sort", "emit", "ended"}
    /\ merged \subseteq Nat /\ lost \subseteq merged
    /\ loop.conc \in 1 .. args.conc
    /\ fails.net <= MaxNet + args.conc /\ fails.machine <= MaxMachine + args.conc

(* The report is made from the chunks the loop counted.  It may hold more  *)
(* of the version when the replay stopped early or was cut at max_chunks,  *)
(* and only a chunk that could not be saved makes it differ otherwise:     *)
(* then files of other versions may be counted for it                      *)
(* (player_impact_analyzer.py compares numbers of files, not files).       *)
CoversWhatWasCounted ==
    report.kind = "full" /\ lost = {} =>
        /\ args.scoped => report.covers \subseteq Matching
        /\ merged \subseteq report.covers
        /\ merged = report.covers \/ reason \in {"target_ci_reached_from_cache", "from_cache_complete"}

(* Sampled chunks are only left without a report for a machine that is not *)
(* registered, files that cannot be used, or plugins that do not fit.      *)
FailsForAReason ==
    phase = "ended" /\ merged # {} =>
        \/ report.kind = "full"
        \/ report.kind = "init_error" /\ \E f \in chosen : ~(Requires[f] \subseteq chosen)
        \/ ~args.registered \/ lost # {}
        \/ \E i \in Files : ~Readable(i)

(* Every feature is emitted once, after all it requires.                   *)
EmittedInOrder ==
    /\ report.kind = "full" => Range(emitted) = chosen /\ Len(emitted) = Cardinality(chosen)
    /\ \A k \in DOMAIN emitted : Requires[emitted[k]] \subseteq {emitted[j] : j \in 1 .. (k - 1)}

ReportFaithful == CoversWhatWasCounted /\ FailsForAReason /\ EmittedInOrder

(* A run samples no more chunks than its budget leaves after the replay,   *)
(* but at least one; where the cache holds files the replay did not count, *)
(* whose indexes the bound takes in, the last batch may exceed that.  A    *)
(* run that ends because the budget is spent has spent it, on chunks or on *)
(* failures, unless such files have used it up.  (Of a run that has got    *)
(* past the replay.)                                                       *)
PastReplay == phase \notin {"start", "read"} /\ ~(phase = "ended" /\ report.kind = "none")

BudgetKept ==
    LET sampled == {i \in merged : i >= loop.first}
        left == Greater(1, args.max - Cardinality(merged \ sampled))
        dense == loop.first = Cardinality(merged \ sampled) + 1
    IN  args.mode = "resume" /\ PastReplay =>
          /\ Cardinality(sampled) <= left + IF dense THEN 0 ELSE args.conc - 1
          /\ phase = "ended" /\ reason = "max_chunks_reached" /\ dense =>
                Cardinality(sampled) + fails.net + fails.machine >= left
=============================================================================
