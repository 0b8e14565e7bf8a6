------------------------------ MODULE ChunkIndex ------------------------------
(***************************************************************************)
(* The raw chunks of one (machine, mode) and the two caches kept of them:  *)
(* the sidecar _chunks.json (chunk_index.py) and this cell's entry of the  *)
(* root _index.json (rawdata_index.py).  The chunk files are the truth;    *)
(* both caches are rewritten by the analyzer's worker threads, by status   *)
(* reads, by deletes and by the startup re-association, in two processes   *)
(* that do not share the sidecar's lock.                                   *)
(*                                                                         *)
(* A chunk is its index; its file holds one md5 pair, here one value.      *)
(* Spins, sizes and dates are left out, every header can be peeked, and a  *)
(* directory scan is one step.  In legacy sidecars by_config_id is absent. *)
(***************************************************************************)
EXTENDS Integers, FiniteSetsExt, Functions

CONSTANTS Workers,      (* the analyzer's worker threads, a set of strings    *)
          Place,        (* [Workers -> 0..], a worker's place in the batch    *)
          Md5s, Current,(* md5 pairs, and the one machines.json holds         *)
          MaxIndex,     (* bound on chunk indices                             *)
          MaxRuns,      (* bound on the analyzer runs                         *)
          MaxCalls,     (* bound on status reads, deletes and re-associations *)
          MaxFail,      (* bound on failed sidecar writes and killed processes*)
          None

ASSUME CurrentAssumption == Current \in Md5s
ASSUME PlaceAssumption ==
    /\ MaxIndex \in Nat /\ MaxIndex >= 2
    /\ Place \in [Workers -> Nat]
    /\ \A v, w \in Workers : Place[v] = Place[w] => v = w
    /\ Workers \cap {"main", "reader", "cleaner", "boot"} = {}

Chunks == 1..MaxIndex
Threads == Workers \cup {"main", "reader", "cleaner", "boot"}
Process(t) == IF t \in Workers \cup {"main"} THEN "analyzer" ELSE "console"

VARIABLES disk,     (* chunk files: a function from indices to md5s           *)
          side,     (* _chunks.json, or None                                  *)
          root,     (* the cell's entry in _index.json, or None               *)
          lock,     (* [process -> thread inside _sidecar_lock_for, or None]  *)
          th,       (* [thread -> where it is and what it has read]           *)
          cell,     (* "free", "sampling" or "deleting"                       *)
          run,      (* md5 and first index of the analyzer run                *)
          pending,  (* a pending_batch_configs row is left for this cell      *)
          n,        (* how often each caller came                             *)
          outrun,   (* ghost: a cache was written that was not true by then   *)
          missed    (* ghost: since the root entry was last refreshed, it was *)
                    (* not for a chunk written: the write failed, or the      *)
                    (* analyzer was killed before it                          *)

vars == <<disk, side, root, lock, th, cell, run, pending, n, outrun, missed>>

Idle == [pc |-> "idle", ret |-> "idle", view |-> None, names |-> {}, c |-> 0, kind |-> ""]

ByMd5(ch) == [x \in Md5s |-> {c \in DOMAIN ch : ch[c].md5 = x}]
ByConfigId(ch) == [i \in {"null", "cfg"} |-> {c \in DOMAIN ch : ch[c].cid = i}]
Sidecar(ch) == [chunks |-> ch, byMd5 |-> ByMd5(ch), byCid |-> ByConfigId(ch), legacy |-> FALSE]
EmptySidecar == Sidecar(<<>>)
Scanned == Sidecar([c \in DOMAIN disk |-> [md5 |-> disk[c], cid |-> "null"]])

(* Two threads of one process never hold the sidecar's lock together.      *)
Free(t) == lock[Process(t)] = None

Untrue(s) == \E c \in DOMAIN s.chunks :
    c \notin DOMAIN disk \/ disk[c] # s.chunks[c].md5

TypeOK ==
    /\ DOMAIN disk \subseteq Chunks /\ Range(disk) \subseteq Md5s
    /\ cell \in {"free", "sampling", "deleting"}
    /\ pending \in BOOLEAN /\ outrun \in BOOLEAN /\ missed \in BOOLEAN
    /\ \A p \in DOMAIN lock : lock[p] \in Threads \cup {None}

(* Left by earlier runs: no chunk or two, of any md5, indexed or not.      *)
Init ==
    /\ disk \in {<<>>} \cup [1..2 -> Md5s]
    /\ side \in {None, Scanned, [Scanned EXCEPT !.legacy = TRUE]}
    /\ root = None
    /\ lock = [p \in {"analyzer", "console"} |-> None]
    /\ th = [t \in Threads |-> Idle]
    /\ cell = "free" /\ run = [md5 |-> Current, next |-> 1]
    /\ pending = TRUE
    /\ n = [run |-> 0, call |-> 0, fail |-> 0]
    /\ outrun = FALSE /\ missed = FALSE

Go(t, pc) == th' = [th EXCEPT ![t].pc = pc]
Saw(t, s, pc) == th' = [th EXCEPT ![t].view = s, ![t].pc = pc]
At(t, pc) == th[t].pc = pc

(* _write_sidecar_atomic: replaced as a whole, or left after an OSError    *)
(* every caller survives.                                                  *)
WriteSidecar(s) ==
    \/ /\ side' = s /\ outrun' = (outrun \/ Untrue(s)) /\ UNCHANGED n
    \/ /\ n.fail < MaxFail /\ n' = [n EXCEPT !.fail = @ + 1]
       /\ UNCHANGED <<side, outrun>>

Migrated(s) == IF s = None \/ ~s.legacy THEN s ELSE Sidecar(s.chunks)
-----------------------------------------------------------------------------
(* Mutant of Stale: compares how many, not which.                          *)
StaleByCount(s) == Cardinality(DOMAIN s.chunks) # Cardinality(DOMAIN disk)
Stale(s) == DOMAIN s.chunks # DOMAIN disk

(* get_chunks_index: load, compare the names with the directory, and on a  *)
(* difference scan it; a legacy sidecar is migrated and written back       *)
(* first.  What is read is read in one step; only the writes that follow   *)
(* it hold the lock.                                                       *)
Load(t, names) ==
    LET seen == IF side = None \/ Stale(side) THEN Scanned ELSE Migrated(side)
        must == side = None \/ side.legacy \/ Stale(side)
    IN th' = [th EXCEPT ![t].view = seen, ![t].names = names,
                        ![t].pc = IF must THEN "build" ELSE th[t].ret]

Get(t) ==
    /\ At(t, "load")
    /\ Load(t, th[t].names)
    /\ UNCHANGED <<disk, side, root, lock, cell, run, pending, n, outrun, missed>>

Build(t) ==
    /\ At(t, "build") /\ Free(t)
    /\ WriteSidecar(th[t].view)
    /\ Go(t, th[t].ret)
    /\ UNCHANGED <<disk, root, lock, cell, run, pending, missed>>

(* rawdata_index.update_entry: the directory is read before the lock is    *)
(* taken, each chunk's md5 from the sidecar or, failing that, its file.    *)
RootScan(t) ==
    /\ At(t, "glob")
    /\ Load(t, DOMAIN disk)
    /\ UNCHANGED <<disk, side, root, lock, cell, run, pending, n, outrun, missed>>

Md5Of(t, c) == IF c \in DOMAIN th[t].view.chunks THEN {th[t].view.chunks[c].md5}
               ELSE IF c \in DOMAIN disk THEN {disk[c]} ELSE {}
RootEntry(t) == IF th[t].names = {} THEN None
                ELSE [count |-> Cardinality(th[t].names),
                      md5s |-> UNION {Md5Of(t, c) : c \in th[t].names}]
TrueEntry == IF disk = <<>> THEN None
             ELSE [count |-> Cardinality(DOMAIN disk), md5s |-> Range(disk)]

(* A delete gives the cell back; the cleanup for disk space never had it.  *)
Finish(t) == /\ th' = [th EXCEPT ![t] = Idle]
             /\ cell' = IF t = "cleaner" /\ th[t].kind # "space" THEN "free" ELSE cell

(* _save_index writes the entry, or leaves the old file after an OSError   *)
(* nobody hears of; the writer goes on.                                    *)
RootWrite(t, next) ==
    /\ At(t, "root")
    /\ \/ /\ root' = RootEntry(t)
          /\ outrun' = (outrun \/ RootEntry(t) # TrueEntry)
          /\ missed' = (missed /\ RootEntry(t) # TrueEntry)
       \/ /\ missed' = (missed \/ t \in Workers)
          /\ UNCHANGED <<root, outrun>>
    /\ IF next = "idle" THEN Finish(t)
       ELSE th' = [th EXCEPT ![t] = [Idle EXCEPT !.pc = next, !.c = th[t].c]] /\ UNCHANGED cell
    /\ UNCHANGED <<disk, side, lock, run, pending, n>>
-----------------------------------------------------------------------------
(* The analyzer, started with --resume-from-cache: its first index follows *)
(* the highest one the sidecar names; a batch of workers then each fetch a *)
(* chunk, write it, refresh the root entry and record it in the sidecar.   *)
StartRun ==
    /\ At("main", "idle") /\ cell = "free" /\ n.run < MaxRuns
    /\ n' = [n EXCEPT !.run = @ + 1]
    /\ cell' = "sampling"
    /\ \E x \in Md5s : run' = [run EXCEPT !.md5 = x]
    /\ th' = [th EXCEPT !["main"] = [Idle EXCEPT !.pc = "load", !.ret = "seed"]]
    /\ UNCHANGED <<disk, side, root, lock, pending, outrun, missed>>

(* Mutant of NextIndex: counts the chunks instead of taking the highest.   *)
NextByCount(s) == Cardinality(DOMAIN s.chunks) + 1
NextIndex(s) == Max(DOMAIN s.chunks \cup {0}) + 1

Seed ==
    /\ At("main", "seed")
    /\ run' = [run EXCEPT !.next = NextIndex(th["main"].view)]
    /\ th' = [t \in Threads |->
                IF t = "main" THEN [Idle EXCEPT !.pc = "join"]
                ELSE IF t \in Workers /\ run'.next + Place[t] \in Chunks
                THEN [Idle EXCEPT !.pc = "fetch", !.c = run'.next + Place[t]]
                ELSE th[t]]
    /\ UNCHANGED <<disk, side, root, lock, cell, pending, n, outrun, missed>>

FetchFails(w) ==
    /\ At(w, "fetch")
    /\ th' = [th EXCEPT ![w] = Idle]
    /\ UNCHANGED <<disk, side, root, lock, cell, run, pending, n, outrun, missed>>

WriteChunk(w) ==
    /\ At(w, "fetch")
    /\ disk' = [c \in DOMAIN disk \cup {th[w].c} |->
                  IF c = th[w].c THEN run.md5 ELSE disk[c]]
    /\ th' = [th EXCEPT ![w].pc = "glob", ![w].ret = "root"]
    /\ UNCHANGED <<side, root, lock, cell, run, pending, n, outrun, missed>>

(* update_chunk_entry: read, merged and written under the process's lock.  *)
UpdateLoad(w) ==
    /\ At(w, "update") /\ Free(w)
    /\ lock' = [lock EXCEPT !["analyzer"] = w]
    /\ Saw(w, IF side = None THEN EmptySidecar ELSE Migrated(side), "updating")
    /\ UNCHANGED <<disk, side, root, cell, run, pending, n, outrun, missed>>

(* Mutant of Updated: forgets to take the name out of its old bucket.      *)
UpdatedNoDrop(s, c, x) ==
    [s EXCEPT !.chunks = [d \in DOMAIN @ \cup {c} |->
                            IF d = c THEN [md5 |-> x, cid |-> "null"] ELSE @[d]],
              !.byMd5 = [y \in Md5s |-> IF y = x THEN @[y] \cup {c} ELSE @[y]],
              !.byCid = [i \in DOMAIN @ |-> IF i = "null" THEN @[i] \cup {c} ELSE @[i] \ {c}]]
Updated(s, c, x) ==
    [s EXCEPT !.chunks = [d \in DOMAIN @ \cup {c} |->
                            IF d = c THEN [md5 |-> x, cid |-> "null"] ELSE @[d]],
              !.byMd5 = [y \in Md5s |-> IF y = x THEN @[y] \cup {c} ELSE @[y] \ {c}],
              !.byCid = [i \in DOMAIN @ |-> IF i = "null" THEN @[i] \cup {c} ELSE @[i] \ {c}]]

UpdateWrite(w) ==
    /\ At(w, "updating")
    /\ WriteSidecar(Updated(th[w].view, th[w].c, run.md5))
    /\ lock' = [lock EXCEPT !["analyzer"] = None]
    /\ th' = [th EXCEPT ![w] = Idle]
    /\ UNCHANGED <<disk, root, cell, run, pending, missed>>

EndRun ==
    /\ At("main", "join") /\ \A w \in Workers : At(w, "idle")
    /\ th' = [th EXCEPT !["main"] = Idle]
    /\ cell' = "free"
    /\ UNCHANGED <<disk, side, root, lock, run, pending, n, outrun, missed>>
-----------------------------------------------------------------------------
(* check_rawdata_status: answered from the root entry when its count is    *)
(* that of the directory and every chunk is current, else from the sidecar *)
(* and the root entry is refreshed.                                        *)
FastPath == root # None /\ root.count = Cardinality(DOMAIN disk) /\ root.md5s = {Current}

Status ==
    /\ At("reader", "idle") /\ n.call < MaxCalls
    /\ ~FastPath /\ disk # <<>>
    /\ n' = [n EXCEPT !.call = @ + 1]
    /\ th' = [th EXCEPT !["reader"] = [Idle EXCEPT !.pc = "glob", !.ret = "root"]]
    /\ UNCHANGED <<disk, side, root, lock, cell, run, pending, outrun, missed>>

(* The deletes: the tiered delete of a cell, the delete of one md5         *)
(* version (both holding DELETING) and the cleanup for disk space, which   *)
(* only looks whether the cell is in use.                                  *)
StartDelete ==
    /\ At("cleaner", "idle") /\ cell = "free" /\ n.call < MaxCalls /\ disk # <<>>
    /\ n' = [n EXCEPT !.call = @ + 1]
    /\ \E k \in {"tiered", "version", "space"} :
        /\ cell' = IF k = "space" THEN "free" ELSE "deleting"
        /\ th' = [th EXCEPT !["cleaner"] =
                    [Idle EXCEPT !.kind = k, !.ret = "unlink", !.names = DOMAIN disk,
                                 !.pc = IF k = "version" THEN "unlink" ELSE "load"]]
    /\ UNCHANGED <<disk, side, root, lock, run, pending, outrun, missed>>

(* _classify_chunks with no retention quota: what is not current goes; the *)
(* version delete goes by the headers, not by the sidecar.                 *)
Historical(t) == {c \in th[t].names : \E x \in Md5Of(t, c) : x # Current}
Victims(t) ==
    IF th[t].kind = "version"
    THEN {{c \in DOMAIN disk : disk[c] = x} : x \in Md5s}
    ELSE SUBSET (Historical(t) \cap DOMAIN disk)

(* The names gone are kept in names.                                       *)
Unlink ==
    /\ At("cleaner", "unlink")
    /\ \E gone \in Victims("cleaner") :
        /\ disk' = Restrict(disk, DOMAIN disk \ gone)
        /\ th' = [th EXCEPT !["cleaner"].names = gone,
                            !["cleaner"].pc = "remove", !["cleaner"].view = None]
    /\ UNCHANGED <<side, root, lock, cell, run, pending, n, outrun, missed>>

(* bulk_remove_chunk_entries under the console's lock, then the root entry *)
(* is refreshed, or dropped with the last chunk (it stays if that write    *)
(* fails); the cleanup for disk space leaves it to the next read.          *)
AfterRemove ==
    IF th["cleaner"].kind # "space" /\ disk # <<>>
    THEN /\ th' = [th EXCEPT !["cleaner"] =
                     [Idle EXCEPT !.pc = "glob", !.ret = "root", !.kind = th["cleaner"].kind]]
         /\ UNCHANGED <<cell, root>>
    ELSE /\ Finish("cleaner")
         /\ root' \in IF th["cleaner"].kind = "space" THEN {root} ELSE {root, None}

RemoveLoad ==
    /\ At("cleaner", "remove") /\ Free("cleaner")
    /\ IF side = None \/ th["cleaner"].names \cap DOMAIN side.chunks = {}
       THEN AfterRemove /\ UNCHANGED lock
       ELSE /\ lock' = [lock EXCEPT !["console"] = "cleaner"]
            /\ Saw("cleaner", Migrated(side), "removing")
            /\ UNCHANGED <<cell, root>>
    /\ UNCHANGED <<disk, side, run, pending, n, outrun, missed>>

Removed(s, gone) ==
    [s EXCEPT !.chunks = Restrict(@, DOMAIN @ \ gone),
              !.byMd5 = [x \in Md5s |-> @[x] \ gone],
              !.byCid = [i \in DOMAIN @ |-> @[i] \ gone]]

RemoveWrite ==
    /\ At("cleaner", "removing")
    /\ WriteSidecar(Removed(th["cleaner"].view, th["cleaner"].names))
    /\ lock' = [lock EXCEPT !["console"] = None]
    /\ AfterRemove
    /\ UNCHANGED <<disk, run, pending, missed>>
-----------------------------------------------------------------------------
(* _reassociate_orphaned_configs: the chunks a crashed batch item left in  *)
(* the "null" bucket are given its config id, one set_chunk_config_id      *)
(* each; the row goes when all succeeded or some chunk already has it.     *)
Reassociate ==
    /\ At("boot", "idle") /\ pending /\ n.call < MaxCalls
    /\ n' = [n EXCEPT !.call = @ + 1]
    /\ side # None
    /\ LET s == Migrated(side) IN
       IF s.byCid["cfg"] # {}
       THEN pending' = FALSE /\ UNCHANGED th
       ELSE /\ th' = [th EXCEPT !["boot"] = [Idle EXCEPT !.names = s.byCid["null"], !.pc = "assign"]]
            /\ UNCHANGED pending
    /\ UNCHANGED <<disk, side, root, lock, cell, run, outrun, missed>>

AssignLoad ==
    /\ At("boot", "assign") /\ th["boot"].names # {} /\ Free("boot")
    /\ \E c \in th["boot"].names :
        IF side = None \/ c \notin DOMAIN side.chunks
        THEN /\ th' = [th EXCEPT !["boot"].names = @ \ {c}, !["boot"].kind = "failed"]
             /\ UNCHANGED lock
        ELSE /\ lock' = [lock EXCEPT !["console"] = "boot"]
             /\ th' = [th EXCEPT !["boot"].c = c, !["boot"].view = Migrated(side),
                                 !["boot"].pc = "assigning"]
    /\ UNCHANGED <<disk, side, root, cell, run, pending, n, outrun, missed>>

Assigned(s, c) ==
    [s EXCEPT !.chunks[c].cid = "cfg",
              !.byCid = [i \in DOMAIN @ |-> IF i = "cfg" THEN @[i] \cup {c} ELSE @[i] \ {c}]]

AssignWrite ==
    /\ At("boot", "assigning")
    /\ WriteSidecar(Assigned(th["boot"].view, th["boot"].c))
    /\ lock' = [lock EXCEPT !["console"] = None]
    /\ th' = [th EXCEPT !["boot"].names = @ \ {th["boot"].c}, !["boot"].pc = "assign",
                        !["boot"].kind = IF n' # n THEN "failed" ELSE @]
    /\ UNCHANGED <<disk, root, cell, run, pending, missed>>

EndReassociate ==
    /\ At("boot", "assign") /\ th["boot"].names = {}
    /\ pending' = (th["boot"].kind = "failed")
    /\ th' = [th EXCEPT !["boot"] = [Idle EXCEPT !.pc = "over"]]
    /\ UNCHANGED <<disk, side, root, lock, cell, run, n, outrun, missed>>
-----------------------------------------------------------------------------
(* A process is killed: what its threads had read and had yet to write is  *)
(* gone, its lock with it, and a cell it was deleting from can be claimed. *)
(* The console settles the run of a killed analyzer as it does one that    *)
(* ended; a restarted console re-associates again.                         *)
Killed(p) ==
    /\ n.fail < MaxFail /\ n' = [n EXCEPT !.fail = @ + 1]
    /\ \E t \in Threads : Process(t) = p /\ ~At(t, "idle")
    /\ missed' = (missed \/ \E w \in Workers :
                    Process(w) = p /\ th[w].pc \in {"glob", "build", "root"})
    /\ th' = [t \in Threads |-> IF Process(t) # p THEN th[t]
                               ELSE [Idle EXCEPT !.pc = IF t = "main" THEN "join" ELSE "idle"]]
    /\ lock' = [lock EXCEPT ![p] = None]
    /\ cell' = IF p = "console" /\ cell = "deleting" THEN "free" ELSE cell
    /\ UNCHANGED <<disk, side, root, run, pending, outrun>>

Index == \E t \in Threads : Get(t) \/ Build(t) \/ RootScan(t)
Analyzer ==
    \/ StartRun \/ Seed \/ EndRun
    \/ \E w \in Workers : \/ FetchFails(w) \/ WriteChunk(w)
                          \/ RootWrite(w, "update") \/ UpdateLoad(w) \/ UpdateWrite(w)
Console ==
    \/ Status \/ RootWrite("reader", "idle")
    \/ StartDelete \/ Unlink \/ RemoveLoad \/ RemoveWrite \/ RootWrite("cleaner", "idle")
    \/ Reassociate \/ AssignLoad \/ AssignWrite \/ EndReassociate

Next == Index \/ Analyzer \/ Console \/ \E p \in DOMAIN lock : Killed(p)
Spec == Init /\ [][Next]_vars
-----------------------------------------------------------------------------
(* Whatever interleaving wrote it, the two inverted indexes of a sidecar   *)
(* are those of its chunk table: "Writes maintain BOTH indexes             *)
(* atomically" (update_chunk_entry, bulk_remove_chunk_entries,             *)
(* set_chunk_config_id patch them bucket by bucket).                       *)
IndexesAgree ==
    side # None /\ ~side.legacy =>
        side.byMd5 = ByMd5(side.chunks) /\ side.byCid = ByConfigId(side.chunks)

(* With nobody at work, what the keyset test lets a reader trust is true   *)
(* of the files, and so is the root entry the fast path trusts by its      *)
(* count, unless some thread wrote a cache from a directory that had       *)
(* changed since it read it, or (for the root entry) a chunk was written   *)
(* whose refresh failed or was cut off by a kill and none came since:      *)
(* deletes, rewritten indices, failed refreshes of a delete or of a status *)
(* read, and up to two failed sidecar writes or killed processes never     *)
(* mislead a reader by themselves.                                         *)
OnlyOutrunOrMissedMislead ==
    (\A t \in Threads : th[t].pc \in {"idle", "over"}) /\ ~outrun =>
        /\ side # None /\ ~Stale(side) /\ n.fail <= 2 => ~Untrue(side)
        /\ /\ ~missed
           /\ root # None /\ root.count = Cardinality(DOMAIN disk) /\ Cardinality(root.md5s) = 1
           => Range(disk) = root.md5s

(* A resumed run never writes over a chunk that is on disk, however stale  *)
(* the sidecar it started from was: the index it seeds from is checked     *)
(* against the directory first.                                            *)
ResumeNeverOverwrites ==
    [][\A w \in Workers : WriteChunk(w) => th[w].c \notin DOMAIN disk]_vars

=============================================================================
