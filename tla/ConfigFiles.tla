----------------------------- MODULE ConfigFiles -----------------------------
(***************************************************************************)
(* The JSON files the console keeps its configuration in and the request   *)
(* threads that edit them (config_writer.py, app.py, machine_variants.py). *)
(* Three disciplines meet:                                                 *)
(*                                                                         *)
(*   plain    read the file, change the copy, atomic_json_write: servers,  *)
(*            settings, halls, the server snapshot (not even atomic)       *)
(*   cached   the same, but the read goes through an in-memory copy that   *)
(*            is trusted while the file's mtime is the one it was stored   *)
(*            with: rawdata_locks.json, machines_static.json               *)
(*   locked   atomic_json_read_modify_write: machines.json, the registry   *)
(*            of uploaded configurations                                   *)
(*                                                                         *)
(* A file is a value; os.replace makes each write one step.  The static    *)
(* cache hands out the cached object itself, which the merge changes in    *)
(* place: heap holds these objects.  Two GETs write as well: that of the   *)
(* static attributes fills an empty file from the reports, that of the     *)
(* halls brings a file of an older schema up to date.                      *)
(*                                                                         *)
(* A file may be unreadable and a write may fail, at any time.             *)
(***************************************************************************)
EXTENDS Naturals, Sequences, FiniteSets

CONSTANTS Threads, Servers, Cells, Features, Configs,
          Rows, Keys,   (* machines.json rows and upstream MachineConfigMd5 keys *)
          Owner,        (* machineTestVariantsJson: variant row -> its key    *)
          Ops,          (* the requests in play                               *)
          MaxRequests,  (* bound: requests                                    *)
          MaxMd5,       (* bound: md5s of one upstream key                    *)
          None

(* The requests: PUT, POST and DELETE handlers, the reads of the cached    *)
(* files and of the halls, and the end of an import of reports.            *)
Requests == {"add", "update", "delete", "default", "retention", "tuning", "lock", "unlock",
             "readLocks", "merge", "readStatic", "import", "halls", "readHalls", "refresh",
             "scan", "check", "upload"}

ASSUME ConfigAssumption ==
    /\ Keys \subseteq Rows /\ DOMAIN Owner \subseteq Rows
    /\ \A v \in DOMAIN Owner : Owner[v] \in Keys
    /\ MaxRequests \in Nat /\ MaxMd5 \in Nat \ {0} /\ None \notin Servers \cup Threads
    /\ Ops \subseteq Requests

Plain  == {"servers", "settings", "halls", "snap"}
Cached == {"locks", "static"}
Locked == {"machines", "registry"}
Files  == Plain \cup Cached \cup Locked

VARIABLES file,     (* content of each file                                   *)
          mtime,    (* st_mtime_ns of the cached files                        *)
          cache,    (* _LOCK_CACHE and _STATIC_ATTRS_CACHE                    *)
          guard,    (* _LOCK_CACHE_GUARD and _STATIC_ATTRS_CACHE_GUARD           *)
          heap,     (* the dicts _load_static_attrs has handed out            *)
          flock,    (* _FILE_LOCKS held across a read-modify-write            *)
          upstream, (* what MachineConfigMd5 answers                          *)
          th,       (* each request: its operation, arguments, step and copy  *)
          left,     (* requests left (bound)                                  *)
          wanted,   (* the files if requests ran one after the other, in the  *)
                    (* order of their last write (history)                    *)
          disturbed (* files two requests worked on at once, or one could not *)
                    (* read before writing it or not write (history)          *)

vars == <<file, mtime, cache, guard, heap, flock, upstream, th, left, wanted, disturbed>>
env == <<upstream, left, disturbed>>

Idle == [op |-> "none", arg |-> None, at |-> "idle", copy |-> None]

(* The files an operation writes; the GETs only sometimes do.              *)
Writes(op) ==
    CASE op \in {"add", "update"}                  -> {"servers"}
      [] op = "delete"                             -> {"servers", "settings"}
      [] op \in {"default", "retention", "tuning"} -> {"settings"}
      [] op \in {"lock", "unlock"}                 -> {"locks"}
      [] op \in {"merge", "import", "readStatic"}  -> {"static"}
      [] op \in {"halls", "readHalls"}             -> {"halls"}
      [] op = "refresh"                            -> {"machines", "snap"}
      [] op \in {"scan", "check"}                  -> {"snap"}
      [] op = "upload"                             -> {"registry"}
      [] op = "readLocks"                          -> {}

Args(op) ==
    CASE op \in {"add", "update", "delete", "default", "tuning"} -> Servers
      [] op \in {"lock", "unlock"}                               -> Cells
      [] op = "merge"                                            -> Features
      [] op = "upload"                                           -> Configs
      [] OTHER                                                   -> {None}

DefaultSettings == [default |-> None, retention |-> 0, tuned |-> {}]

(* The halls: upstream's machineTestVariantsJson, and whether the file is  *)
(* of an older schema.  There is no file yet, or an old one.               *)
HallsFiles == {[map |-> {}, old |-> FALSE], [map |-> DOMAIN Owner, old |-> TRUE]}

Init ==
    /\ \E halls \in HallsFiles :
       file = [servers  |-> [s \in Servers |-> "absent"],
               settings |-> DefaultSettings,
               halls    |-> halls,
               snap     |-> None,
               locks    |-> {}, static |-> {},
               machines |-> [r \in Rows |-> IF r \in DOMAIN Owner THEN 0 ELSE None],
               registry |-> {}]
    /\ mtime = [f \in Cached |-> 1]
    /\ cache = [f \in Cached |-> [mtime |-> 0, data |-> None]]
    /\ heap = <<>> /\ guard = [f \in Cached |-> None]
    /\ flock = [f \in Locked |-> None]
    /\ upstream = [k \in Keys |-> 1]
    /\ th = [t \in Threads |-> Idle]
    /\ left = MaxRequests
    /\ wanted = file
    /\ disturbed = {}

Step(t, at, copy) == th' = [th EXCEPT ![t].at = at, ![t].copy = copy]
End(t) == th' = [th EXCEPT ![t] = Idle]
At(t, at) == th[t].at = at

(* The files a request works on.  A GET only looks until it finds that it  *)
(* has to write.                                                           *)
Edits(r) ==
    IF r.at = "idle" \/ (r.op \in {"readStatic", "readHalls"} /\ r.at \in {"start", "load", "reload"})
    THEN {} ELSE Writes(r.op)
InFlight(f) == {t \in Threads : f \in Edits(th[t])}

(* Those of the files that somebody works on already are disturbed.        *)
Meet(files) == disturbed' = disturbed \cup {f \in files : InFlight(f) # {}}

(* A request arrives; halls/refresh is single-flight (try_acquire_global). *)
Begin(t, op) ==
    /\ At(t, "idle") /\ left > 0
    /\ op = "halls" => \A u \in Threads : th[u].op # "halls"
    /\ \E a \in Args(op) :
         LET r == [op |-> op, arg |-> a, at |-> "start", copy |-> None]
         IN  th' = [th EXCEPT ![t] = r] /\ Meet(Edits(r))
    /\ left' = left - 1
    /\ UNCHANGED <<file, mtime, cache, guard, heap, flock, upstream, wanted>>
-----------------------------------------------------------------------------
(* servers.json and settings.json.                                         *)

(* What each handler changes in its copy: add_server (an entry without an  *)
(* endpoint), update_server (it gets one), delete_server, set-default, PUT *)
(* /api/settings and autotune.                                             *)
Added(c, a)     == [c EXCEPT ![a] = "bare"]
Updated(c, a)   == [c EXCEPT ![a] = "live"]
Deleted(c, a)   == [c EXCEPT ![a] = "absent"]
Defaulted(c, a) == [c EXCEPT !.default = a]
Retained(c)     == [c EXCEPT !.retention = 1]
Tuned(c, a)     == [c EXCEPT !.tuned = @ \cup {a}]
Undefaulted(c)  == [c EXCEPT !.default = None]

NewServers(op, a, c) ==
    CASE op = "add" -> Added(c, a) [] op = "update" -> Updated(c, a) [] op = "delete" -> Deleted(c, a)

NewSettings(op, a, c) ==
    CASE op = "default" -> Defaulted(c, a) [] op = "retention" -> Retained(c)
      [] op = "tuning" -> Tuned(c, a)      [] op = "delete" -> Undefaulted(c)

(* load_servers, which raises when the file is unreadable, and the         *)
(* handlers' 404 and 409: the request goes on with the copy.  set-default  *)
(* only looks at the target's endpoint.                                    *)
LoadServers(t) ==
    /\ At(t, "start") /\ th[t].op \in {"add", "update", "delete", "default"}
    /\ LET s == file.servers[th[t].arg]
       IN  \/ End(t)
           \/ CASE th[t].op = "add" /\ s # "absent"                  -> End(t)
                [] th[t].op \in {"update", "delete"} /\ s = "absent" -> End(t)
                [] th[t].op = "default"                              ->
                       IF s = "live" THEN Step(t, "settings", None) ELSE End(t)
                [] OTHER                                             -> Step(t, "save", file.servers)
    /\ UNCHANGED <<file, mtime, cache, guard, heap, flock, wanted, env>>

(* save_servers.                                                           *)
SaveServers(t) ==
    /\ At(t, "save")
    /\ file' = [file EXCEPT !.servers = NewServers(th[t].op, th[t].arg, th[t].copy)]
    /\ wanted' = [wanted EXCEPT !.servers = NewServers(th[t].op, th[t].arg, @)]
    /\ IF th[t].op = "delete" THEN Step(t, "settings", None) ELSE End(t)
    /\ UNCHANGED <<mtime, cache, guard, heap, flock, env>>

(* _load_settings of set-default, PUT /api/settings, autotune and, last,   *)
(* of a server's delete, which clears an override that names it.  An       *)
(* unreadable file is taken for one with the defaults.                     *)
LoadSettings(t) ==
    /\ \/ At(t, "settings")
       \/ At(t, "start") /\ th[t].op \in {"retention", "tuning"}
    /\ \E readable \in BOOLEAN :
         LET settings == IF readable THEN file.settings ELSE DefaultSettings
         IN  IF th[t].op = "delete" /\ settings.default # th[t].arg
             THEN End(t) /\ UNCHANGED disturbed
             ELSE /\ Step(t, "saveSettings", settings)
                  /\ disturbed' = IF readable THEN disturbed ELSE disturbed \cup {"settings"}
    /\ UNCHANGED <<file, mtime, cache, guard, heap, flock, wanted, upstream, left>>

SaveSettings(t) ==
    /\ At(t, "saveSettings")
    /\ file' = [file EXCEPT !.settings = NewSettings(th[t].op, th[t].arg, th[t].copy)]
    /\ wanted' = [wanted EXCEPT !.settings = NewSettings(th[t].op, th[t].arg, @)]
    /\ End(t)
    /\ UNCHANGED <<mtime, cache, guard, heap, flock, env>>

-----------------------------------------------------------------------------
(* rawdata_locks.json and machines_static.json, behind their caches.       *)

FileOf(op) == IF op \in {"lock", "unlock", "readLocks"} THEN "locks" ELSE "static"

(* The stat of _load_rawdata_locks and _load_static_attrs, before the      *)
(* cache's guard.                                                          *)
StatFile(t) ==
    /\ At(t, "start") /\ th[t].op \in {"lock", "unlock", "readLocks", "merge", "readStatic"}
    /\ Step(t, "load", mtime[FileOf(th[t].op)])
    /\ UNCHANGED <<file, mtime, cache, guard, heap, flock, wanted, env>>

Hit(f, stat) == cache[f].data # None /\ cache[f].mtime = stat

(* What the callers do with the answer: a reader is done, unless it finds  *)
(* the static attributes empty; _set_rawdata_lock stops if the cell is as  *)
(* it should be; _merge_machine_static unites the features of the entry it *)
(* finds in the object with its own.                                       *)
GoOn(t, data, objects) ==
    LET op == th[t].op  a == th[t].arg
        empty == op = "readStatic" /\ objects[data] = {}
    IN  /\ CASE op = "lock" /\ a \notin data -> Step(t, "write", data \cup {a})
             [] op = "unlock" /\ a \in data  -> Step(t, "write", data \ {a})
             [] op = "merge" -> Step(t, "assign", [obj |-> data, features |-> objects[data] \cup {a}])
             [] empty -> Step(t, "walk", data)
             [] OTHER -> End(t)
        /\ IF empty THEN Meet({"static"}) ELSE UNCHANGED disturbed

(* The cache answers, or its guard is kept while the file is read again;   *)
(* an unreadable file is taken for an empty one.                           *)
LookUp(t) ==
    /\ At(t, "load")
    /\ LET f == FileOf(th[t].op)
       IN  /\ guard[f] = None
           /\ IF Hit(f, th[t].copy)
              THEN GoOn(t, cache[f].data, heap) /\ UNCHANGED guard
              ELSE /\ \/ /\ Step(t, "reload", [mtime |-> th[t].copy, data |-> file[f]])
                         /\ UNCHANGED disturbed
                      \/ /\ Step(t, "reload", [mtime |-> th[t].copy, data |-> {}])
                         /\ disturbed' = disturbed \cup {f}
                   /\ guard' = [guard EXCEPT ![f] = t]
    /\ UNCHANGED <<file, mtime, cache, heap, flock, wanted, upstream, left>>

StoreLocks(t) ==
    /\ At(t, "reload") /\ FileOf(th[t].op) = "locks"
    /\ cache' = [cache EXCEPT !.locks = th[t].copy]
    /\ guard' = [guard EXCEPT !.locks = None]
    /\ GoOn(t, th[t].copy.data, heap)
    /\ UNCHANGED <<file, mtime, heap, flock, wanted, upstream, left>>

StoreStatic(t) ==
    /\ At(t, "reload") /\ FileOf(th[t].op) = "static"
    /\ heap' = Append(heap, th[t].copy.data)
    /\ cache' = [cache EXCEPT !.static = [mtime |-> th[t].copy.mtime, data |-> Len(heap')]]
    /\ guard' = [guard EXCEPT !.static = None]
    /\ GoOn(t, Len(heap'), heap')
    /\ UNCHANGED <<file, mtime, flock, wanted, upstream, left>>

(* _bootstrap_static_attrs, of a GET whose object is still empty and of    *)
(* every import: a new object with what machines.json and the report       *)
(* summaries tell.                                                         *)
Walk(t) ==
    /\ \/ At(t, "walk") /\ heap[th[t].copy] = {}
       \/ At(t, "start") /\ th[t].op = "import"
    /\ \E found \in SUBSET Features : heap' = Append(heap, found)
    /\ Step(t, "write", Len(heap'))
    /\ UNCHANGED <<file, mtime, cache, guard, flock, wanted, env>>

(* A merge has filled the object meanwhile.                                *)
FoundFilled(t) ==
    /\ At(t, "walk") /\ heap[th[t].copy] # {}
    /\ End(t)
    /\ UNCHANGED <<file, mtime, cache, guard, heap, flock, wanted, env>>

(* data["machines"][machine] = entry, in the object the cache holds.       *)
AssignEntry(t) ==
    /\ At(t, "assign")
    /\ heap' = [heap EXCEPT ![th[t].copy.obj] = th[t].copy.features]
    /\ Step(t, "write", th[t].copy.obj)
    /\ UNCHANGED <<file, mtime, cache, guard, flock, wanted, env>>

(* The atomic_json_write of _save_rawdata_locks and _save_static_attrs.    *)
(* An import means to replace what the file holds, a GET to add to it.     *)
WriteCached(t) ==
    /\ At(t, "write")
    /\ LET f == FileOf(th[t].op)
           a == th[t].arg
       IN  /\ file' = [file EXCEPT ![f] = IF f = "locks" THEN th[t].copy ELSE heap[th[t].copy]]
           /\ mtime' = [mtime EXCEPT ![f] = @ + 1]
           /\ wanted' = [wanted EXCEPT ![f] =
                  CASE th[t].op = "unlock"     -> @ \ {a}
                    [] th[t].op = "import"     -> heap[th[t].copy]
                    [] th[t].op = "readStatic" -> @ \cup heap[th[t].copy]
                    [] OTHER                   -> @ \cup {a}]
    /\ Step(t, "cache", th[t].copy)
    /\ UNCHANGED <<cache, guard, heap, flock, env>>

(* Mutant of UpdateCache: the new mtime without the new data.              *)
UpdateMtimeOnly(t) ==
    /\ At(t, "cache")
    /\ LET f == FileOf(th[t].op)
       IN  /\ guard[f] = None
           /\ cache' = [cache EXCEPT ![f].mtime = mtime[f]]
    /\ End(t)
    /\ UNCHANGED <<file, mtime, guard, heap, flock, wanted, env>>

(* Their second half, under the guard: the file's mtime as it is now with  *)
(* the data of this save.                                                  *)
UpdateCache(t) ==
    /\ At(t, "cache")
    /\ LET f == FileOf(th[t].op)
       IN  /\ guard[f] = None
           /\ cache' = [cache EXCEPT ![f] = [mtime |-> mtime[f], data |-> th[t].copy]]
    /\ End(t)
    /\ UNCHANGED <<file, mtime, guard, heap, flock, wanted, env>>
-----------------------------------------------------------------------------
(* machines.json, the halls' variants map and the server snapshot.         *)

(* apply_md5_refresh: upstream keys without a row are discovered unless    *)
(* they own variants; every row takes the md5 of the key it resolves to,   *)
(* unless upstream has none.                                               *)
Refreshed(rows, answer, variants) ==
    LET owner(r) == IF r \in variants THEN Owner[r] ELSE r
        exists(r) == \/ rows[r] # None
                     \/ r \in Keys /\ answer[r] # 0 /\ ~\E v \in variants : Owner[v] = r
    IN  [r \in Rows |->
           IF ~exists(r) THEN None
           ELSE IF owner(r) \in Keys /\ answer[owner(r)] # 0 THEN answer[owner(r)]
           ELSE rows[r]]

(* _fetch_machine_config_md5: no answer, or what upstream reports now.     *)
Answer(t, at) == End(t) \/ Step(t, at, upstream)

(* A refresh fetches first; without an answer it ends.                     *)
FetchForRefresh(t) ==
    /\ At(t, "start") /\ th[t].op = "refresh" /\ Answer(t, "variants")
    /\ UNCHANGED <<file, mtime, cache, guard, heap, flock, wanted, env>>

(* scan, and check-changes after it has loaded the snapshot before.        *)
FetchForSnapshot(t) ==
    /\ At(t, "start") /\ th[t].op \in {"scan", "check"} /\ Answer(t, "snap")
    /\ UNCHANGED <<file, mtime, cache, guard, heap, flock, wanted, env>>

(* load_variants_map, after the fetch and before the lock; an unreadable   *)
(* file has no variants.                                                   *)
LoadVariants(t) ==
    /\ At(t, "variants")
    /\ \E v \in {file.halls.map, {}} : Step(t, "rmw", [answer |-> th[t].copy, variants |-> v])
    /\ UNCHANGED <<file, mtime, cache, guard, heap, flock, wanted, env>>

(* halls/refresh: the map upstream knows replaces the file.                *)
RefreshHalls(t) ==
    /\ At(t, "start") /\ th[t].op = "halls"
    /\ \/ UNCHANGED <<file, wanted>>
       \/ /\ file' = [file EXCEPT !.halls = [map |-> DOMAIN Owner, old |-> FALSE]]
          /\ wanted' = [wanted EXCEPT !.halls = [map |-> DOMAIN Owner, old |-> FALSE]]
    /\ End(t)
    /\ UNCHANGED <<mtime, cache, guard, heap, flock, env>>

(* GET /api/machines/halls: an old file is parsed again and written back.  *)
ReadHalls(t) ==
    /\ At(t, "start") /\ th[t].op = "readHalls"
    /\ \/ End(t) /\ UNCHANGED disturbed
       \/ file.halls.old /\ Step(t, "backfill", file.halls) /\ Meet({"halls"})
    /\ UNCHANGED <<file, mtime, cache, guard, heap, flock, wanted, upstream, left>>

BackfillHalls(t) ==
    /\ At(t, "backfill")
    /\ file' = [file EXCEPT !.halls = [th[t].copy EXCEPT !.old = FALSE]]
    /\ wanted' = [wanted EXCEPT !.halls.old = FALSE]
    /\ End(t)
    /\ UNCHANGED <<mtime, cache, guard, heap, flock, env>>

(* _save_server_snapshot: a plain write_text.                              *)
SaveSnapshot(t) ==
    /\ At(t, "snap")
    /\ file' = [file EXCEPT !.snap = th[t].copy]
    /\ wanted' = [wanted EXCEPT !.snap = th[t].copy]
    /\ End(t)
    /\ UNCHANGED <<mtime, cache, guard, heap, flock, env>>
-----------------------------------------------------------------------------
(* atomic_json_read_modify_write.                                          *)

LockedFile(t) == IF th[t].op = "upload" THEN "registry" ELSE "machines"
InRmw(t) == At(t, "rmw") \/ (At(t, "start") /\ th[t].op = "upload")

(* The default an unreadable file is taken for.                            *)
Empty(f) == IF f = "registry" THEN {} ELSE [r \in Rows |-> None]
Base(f, readable) == IF readable THEN file[f] ELSE Empty(f)

(* Mutant of RmwRead: the read is outside the per-file lock.               *)
RmwReadUnlocked(t) ==
    /\ InRmw(t)
    /\ \E readable \in BOOLEAN :
         Step(t, "rmwWrite", [in |-> th[t].copy, readable |-> readable, base |-> Base(LockedFile(t), readable)])
    /\ UNCHANGED <<file, mtime, cache, guard, heap, flock, wanted, env>>

(* _lock_for(path) is taken and the file read.                             *)
RmwRead(t) ==
    /\ InRmw(t) /\ flock[LockedFile(t)] = None
    /\ flock' = [flock EXCEPT ![LockedFile(t)] = t]
    /\ \E readable \in BOOLEAN :
         Step(t, "rmwWrite", [in |-> th[t].copy, readable |-> readable, base |-> Base(LockedFile(t), readable)])
    /\ UNCHANGED <<file, mtime, cache, guard, heap, wanted, env>>

(* The modifier is applied, the file replaced, the lock released.          *)
RmwWrite(t) ==
    /\ At(t, "rmwWrite")
    /\ LET f == LockedFile(t)
           in == th[t].copy.in
           new(c) == IF f = "registry" THEN c \cup {th[t].arg}
                     ELSE Refreshed(c, in.answer, in.variants)
       IN  /\ file' = [file EXCEPT ![f] = new(th[t].copy.base)]
           /\ wanted' = [wanted EXCEPT ![f] = new(IF th[t].copy.readable THEN @ ELSE Empty(f))]
           /\ flock' = [flock EXCEPT ![f] = None]
           /\ IF f = "machines" THEN Step(t, "snap", in.answer) ELSE End(t)
    /\ UNCHANGED <<mtime, cache, guard, heap, env>>

(* A request raises before its file is written (disk full, a report that   *)
(* vanishes under the walk).  A merge has changed the cached object by     *)
(* then.                                                                   *)
Fails(t) ==
    /\ th[t].at \in {"save", "saveSettings", "walk", "write", "backfill", "snap", "rmwWrite"}
    /\ End(t)
    /\ flock' = [f \in Locked |-> IF flock[f] = t THEN None ELSE flock[f]]
    /\ disturbed' = IF At(t, "write") /\ th[t].op = "merge" THEN disturbed \cup {"static"} ELSE disturbed
    /\ UNCHANGED <<file, mtime, cache, guard, heap, wanted, upstream, left>>

(* Upstream deploys a new configuration of a key.                          *)
UpstreamChanges(k) ==
    /\ upstream[k] < MaxMd5
    /\ upstream' = [upstream EXCEPT ![k] = @ + 1]
    /\ UNCHANGED <<file, mtime, cache, guard, heap, flock, th, left, wanted, disturbed>>

Request(t) ==
    \/ LoadServers(t) \/ SaveServers(t) \/ LoadSettings(t) \/ SaveSettings(t)
    \/ StatFile(t) \/ LookUp(t) \/ StoreLocks(t) \/ StoreStatic(t)
    \/ Walk(t) \/ FoundFilled(t) \/ AssignEntry(t) \/ WriteCached(t) \/ UpdateCache(t)
    \/ FetchForRefresh(t) \/ FetchForSnapshot(t) \/ LoadVariants(t)
    \/ RefreshHalls(t) \/ ReadHalls(t) \/ BackfillHalls(t) \/ SaveSnapshot(t)
    \/ RmwRead(t) \/ RmwWrite(t) \/ Fails(t)

Next ==
    \/ \E t \in Threads : Request(t) \/ \E op \in Ops : Begin(t, op)
    \/ \E k \in Keys : UpstreamChanges(k)

Spec == Init /\ [][Next]_vars
-----------------------------------------------------------------------------
(* PROPERTIES                                                              *)

(* A read-modify-write undoes nobody's: whatever refreshes and uploads run *)
(* at once and fail, machines.json and the upload registry are what the    *)
(* same requests would have left one after the other.  (One that finds the *)
(* file unreadable starts from an empty one, alone or not.)                *)
RmwLosesNothing == \A f \in Locked : file[f] = wanted[f]

(* What the next _load_rawdata_locks or _load_static_attrs returns.        *)
Seen(f) ==
    IF ~Hit(f, mtime[f]) THEN file[f]
    ELSE IF f = "static" THEN heap[cache.static.data] ELSE cache.locks.data

(* Edits of a file that do not overlap, and of which none fails, all stay, *)
(* whatever reads run beside them, and the caches agree: the lock an       *)
(* operator puts on a cell is seen by the cleanup that follows, a feature  *)
(* once recorded is forgotten by an import only.  The GET of the static    *)
(* attributes fills the file from the reports only when nothing is         *)
(* recorded: from there on it counts as an edit, as does the GET of an old *)
(* halls file, and neither takes away what an edit before it left.         *)
SequentialEditsStay ==
    \A f \in (Plain \cup Cached) \ disturbed : InFlight(f) = {} =>
        /\ file[f] = wanted[f]
        /\ f \in Cached => Seen(f) = wanted[f]

=============================================================================
