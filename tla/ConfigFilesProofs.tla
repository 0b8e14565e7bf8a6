-------------------------- MODULE ConfigFilesProofs --------------------------
(***************************************************************************)
(* For any threads, requests and contents: what ConfigFiles promises of    *)
(* the files behind a lock (no edit is lost) and of those without one      *)
(* (edits that do not overlap stay, and the caches show them).             *)
(***************************************************************************)
EXTENDS ConfigFiles, TLAPS

(* No content or copy is typed by the code; these are the shapes a step    *)
(* relies on.                                                              *)
Fields == {"op", "arg", "at", "copy"}
Shape ==
    /\ DOMAIN th = Threads /\ \A t \in Threads : DOMAIN th[t] = Fields
    /\ DOMAIN file = Files /\ DOMAIN wanted = Files
    /\ DOMAIN flock = Locked /\ DOMAIN guard = Cached
    /\ DOMAIN cache = Cached
    /\ heap \in Seq(SUBSET Features) /\ file.static \in SUBSET Features

(* Which requests come to which step.                                      *)
PlaceOk(t) ==
    /\ At(t, "idle") \/ th[t].op \in Requests
    /\ At(t, "save") => th[t].op \in {"add", "update", "delete"}
    /\ At(t, "settings") => th[t].op \in {"default", "delete"}
    /\ At(t, "saveSettings") => th[t].op \in {"default", "delete", "retention", "tuning"}
    /\ At(t, "load") \/ At(t, "reload") => th[t].op \in {"lock", "unlock", "readLocks", "merge", "readStatic"}
    /\ At(t, "walk") => th[t].op = "readStatic"
    /\ At(t, "assign") => th[t].op = "merge"
    /\ At(t, "write") \/ At(t, "cache") => th[t].op \in {"lock", "unlock", "merge", "import", "readStatic"}
    /\ At(t, "backfill") => th[t].op = "readHalls"
    /\ At(t, "variants") \/ At(t, "rmw") => th[t].op = "refresh"
    /\ At(t, "rmwWrite") => th[t].op \in {"refresh", "upload"}
    /\ At(t, "snap") => th[t].op \in {"refresh", "scan", "check"}
    /\ ~At(t, "idle") /\ th[t].op = "merge" => th[t].arg \in Features

(* The per-file lock is the thread's between its read and its write, and   *)
(* what it has read is what the file holds.                                *)
RmwInv ==
    /\ \A f \in Locked, t \in Threads :
           flock[f] = t <=> At(t, "rmwWrite") /\ LockedFile(t) = f
    /\ \A f \in Locked : flock[f] \in Threads \cup {None}
    /\ \A t \in Threads : At(t, "rmwWrite") => th[t].copy.base = Base(LockedFile(t), th[t].copy.readable)

Unlocked == Plain \cup Cached

(* Two requests that write a file at once disturb it.                      *)
Alone == \A f \in Files \ disturbed : \A t, u \in InFlight(f) : t = u

(* An undisturbed file is what it should be, at every step.                *)
Agree == \A f \in Unlocked \ disturbed : file[f] = wanted[f]

(* A copy is the file's unless the file is disturbed.  What is read again  *)
(* under the guard is the file's, or somebody has written since and waits  *)
(* for the guard.                                                          *)
CopyOk(t) ==
    LET c == th[t].copy  f == FileOf(th[t].op)
    IN /\ At(t, "save") /\ "servers" \notin disturbed => c = file.servers
       /\ At(t, "saveSettings") /\ "settings" \notin disturbed => c = file.settings
       /\ At(t, "backfill") /\ "halls" \notin disturbed => c = file.halls
       /\ At(t, "reload") =>
            /\ guard[f] = t
            /\ f = "static" => c.data \in SUBSET Features
            /\ f \notin disturbed =>
                 c.data = file[f] \/ \E u \in Threads : At(u, "cache") /\ FileOf(th[u].op) = f

(* The same of the copies on their way to rawdata_locks.json and of the    *)
(* objects on their way to machines_static.json.                           *)
WriteOk(t) ==
    LET c == th[t].copy  a == th[t].arg  op == th[t].op
    IN /\ At(t, "write") /\ op = "lock" /\ "locks" \notin disturbed => c = file.locks \cup {a}
       /\ At(t, "write") /\ op = "unlock" /\ "locks" \notin disturbed => c = file.locks \ {a}
       /\ At(t, "cache") /\ FileOf(op) = "locks" /\ "locks" \notin disturbed => c = file.locks
       /\ At(t, "assign") => c.obj \in 1 .. Len(heap) /\ c.features \in SUBSET Features
       /\ At(t, "assign") /\ "static" \notin disturbed => c.features = file.static \cup {a}
       /\ At(t, "walk") => c \in 1 .. Len(heap)
       /\ At(t, "write") /\ FileOf(op) = "static" => c \in 1 .. Len(heap)
       /\ At(t, "write") /\ op = "merge" /\ "static" \notin disturbed => heap[c] = file.static \cup {a}
       /\ (At(t, "walk") \/ (At(t, "write") /\ op = "readStatic")) /\ "static" \notin disturbed =>
            file.static = {}
       /\ At(t, "cache") /\ FileOf(op) = "static" =>
            /\ c \in 1 .. Len(heap)
            /\ "static" \notin disturbed => heap[c] = file.static

(* Between its write and its second half a save's cache is behind the      *)
(* file; between a merge's assignment and its write it is ahead.           *)
Storing(t, f) == FileOf(th[t].op) = f /\ (At(t, "cache") \/ (At(t, "write") /\ th[t].op = "merge"))
Settled(f) == \A t \in Threads : ~Storing(t, f)

(* Otherwise it is right, whatever time it is stored under.                *)
Content(f) == IF f = "static" THEN heap[cache.static.data] ELSE cache.locks.data
CacheOk ==
    /\ cache.static.data # None => cache.static.data \in 1 .. Len(heap)
    /\ \A f \in Cached \ disturbed : Settled(f) /\ cache[f].data # None => Content(f) = file[f]

EditInv ==
    /\ Alone /\ Agree /\ CacheOk
    /\ \A t \in Threads : CopyOk(t) /\ WriteOk(t)

IInv ==
    /\ Shape /\ \A t \in Threads : PlaceOk(t)
    /\ RmwInv /\ RmwLosesNothing
    /\ EditInv
-----------------------------------------------------------------------------
(* How a thread moves.                                                     *)
Went(t) ==
    /\ DOMAIN th' = Threads /\ DOMAIN th'[t] = Fields
    /\ \A u \in Threads \ {t} : th'[u] = th[u]
    /\ th'[t] = Idle \/ (th'[t].op = th[t].op /\ th'[t].arg = th[t].arg)

(* Step changes the place and the copy of one thread.                      *)
LEMMA Moved ==
    ASSUME Shape, NEW t \in Threads, NEW at, NEW copy, Step(t, at, copy)
    PROVE  /\ Went(t) /\ th'[t].op = th[t].op /\ th'[t].arg = th[t].arg
           /\ th'[t].at = at /\ th'[t].copy = copy
BY DEF Shape, Step, Went, Fields

(* End clears it.                                                          *)
LEMMA Ended ==
    ASSUME Shape, NEW t \in Threads, End(t)
    PROVE  Went(t) /\ th'[t] = Idle /\ th'[t].at = "idle"
BY DEF Shape, End, Went, Idle, Fields

(* What GoOn makes of the answer of a cached read.                         *)
LEMMA WentOn ==
    ASSUME Shape, NEW t \in Threads, NEW data, NEW objects, GoOn(t, data, objects)
    PROVE  /\ Went(t)
           /\ \/ th'[t] = Idle /\ th'[t].at = "idle" /\ disturbed' = disturbed
              \/ /\ th'[t].op = th[t].op /\ th'[t].arg = th[t].arg
                 /\ \/ /\ th[t].op = "lock" /\ th'[t].at = "write" /\ disturbed' = disturbed
                       /\ th'[t].copy = data \cup {th[t].arg}
                    \/ /\ th[t].op = "unlock" /\ th'[t].at = "write" /\ disturbed' = disturbed
                       /\ th'[t].copy = data \ {th[t].arg}
                    \/ /\ th[t].op = "merge" /\ th'[t].at = "assign" /\ disturbed' = disturbed
                       /\ th'[t].copy = [obj |-> data, features |-> objects[data] \cup {th[t].arg}]
                    \/ /\ th[t].op = "readStatic" /\ objects[data] = {} /\ Meet({"static"})
                       /\ th'[t].at = "walk" /\ th'[t].copy = data
<1> DEFINE op == th[t].op  a == th[t].arg  empty == op = "readStatic" /\ objects[data] = {}
<1>1. CASE op = "lock" /\ a \notin data
  <2>1. Step(t, "write", data \cup {a}) /\ disturbed' = disturbed
    BY <1>1 DEF GoOn
  <2>. QED  BY <1>1, <2>1, Moved
<1>2. CASE op = "unlock" /\ a \in data
  <2>1. Step(t, "write", data \ {a}) /\ disturbed' = disturbed
    BY <1>2 DEF GoOn
  <2>. QED  BY <1>2, <2>1, Moved
<1>3. CASE op = "merge"
  <2>1. Step(t, "assign", [obj |-> data, features |-> objects[data] \cup {a}]) /\ disturbed' = disturbed
    BY <1>3 DEF GoOn
  <2>. QED  BY <1>3, <2>1, Moved
<1>4. CASE empty
  <2>1. Step(t, "walk", data) /\ Meet({"static"})
    BY <1>4 DEF GoOn
  <2>. QED  BY <1>4, <2>1, Moved
<1>5. CASE ~(op = "lock" /\ a \notin data) /\ ~(op = "unlock" /\ a \in data) /\ op # "merge" /\ ~empty
  <2>1. End(t) /\ disturbed' = disturbed
    BY <1>5 DEF GoOn
  <2>. QED  BY <2>1, Ended
<1>. QED  BY <1>1, <1>2, <1>3, <1>4, <1>5

-----------------------------------------------------------------------------
(* A step of a thread outside the locked sections: what it may change of   *)
(* the files, the guards and the dicts, and what it must leave alone.      *)
OutsideRmw(t) ==
    /\ \A f \in Locked : flock'[f] = flock[f]
    /\ \A f \in Locked : file'[f] = file[f] /\ wanted'[f] = wanted[f]
    /\ ~At(t, "rmwWrite") /\ ~At(t, "rmwWrite")'

(* The guards of others stay.                                              *)
GuardStep(t) ==
    /\ DOMAIN guard' = Cached
    /\ \A f \in Cached : guard[f] \notin {t, None} => guard'[f] = guard[f]

DataStep(t) ==
    /\ Len(heap) <= Len(heap')
    /\ \A i \in 1 .. Len(heap) : heap'[i] = heap[i] \/ t \in InFlight("static")
    /\ \A f \in Unlocked : file'[f] = file[f] \/ t \in InFlight(f)
    /\ \A f \in Cached : file'[f] = file[f] \/ (At(t, "cache")' /\ FileOf(th'[t].op) = f)
    /\ At(t, "cache") => guard[FileOf(th[t].op)] = None
    /\ GuardStep(t)

(* A thread comes to a file only if nobody works on it, or disturbs it.    *)
Joins(t) ==
    /\ disturbed \subseteq disturbed'
    /\ \A f \in Files \ disturbed' : t \in InFlight(f)' => t \in InFlight(f) \/ InFlight(f) = {}

(* A GET before it has found that it has to write.                         *)
Looks(t) == th[t].op \in {"readStatic", "readHalls"} /\ th[t].at \in {"start", "load", "reload"}

LEMMA Stays ==
    ASSUME NEW t \in Threads, ~At(t, "idle"), Went(t), disturbed \subseteq disturbed',
           Looks(t) => th'[t] = Idle \/ Looks(t)'
    PROVE  Joins(t)
<1>1. ASSUME NEW f, t \in InFlight(f)'
      PROVE  t \in InFlight(f)
  <2>1. th'[t] # Idle /\ ~Looks(t)' /\ th'[t].op = th[t].op
    BY <1>1 DEF Went, InFlight, Edits, Idle, Looks
  <2>2. ~Looks(t) /\ f \in Writes(th[t].op)
    BY <1>1, <2>1 DEF InFlight, Edits
  <2>. QED  BY <2>2 DEF InFlight, Edits, Looks, At
<1>. QED  BY <1>1 DEF Joins

LEMMA ComesTo ==
    ASSUME NEW t \in Threads, NEW f, Meet({f}), \A g : t \in InFlight(g)' => g = f
    PROVE  Joins(t)
BY DEF Joins, Meet

(* Which files the requests at these steps write.                          *)
LEMMA WritersInFlight ==
    ASSUME NEW t \in Threads, PlaceOk(t)
    PROVE  /\ At(t, "save") => t \in InFlight("servers")
           /\ At(t, "saveSettings") => t \in InFlight("settings")
           /\ ~At(t, "idle") /\ th[t].op \in {"lock", "unlock"} =>
                t \in InFlight("locks") /\ FileOf(th[t].op) = "locks"
           /\ ~At(t, "idle") /\ th[t].op \in {"merge", "import"} =>
                t \in InFlight("static") /\ FileOf(th[t].op) = "static"
           /\ At(t, "walk") => t \in InFlight("static")
           /\ At(t, "write") \/ At(t, "cache") => t \in InFlight(FileOf(th[t].op))
           /\ At(t, "backfill") => t \in InFlight("halls")
           /\ At(t, "snap") => t \in InFlight("snap")
           /\ ~At(t, "idle") /\ th[t].op = "halls" => t \in InFlight("halls")
           /\ FileOf(th[t].op) \in Cached
<1>1. FileOf(th[t].op) \in Cached
  BY DEF FileOf, Cached
<1>2. /\ At(t, "save") => t \in InFlight("servers")
      /\ At(t, "saveSettings") => t \in InFlight("settings")
      /\ At(t, "backfill") => t \in InFlight("halls")
      /\ At(t, "snap") => t \in InFlight("snap")
      /\ ~At(t, "idle") /\ th[t].op = "halls" => t \in InFlight("halls")
  BY DEF PlaceOk, InFlight, Edits, Writes, At
<1>3. /\ ~At(t, "idle") /\ th[t].op \in {"lock", "unlock"} =>
           t \in InFlight("locks") /\ FileOf(th[t].op) = "locks"
      /\ ~At(t, "idle") /\ th[t].op \in {"merge", "import"} =>
           t \in InFlight("static") /\ FileOf(th[t].op) = "static"
      /\ At(t, "walk") => t \in InFlight("static")
  BY DEF PlaceOk, InFlight, Edits, Writes, At, FileOf
<1>4. At(t, "write") \/ At(t, "cache") => t \in InFlight(FileOf(th[t].op))
  BY DEF PlaceOk, InFlight, Edits, Writes, At, FileOf
<1>. QED  BY <1>1, <1>2, <1>3, <1>4

LEMMA StoringInFlight ==
    ASSUME NEW t \in Threads, NEW f, PlaceOk(t), Storing(t, f)
    PROVE  t \in InFlight(f)
BY WritersInFlight DEF Storing

(* What a thread that does not move relies on stays true: another request  *)
(* that changed its file would disturb it, and one that writes a file      *)
(* while a reader has its guard waits for the guard.                       *)
LEMMA OthersKeep ==
    ASSUME ConfigAssumption, IInv, Shape', NEW t \in Threads, Went(t), NEW u \in Threads, u # t,
           DataStep(t), disturbed \subseteq disturbed'
    PROVE  CopyOk(u)' /\ WriteOk(u)'
<1>1. PlaceOk(u) /\ CopyOk(u) /\ WriteOk(u) /\ Alone /\ Shape /\ th'[u] = th[u]
  BY DEF IInv, EditInv, Went
<1>2. ASSUME NEW f \in Unlocked, f \notin disturbed, u \in InFlight(f)
      PROVE  file'[f] = file[f] /\ t \notin InFlight(f)
  BY <1>1, <1>2 DEF DataStep, Alone, Unlocked, Files
<1>5. CopyOk(u)'
  <2>1. (At(u, "save") /\ "servers" \notin disturbed => th[u].copy = file.servers)'
    BY <1>1, <1>2, WritersInFlight DEF CopyOk, At, Unlocked, Plain
  <2>2. (At(u, "saveSettings") /\ "settings" \notin disturbed => th[u].copy = file.settings)'
    BY <1>1, <1>2, WritersInFlight DEF CopyOk, At, Unlocked, Plain
  <2>3. (At(u, "backfill") /\ "halls" \notin disturbed => th[u].copy = file.halls)'
    BY <1>1, <1>2, WritersInFlight DEF CopyOk, At, Unlocked, Plain
  <2>4. ASSUME At(u, "reload")
        PROVE  /\ guard'[FileOf(th[u].op)] = u
               /\ FileOf(th[u].op) = "static" => th[u].copy.data \in SUBSET Features
               /\ FileOf(th[u].op) \notin disturbed' =>
                    \/ th[u].copy.data = file'[FileOf(th[u].op)]
                    \/ \E v \in Threads : At(v, "cache")' /\ FileOf(th'[v].op) = FileOf(th[u].op)
    <3>1. PICK f \in Cached : f = FileOf(th[u].op)
      BY <1>1, WritersInFlight
    <3>2. /\ guard[f] = u /\ (f = "static" => th[u].copy.data \in SUBSET Features)
          /\ f \notin disturbed =>
               th[u].copy.data = file[f] \/ \E v \in Threads : At(v, "cache") /\ FileOf(th[v].op) = f
      BY <1>1, <2>4, <3>1 DEF CopyOk
    <3>3. u # None
      BY DEF ConfigAssumption
    <3>4. guard'[f] = u
      BY <3>2, <3>3 DEF DataStep, GuardStep
    <3>5. ASSUME NEW v \in Threads, At(v, "cache"), FileOf(th[v].op) = f
          PROVE  At(v, "cache")' /\ FileOf(th'[v].op) = f
      <4>1. v # t
        BY <3>2, <3>3, <3>5 DEF DataStep
      <4>. QED  BY <3>5, <4>1 DEF Went, At
    <3>. QED  BY <3>1, <3>2, <3>4, <3>5 DEF DataStep
  <2>. QED  BY <1>1, <2>1, <2>2, <2>3, <2>4 DEF CopyOk, At
<1>6. WriteOk(u)'
  <2>1. ASSUME "locks" \notin disturbed, u \in InFlight("locks")
        PROVE  file'.locks = file.locks
    BY <1>2, <2>1 DEF Unlocked, Cached
  <2>2. ASSUME "static" \notin disturbed, u \in InFlight("static")
        PROVE  file'.static = file.static /\ \A i \in 1 .. Len(heap) : heap'[i] = heap[i]
    BY <1>2, <2>2 DEF Unlocked, Cached, DataStep
  <2>3. Len(heap) \in Nat /\ Len(heap') \in Nat /\ Len(heap) <= Len(heap')
    BY <1>1 DEF DataStep, Shape
  <2> DEFINE c == th[u].copy  a == th[u].arg  op == th[u].op
  <2>5. /\ At(u, "write") /\ op \in {"lock", "unlock"} => u \in InFlight("locks")
        /\ At(u, "cache") /\ FileOf(op) = "locks" => u \in InFlight("locks")
        /\ At(u, "walk") \/ At(u, "assign") => u \in InFlight("static")
        /\ At(u, "write") \/ At(u, "cache") => (FileOf(op) = "static" => u \in InFlight("static"))
        /\ op \in {"merge", "readStatic"} => FileOf(op) = "static"
    BY <1>1, WritersInFlight DEF PlaceOk, At, FileOf
  <2>6. /\ At(u, "write") /\ op = "lock" /\ "locks" \notin disturbed => c = file'.locks \cup {a}
        /\ At(u, "write") /\ op = "unlock" /\ "locks" \notin disturbed => c = file'.locks \ {a}
        /\ At(u, "cache") /\ FileOf(op) = "locks" /\ "locks" \notin disturbed => c = file'.locks
    BY <1>1, <2>1, <2>5 DEF WriteOk
  <2>7. /\ At(u, "assign") => c.obj \in 1 .. Len(heap') /\ c.features \in SUBSET Features
        /\ At(u, "assign") /\ "static" \notin disturbed => c.features = file'.static \cup {a}
        /\ At(u, "walk") => c \in 1 .. Len(heap')
        /\ At(u, "write") /\ FileOf(op) = "static" => c \in 1 .. Len(heap')
    BY <1>1, <2>2, <2>3, <2>5 DEF WriteOk
  <2>8. At(u, "write") /\ op = "merge" /\ "static" \notin disturbed => heap'[c] = file'.static \cup {a}
    BY <1>1, <2>2, <2>3, <2>5 DEF WriteOk
  <2>9. (At(u, "walk") \/ (At(u, "write") /\ op = "readStatic")) /\ "static" \notin disturbed => file'.static = {}
    BY <1>1, <2>2, <2>5 DEF WriteOk
  <2>10. At(u, "cache") /\ FileOf(op) = "static" =>
          /\ c \in 1 .. Len(heap')
          /\ "static" \notin disturbed => heap'[c] = file'.static
    BY <1>1, <2>2, <2>3, <2>5 DEF WriteOk
  <2>11. \A f : f \notin disturbed' => f \notin disturbed
    OBVIOUS
  <2>. QED  BY <1>1, <2>6, <2>7, <2>8, <2>9, <2>10, <2>11 DEF WriteOk, At
<1>. QED  BY <1>5, <1>6

(* Steps outside the locked sections keep the locked files.                *)
LEMMA RmwKept ==
    ASSUME IInv, NEW t \in Threads, Went(t), OutsideRmw(t)
    PROVE  RmwInv' /\ RmwLosesNothing'
<1>1. Shape /\ RmwInv /\ RmwLosesNothing
  BY DEF IInv
<1>2. RmwLosesNothing'
  BY <1>1 DEF OutsideRmw, RmwLosesNothing
<1>3. ASSUME NEW u \in Threads, NEW f \in Locked
      PROVE  (flock[f] = u <=> At(u, "rmwWrite") /\ LockedFile(u) = f)'
  <2>1. flock[f] = u <=> At(u, "rmwWrite") /\ LockedFile(u) = f
    BY <1>1, <1>3 DEF RmwInv
  <2>2. CASE u = t
    BY <2>1, <2>2 DEF OutsideRmw, At
  <2>3. CASE u # t
    BY <2>1, <2>3 DEF OutsideRmw, At, Went, LockedFile
  <2>. QED  BY <2>2, <2>3
<1>4. ASSUME NEW u \in Threads, At(u, "rmwWrite")'
      PROVE  (th[u].copy.base = Base(LockedFile(u), th[u].copy.readable))'
  <2>1. u # t /\ th'[u] = th[u]
    BY <1>4 DEF OutsideRmw, Went
  <2>2. /\ th[u].copy.base = Base(LockedFile(u), th[u].copy.readable)
        /\ LockedFile(u)' = LockedFile(u) /\ LockedFile(u) \in Locked
    BY <1>1, <1>4, <2>1 DEF RmwInv, At, LockedFile, Locked
  <2>. QED  BY <2>1, <2>2 DEF OutsideRmw, Base
<1>5. \A f \in Locked : flock'[f] \in Threads \cup {None}
  BY <1>1 DEF RmwInv, OutsideRmw
<1>. QED  BY <1>2, <1>3, <1>4, <1>5 DEF RmwInv

LEMMA AloneKept ==
    ASSUME IInv, NEW t \in Threads, \A u \in Threads \ {t} : th'[u] = th[u], Joins(t)
    PROVE  Alone'
<1>1. Alone /\ \A f : InFlight(f)' \subseteq Threads
  BY DEF IInv, EditInv, InFlight
<1>2. ASSUME NEW u \in Threads, u # t, NEW f, u \in InFlight(f)'
      PROVE  u \in InFlight(f)
  BY <1>2 DEF InFlight
<1>. QED  BY <1>1, <1>2 DEF Alone, Joins

(* The caches stay right if nobody touches them or what they show.         *)
LEMMA CacheKept ==
    ASSUME IInv, NEW t \in Threads, \A u \in Threads \ {t} : th'[u] = th[u], UNCHANGED cache,
           disturbed \subseteq disturbed',
           \A f \in Cached : file'[f] = file[f],
           Len(heap') \in Nat, Len(heap) <= Len(heap'),
           \A i \in 1 .. Len(heap) : heap'[i] = heap[i],
           \A f \in Cached \ disturbed' : Storing(t, f) => Storing(t, f)'
    PROVE  CacheOk'
<1>1. CacheOk /\ Len(heap) \in Nat
  BY DEF IInv, EditInv, Shape
<1>2. ASSUME NEW f \in Cached \ disturbed', Settled(f)'
      PROVE  Settled(f)
  <2>1. \A u \in Threads \ {t} : Storing(u, f) => Storing(u, f)'
    BY DEF Storing, At
  <2>. QED  BY <1>2, <2>1 DEF Settled
<1>3. ASSUME NEW f \in Cached \ disturbed', Settled(f)', cache[f].data # None
      PROVE  (Content(f) = file[f])'
  <2>1. Content(f) = file[f] /\ file'[f] = file[f]
    BY <1>1, <1>2, <1>3 DEF CacheOk
  <2>2. CASE f = "static"
    BY <1>1, <1>3, <2>1, <2>2 DEF Content, CacheOk
  <2>3. CASE f # "static"
    BY <2>1, <2>3 DEF Content
  <2>. QED  BY <2>2, <2>3
<1>4. cache'.static.data # None => cache'.static.data \in 1 .. Len(heap')
  BY <1>1 DEF CacheOk
<1>. QED  BY <1>3, <1>4 DEF CacheOk

(* What is left to show of a step of a request about the edits,            *)
LEMMA EditsKept ==
    ASSUME ConfigAssumption, IInv, NEW t \in Threads, Went(t), Joins(t), DataStep(t),
           Shape', PlaceOk(t)', Agree', CacheOk', CopyOk(t)', WriteOk(t)'
    PROVE  (\A u \in Threads : PlaceOk(u)') /\ EditInv'
<1>1. ASSUME NEW u \in Threads, u # t
      PROVE  PlaceOk(u)' /\ CopyOk(u)' /\ WriteOk(u)'
  <2>1. PlaceOk(u) /\ th'[u] = th[u]
    BY <1>1 DEF IInv, Went
  <2>2. PlaceOk(u)'
    BY <2>1 DEF PlaceOk, At
  <2>. QED  BY <1>1, <2>2, OthersKeep DEF Joins
<1>2. Alone'
  BY AloneKept DEF Went
<1>. QED  BY <1>1, <1>2 DEF EditInv

(* and of one outside the locked sections.                                 *)
LEMMA StepKeeps ==
    ASSUME ConfigAssumption, IInv, NEW t \in Threads, Went(t), Joins(t), OutsideRmw(t), DataStep(t),
           Shape', PlaceOk(t)', Agree', CacheOk', CopyOk(t)', WriteOk(t)'
    PROVE  IInv'
BY EditsKept, RmwKept DEF IInv

(* And of one that only reads.                                             *)
Reads == UNCHANGED <<file, mtime, cache, heap, flock, wanted>>

LEMMA ReadKeeps ==
    ASSUME ConfigAssumption, IInv, NEW t \in Threads, Went(t), Joins(t), Reads, GuardStep(t),
           ~At(t, "rmwWrite"), ~At(t, "rmwWrite")', ~At(t, "cache"),
           \A f \in Cached \ disturbed' : ~Storing(t, f),
           PlaceOk(t)', CopyOk(t)', WriteOk(t)'
    PROVE  IInv'
<1>1. UNCHANGED <<file, mtime, cache, heap, flock, wanted>> /\ Len(heap) \in Nat /\ Shape
  BY DEF Reads, IInv, Shape
<1>2. OutsideRmw(t) /\ DataStep(t)
  BY <1>1 DEF OutsideRmw, DataStep
<1>3. Shape'
  <2>1. \A u \in Threads : DOMAIN th'[u] = Fields
    BY <1>1 DEF Went, Shape
  <2>. QED  BY <1>1, <2>1 DEF Shape, Went, GuardStep
<1>4. Agree'
  BY <1>1 DEF Agree, IInv, EditInv, Joins
<1>5. CacheOk'
  BY <1>1, CacheKept DEF Went, Joins
<1>. QED  BY <1>2, <1>3, <1>4, <1>5, StepKeeps

(* A thread that leaves and changes nothing.                               *)
LEMMA Gone ==
    ASSUME Shape, NEW t \in Threads, End(t), disturbed \subseteq disturbed'
    PROVE  /\ Went(t) /\ Joins(t) /\ ~At(t, "rmwWrite")' /\ ~At(t, "cache")'
           /\ PlaceOk(t)' /\ CopyOk(t)' /\ WriteOk(t)'
<1>1. Went(t) /\ th'[t] = Idle
  BY Ended
<1>2. PlaceOk(t)' /\ CopyOk(t)' /\ WriteOk(t)' /\ ~At(t, "rmwWrite")' /\ ~At(t, "cache")'
  BY <1>1 DEF At, Idle, PlaceOk, CopyOk, WriteOk
<1>3. Joins(t)
  BY <1>1 DEF Joins, InFlight, Edits, Idle
<1>. QED  BY <1>1, <1>2, <1>3

LEMMA EndKeeps ==
    ASSUME ConfigAssumption, IInv, NEW t \in Threads, End(t), Reads, UNCHANGED <<guard, disturbed>>,
           ~At(t, "rmwWrite"), ~At(t, "write"), ~At(t, "cache")
    PROVE  IInv'
<1>1. Shape
  BY DEF IInv
<1>2. GuardStep(t) /\ \A f : ~Storing(t, f)
  BY <1>1 DEF GuardStep, Shape, Storing
<1>. QED  BY <1>1, <1>2, Gone, ReadKeeps

-----------------------------------------------------------------------------
(* The steps that read the plain files.                                    *)
LEMMA LoadServersKeeps ==
    ASSUME ConfigAssumption, IInv, NEW t \in Threads, LoadServers(t)
    PROVE  IInv'
<1> DEFINE op == th[t].op  s == file.servers[th[t].arg]
<1>1. /\ Shape /\ PlaceOk(t) /\ Reads /\ At(t, "start") /\ op \in {"add", "update", "delete", "default"}
      /\ UNCHANGED <<guard, disturbed>>
  BY DEF IInv, LoadServers, Reads, env
<1>2. \/ End(t)
      \/ op \in {"delete", "default"} /\ Step(t, "settings", None)
      \/ op \in {"add", "update", "delete"} /\ Step(t, "save", file.servers)
  BY <1>1 DEF LoadServers
<1>3. /\ ~At(t, "rmwWrite") /\ ~At(t, "write") /\ ~At(t, "cache") /\ ~At(t, "idle") /\ GuardStep(t) /\ ~Looks(t)
      /\ \A f : ~Storing(t, f)
  BY <1>1 DEF At, GuardStep, Shape, Looks, Storing
<1>4. CASE End(t)
  BY <1>1, <1>3, <1>4, EndKeeps
<1>5. CASE op \in {"delete", "default"} /\ Step(t, "settings", None)
  <2>1. Went(t) /\ ~At(t, "rmwWrite")' /\ PlaceOk(t)' /\ CopyOk(t)' /\ WriteOk(t)'
    BY <1>1, <1>5, Moved DEF At, PlaceOk, CopyOk, WriteOk
  <2>. QED  BY <1>1, <1>3, <2>1, Stays, ReadKeeps
<1>6. CASE op \in {"add", "update", "delete"} /\ Step(t, "save", file.servers)
  <2>1. Went(t) /\ ~At(t, "rmwWrite")' /\ PlaceOk(t)' /\ CopyOk(t)' /\ WriteOk(t)'
    BY <1>1, <1>6, Moved DEF At, PlaceOk, CopyOk, WriteOk, Reads
  <2>. QED  BY <1>1, <1>3, <2>1, Stays, ReadKeeps
<1>. QED  BY <1>2, <1>4, <1>5, <1>6

LEMMA LoadSettingsKeeps ==
    ASSUME ConfigAssumption, IInv, NEW t \in Threads, LoadSettings(t)
    PROVE  IInv'
<1>1. /\ Shape /\ PlaceOk(t) /\ Reads /\ UNCHANGED guard
      /\ At(t, "settings") \/ (At(t, "start") /\ th[t].op \in {"retention", "tuning"})
  BY DEF IInv, LoadSettings, Reads
<1>2. /\ ~At(t, "idle") /\ ~At(t, "rmwWrite") /\ ~At(t, "write") /\ ~At(t, "cache") /\ GuardStep(t) /\ ~Looks(t)
      /\ \A f : ~Storing(t, f)
  BY <1>1 DEF At, GuardStep, Shape, Looks, Storing, PlaceOk
<1>3. PICK readable \in BOOLEAN :
        LET settings == IF readable THEN file.settings ELSE DefaultSettings
        IN  IF th[t].op = "delete" /\ settings.default # th[t].arg
            THEN End(t) /\ UNCHANGED disturbed
            ELSE /\ Step(t, "saveSettings", settings)
                 /\ disturbed' = IF readable THEN disturbed ELSE disturbed \cup {"settings"}
  BY DEF LoadSettings
<1>4. CASE End(t) /\ UNCHANGED disturbed
  BY <1>1, <1>2, <1>4, EndKeeps
<1>5. ASSUME NEW settings, Step(t, "saveSettings", settings), disturbed \subseteq disturbed',
             "settings" \in disturbed' \/ settings = file.settings
      PROVE  IInv'
  <2>1. Went(t) /\ ~At(t, "rmwWrite")' /\ PlaceOk(t)' /\ CopyOk(t)' /\ WriteOk(t)'
    BY <1>1, <1>5, Moved DEF At, PlaceOk, CopyOk, WriteOk, Reads
  <2>. QED  BY <1>1, <1>2, <1>5, <2>1, Stays, ReadKeeps
<1>. QED  BY <1>3, <1>4, <1>5

(* The stat of a cached file.                                              *)
LEMMA StatFileKeeps ==
    ASSUME ConfigAssumption, IInv, NEW t \in Threads, StatFile(t)
    PROVE  IInv'
<1>1. /\ Shape /\ PlaceOk(t) /\ Reads /\ UNCHANGED <<guard, disturbed>> /\ At(t, "start")
      /\ th[t].op \in {"lock", "unlock", "readLocks", "merge", "readStatic"}
      /\ Step(t, "load", mtime[FileOf(th[t].op)])
  BY DEF IInv, StatFile, Reads, env
<1>2. /\ ~At(t, "idle") /\ ~At(t, "rmwWrite") /\ ~At(t, "write") /\ ~At(t, "cache") /\ GuardStep(t)
      /\ \A f : ~Storing(t, f)
  BY <1>1 DEF At, GuardStep, Shape, Storing
<1>3. Went(t) /\ th'[t].op = th[t].op /\ th'[t].arg = th[t].arg /\ th'[t].at = "load"
  BY <1>1, Moved
<1>4. ~At(t, "rmwWrite")' /\ PlaceOk(t)' /\ CopyOk(t)' /\ WriteOk(t)' /\ (Looks(t) => Looks(t)')
  BY <1>1, <1>3 DEF At, PlaceOk, CopyOk, WriteOk, Looks
<1>. QED  BY <1>1, <1>2, <1>3, <1>4, Stays, ReadKeeps

(* The remote reads: a fetch, the variants map.                            *)
LEMMA FetchKeeps ==
    ASSUME ConfigAssumption, IInv, NEW t \in Threads,
           FetchForRefresh(t) \/ FetchForSnapshot(t) \/ LoadVariants(t)
    PROVE  IInv'
<1>1. /\ Shape /\ PlaceOk(t) /\ Reads /\ UNCHANGED <<guard, disturbed>>
      /\ At(t, "start") \/ At(t, "variants")
      /\ th[t].op \in {"refresh", "scan", "check"}
      /\ \/ End(t)
         \/ \E copy : th[t].op = "refresh" /\ Step(t, "variants", copy)
         \/ \E copy : th[t].op \in {"scan", "check"} /\ Step(t, "snap", copy)
         \/ \E copy : At(t, "variants") /\ Step(t, "rmw", copy)
  BY DEF IInv, FetchForRefresh, FetchForSnapshot, LoadVariants, Answer, Reads, env, PlaceOk
<1>2. /\ ~At(t, "idle") /\ ~At(t, "rmwWrite") /\ ~At(t, "write") /\ ~At(t, "cache") /\ GuardStep(t) /\ ~Looks(t)
      /\ \A f : ~Storing(t, f)
  BY <1>1 DEF At, GuardStep, Shape, Looks, Storing
<1>3. ASSUME NEW copy, NEW at \in {"variants", "snap", "rmw"}, Step(t, at, copy),
             at = "variants" => th[t].op = "refresh",
             at = "snap" => th[t].op \in {"scan", "check"},
             at = "rmw" => At(t, "variants")
      PROVE  IInv'
  <2>1. Went(t) /\ ~At(t, "rmwWrite")' /\ PlaceOk(t)' /\ CopyOk(t)' /\ WriteOk(t)'
    BY <1>1, <1>3, Moved DEF At, PlaceOk, CopyOk, WriteOk
  <2>. QED  BY <1>1, <1>2, <2>1, Stays, ReadKeeps
<1>. QED  BY <1>1, <1>2, <1>3, EndKeeps

(* The GET of the halls: if it has to write, it comes to the file.         *)
LEMMA ReadHallsKeeps ==
    ASSUME ConfigAssumption, IInv, NEW t \in Threads, ReadHalls(t)
    PROVE  IInv'
<1>1. /\ Shape /\ PlaceOk(t) /\ Reads /\ UNCHANGED guard /\ At(t, "start") /\ th[t].op = "readHalls"
      /\ \/ End(t) /\ UNCHANGED disturbed
         \/ Step(t, "backfill", file.halls) /\ Meet({"halls"})
  BY DEF IInv, ReadHalls, Reads
<1>2. /\ ~At(t, "idle") /\ ~At(t, "rmwWrite") /\ ~At(t, "write") /\ ~At(t, "cache") /\ GuardStep(t)
      /\ \A f : ~Storing(t, f)
  BY <1>1 DEF At, GuardStep, Shape, Storing
<1>3. CASE Step(t, "backfill", file.halls) /\ Meet({"halls"})
  <2>1. /\ Went(t) /\ th'[t].op = "readHalls" /\ th'[t].at = "backfill"
        /\ th'[t].copy = file.halls
    BY <1>1, <1>3, Moved
  <2>2. ~At(t, "rmwWrite")' /\ PlaceOk(t)' /\ CopyOk(t)' /\ WriteOk(t)'
    BY <1>1, <2>1 DEF At, PlaceOk, CopyOk, WriteOk, Reads, Requests
  <2>3. \A g : t \in InFlight(g)' => g = "halls"
    BY <2>1 DEF InFlight, Edits, Writes
  <2>4. Joins(t)
    BY <1>3, <2>3, ComesTo
  <2>. QED  BY <1>1, <1>2, <2>1, <2>2, <2>4, ReadKeeps
<1>. QED  BY <1>1, <1>2, <1>3, EndKeeps

(* The plain writes.  What was read is still the file's, unless the file   *)
(* is disturbed.                                                           *)
LEMMA PlainWriteKeeps ==
    ASSUME ConfigAssumption, IInv, NEW t \in Threads, NEW f \in Plain, NEW new, NEW want,
           t \in InFlight(f), ~At(t, "rmwWrite"), ~At(t, "write"), ~At(t, "cache"),
           file' = [file EXCEPT ![f] = new], wanted' = [wanted EXCEPT ![f] = want],
           f \notin disturbed => new = want,
           UNCHANGED <<mtime, cache, guard, heap, flock, env>>,
           End(t) \/ (th[t].op = "delete" /\ Step(t, "settings", None))
    PROVE  IInv'
<1>1. Shape /\ PlaceOk(t) /\ Agree /\ disturbed' = disturbed
  BY DEF IInv, EditInv, env
<1>2. /\ Went(t) /\ Joins(t) /\ ~At(t, "rmwWrite")'
      /\ PlaceOk(t)' /\ CopyOk(t)' /\ WriteOk(t)'
  <2>1. CASE End(t)
    BY <1>1, <2>1, Gone
  <2>2. CASE th[t].op = "delete" /\ Step(t, "settings", None)
    <3>1. Went(t) /\ th'[t].op = "delete" /\ th'[t].at = "settings"
      BY <1>1, <2>2, Moved
    <3>2. ~Looks(t) /\ ~At(t, "idle")
      BY <2>2 DEF Looks, InFlight, Edits, At
    <3>. QED  BY <1>1, <3>1, <3>2, Stays DEF PlaceOk, CopyOk, WriteOk, At, Requests
  <2>. QED  BY <2>1, <2>2
<1>4. /\ DOMAIN file' = Files /\ DOMAIN wanted' = Files
      /\ \A g \in Files : g # f => file'[g] = file[g] /\ wanted'[g] = wanted[g]
      /\ file'[f] = new /\ wanted'[f] = want
  BY <1>1 DEF Shape, Files
<1>5. /\ f \notin Locked /\ f \notin Cached /\ Cached \subseteq Files /\ Locked \subseteq Files
      /\ Unlocked \subseteq Files
  BY DEF Plain, Locked, Cached, Files, Unlocked
<1>6. OutsideRmw(t)
  BY <1>2, <1>4, <1>5 DEF OutsideRmw
<1>7. Len(heap) \in Nat /\ \A g \in Cached : file'[g] = file[g]
  BY <1>1, <1>4, <1>5 DEF Shape
<1>8. DataStep(t)
  BY <1>1, <1>4, <1>5, <1>7 DEF DataStep, GuardStep, Shape
<1>9. Shape'
  <2>1. \A u \in Threads : DOMAIN th'[u] = Fields
    BY <1>1, <1>2 DEF Went, Shape
  <2>. QED  BY <1>1, <1>2, <1>4, <1>7, <2>1 DEF Shape, Went, Cached
<1>10. Agree'
  BY <1>1, <1>4, <1>5 DEF Agree
<1>11. CacheOk'
  <2>1. \A g : ~Storing(t, g)
    BY DEF Storing
  <2>. QED  BY <1>1, <1>2, <1>7, <2>1, CacheKept DEF Went
<1>. QED  BY <1>2, <1>6, <1>8, <1>9, <1>10, <1>11, StepKeeps

LEMMA SaveServersKeeps ==
    ASSUME ConfigAssumption, IInv, NEW t \in Threads, SaveServers(t)
    PROVE  IInv'
<1> DEFINE op == th[t].op  a == th[t].arg
<1>1. /\ Shape /\ PlaceOk(t) /\ Agree /\ CopyOk(t) /\ At(t, "save")
      /\ file' = [file EXCEPT !.servers = NewServers(op, a, th[t].copy)]
      /\ wanted' = [wanted EXCEPT !.servers = NewServers(op, a, wanted.servers)]
      /\ UNCHANGED <<mtime, cache, guard, heap, flock, env>>
      /\ End(t) \/ (op = "delete" /\ Step(t, "settings", None))
  BY DEF IInv, EditInv, SaveServers, Shape, Files, Plain
<1>2. "servers" \in Plain /\ t \in InFlight("servers")
  BY <1>1, WritersInFlight DEF Plain
<1>3. "servers" \notin disturbed => NewServers(op, a, th[t].copy) = NewServers(op, a, wanted.servers)
  BY <1>1, <1>2 DEF Agree, CopyOk, Unlocked
<1>4. ~At(t, "rmwWrite") /\ ~At(t, "write") /\ ~At(t, "cache")
  BY <1>1 DEF At
<1>. QED  BY <1>1, <1>2, <1>3, <1>4, PlainWriteKeeps

LEMMA SaveSettingsKeeps ==
    ASSUME ConfigAssumption, IInv, NEW t \in Threads, SaveSettings(t)
    PROVE  IInv'
<1> DEFINE op == th[t].op  a == th[t].arg
<1>1. /\ Shape /\ PlaceOk(t) /\ Agree /\ CopyOk(t) /\ At(t, "saveSettings")
      /\ file' = [file EXCEPT !.settings = NewSettings(op, a, th[t].copy)]
      /\ wanted' = [wanted EXCEPT !.settings = NewSettings(op, a, wanted.settings)]
      /\ UNCHANGED <<mtime, cache, guard, heap, flock, env>>
      /\ End(t)
  BY DEF IInv, EditInv, SaveSettings, Shape, Files, Plain
<1>2. "settings" \in Plain /\ t \in InFlight("settings")
  BY <1>1, WritersInFlight DEF Plain
<1>3. "settings" \notin disturbed => NewSettings(op, a, th[t].copy) = NewSettings(op, a, wanted.settings)
  BY <1>1, <1>2 DEF Agree, CopyOk, Unlocked
<1>4. ~At(t, "rmwWrite") /\ ~At(t, "write") /\ ~At(t, "cache")
  BY <1>1 DEF At
<1>. QED  BY <1>1, <1>2, <1>3, <1>4, PlainWriteKeeps

LEMMA RefreshHallsKeeps ==
    ASSUME ConfigAssumption, IInv, NEW t \in Threads, RefreshHalls(t)
    PROVE  IInv'
<1> DEFINE new == [map |-> DOMAIN Owner, old |-> FALSE]
<1>1. /\ Shape /\ PlaceOk(t) /\ At(t, "start") /\ th[t].op = "halls" /\ End(t)
      /\ UNCHANGED <<mtime, cache, guard, heap, flock, env>>
  BY DEF IInv, RefreshHalls
<1>2. ~At(t, "idle") /\ ~At(t, "rmwWrite") /\ ~At(t, "write") /\ ~At(t, "cache")
  BY <1>1 DEF At
<1>3. CASE UNCHANGED <<file, wanted>>
  BY <1>1, <1>2, <1>3, EndKeeps DEF Reads, env
<1>4. CASE file' = [file EXCEPT !.halls = new] /\ wanted' = [wanted EXCEPT !.halls = new]
  <2>1. "halls" \in Plain /\ t \in InFlight("halls")
    BY <1>1, <1>2, WritersInFlight DEF Plain
  <2>. QED  BY <1>1, <1>2, <1>4, <2>1, PlainWriteKeeps
<1>. QED  BY <1>3, <1>4 DEF RefreshHalls

LEMMA BackfillHallsKeeps ==
    ASSUME ConfigAssumption, IInv, NEW t \in Threads, BackfillHalls(t)
    PROVE  IInv'
<1> DEFINE new == [th[t].copy EXCEPT !.old = FALSE]  want == [wanted.halls EXCEPT !.old = FALSE]
<1>1. /\ Shape /\ PlaceOk(t) /\ Agree /\ CopyOk(t) /\ At(t, "backfill") /\ End(t)
      /\ UNCHANGED <<mtime, cache, guard, heap, flock, env>>
      /\ file' = [file EXCEPT !.halls = new]
  BY DEF IInv, EditInv, BackfillHalls
<1>2. wanted' = [wanted EXCEPT !.halls = want]
  BY DEF BackfillHalls
<1>3. ~At(t, "rmwWrite") /\ ~At(t, "write") /\ ~At(t, "cache")
  BY <1>1 DEF At
<1>4. "halls" \in Plain /\ t \in InFlight("halls")
  BY <1>1, WritersInFlight DEF Plain
<1>5. "halls" \notin disturbed => new = want
  BY <1>1, <1>4 DEF Agree, CopyOk, Unlocked
<1> HIDE DEF new, want
<1>. QED  BY <1>1, <1>2, <1>3, <1>4, <1>5, PlainWriteKeeps

LEMMA SaveSnapshotKeeps ==
    ASSUME ConfigAssumption, IInv, NEW t \in Threads, SaveSnapshot(t)
    PROVE  IInv'
<1>1. /\ Shape /\ PlaceOk(t) /\ At(t, "snap") /\ End(t)
      /\ UNCHANGED <<mtime, cache, guard, heap, flock, env>>
      /\ file' = [file EXCEPT !.snap = th[t].copy]
      /\ wanted' = [wanted EXCEPT !.snap = th[t].copy]
  BY DEF IInv, SaveSnapshot
<1>2. ~At(t, "rmwWrite") /\ ~At(t, "write") /\ ~At(t, "cache")
  BY <1>1 DEF At
<1>3. "snap" \in Plain /\ t \in InFlight("snap")
  BY <1>1, WritersInFlight DEF Plain
<1>. QED  BY <1>1, <1>2, <1>3, PlainWriteKeeps

-----------------------------------------------------------------------------
(* The cached files.  A request that is alone on a file it is about to     *)
(* answer from finds no save under way: the cache is right,                *)
LEMMA HitIsRight ==
    ASSUME IInv, NEW t \in Threads, NEW f \in Cached, At(t, "load"), f \notin disturbed,
           cache[f].data # None, InFlight(f) \subseteq {t}
    PROVE  Content(f) = file[f]
<1>1. CacheOk /\ \A u \in Threads : PlaceOk(u)
  BY DEF IInv, EditInv
<1>2. Settled(f)
  <2>1. ASSUME NEW u \in Threads, Storing(u, f)
        PROVE  FALSE
    <3>1. u = t
      BY <1>1, <2>1, StoringInFlight
    <3>. QED  BY <2>1, <3>1 DEF Storing, At
  <2>. QED  BY <2>1 DEF Settled
<1>. QED  BY <1>1, <1>2 DEF CacheOk

(* and so is what it has read again.                                       *)
LEMMA ReloadIsRight ==
    ASSUME IInv, NEW t \in Threads, NEW f \in Cached, At(t, "reload"), f = FileOf(th[t].op),
           f \notin disturbed, InFlight(f) \subseteq {t}
    PROVE  th[t].copy.data = file[f]
<1>1. CopyOk(t) /\ \A u \in Threads : PlaceOk(u)
  BY DEF IInv, EditInv
<1>2. ASSUME NEW u \in Threads, At(u, "cache"), FileOf(th[u].op) = f
      PROVE  FALSE
  <2>1. u = t
    BY <1>1, <1>2, StoringInFlight DEF Storing
  <2>. QED  BY <1>2, <2>1 DEF At
<1>. QED  BY <1>1, <1>2 DEF CopyOk

(* The next place of a request that got its answer.  The answer has to be  *)
(* right if the request is alone on the file.                              *)
LEMMA AnswerOk ==
    ASSUME IInv, NEW t \in Threads, NEW data, NEW objects, GoOn(t, data, objects),
           At(t, "load") \/ At(t, "reload"), file' = file,
           heap' = objects, objects \in Seq(SUBSET Features),
           FileOf(th[t].op) = "static" => data \in 1 .. Len(objects),
           FileOf(th[t].op) = "locks" /\ "locks" \notin disturbed /\ InFlight("locks") \subseteq {t} =>
               data = file.locks,
           FileOf(th[t].op) = "static" /\ "static" \notin disturbed /\ InFlight("static") \subseteq {t} =>
               objects[data] = file.static
    PROVE  /\ Went(t) /\ Joins(t) /\ ~At(t, "rmwWrite")' /\ ~At(t, "cache")'
           /\ th'[t].at # "write" \/ th'[t].op # "merge"
           /\ PlaceOk(t)' /\ CopyOk(t)' /\ WriteOk(t)'
<1>1. Shape /\ PlaceOk(t) /\ Alone /\ ~At(t, "idle")
  BY DEF IInv, EditInv, At
<1>2. /\ FileOf("lock") = "locks" /\ FileOf("unlock") = "locks"
      /\ FileOf("merge") = "static" /\ FileOf("readStatic") = "static"
      /\ "locks" \in Files /\ "static" \in Files
  BY DEF FileOf, Files, Cached
<1>3. CASE th'[t] = Idle /\ disturbed' = disturbed
  <2>1. Went(t)
    BY <1>1, WentOn
  <2>2. Joins(t)
    BY <1>1, <1>3, <2>1, Stays
  <2>3. th'[t].at = "idle"
    BY <1>3 DEF Idle
  <2>. QED  BY <2>1, <2>2, <2>3 DEF PlaceOk, CopyOk, WriteOk, At
<1>4. CASE th[t].op \in {"lock", "unlock"} /\ th'[t].at = "write"
  <2>1. /\ Went(t) /\ th'[t].op = th[t].op /\ th'[t].arg = th[t].arg
        /\ th[t].op = "lock" => th'[t].copy = data \cup {th[t].arg}
        /\ th[t].op = "unlock" => th'[t].copy = data \ {th[t].arg}
        /\ disturbed' = disturbed
    BY <1>1, <1>4, WentOn DEF Idle
  <2>2. ~At(t, "rmwWrite")' /\ CopyOk(t)' /\ PlaceOk(t)'
    BY <1>1, <1>4, <2>1 DEF CopyOk, PlaceOk, At
  <2>3. "locks" \notin disturbed => InFlight("locks") \subseteq {t}
    BY <1>1, <1>2, <1>4, WritersInFlight DEF Alone
  <2>4. WriteOk(t)'
    BY <1>2, <1>4, <2>1, <2>3 DEF WriteOk, At
  <2>5. Joins(t)
    BY <1>1, <1>4, <2>1, Stays DEF Looks
  <2>. QED  BY <1>4, <2>1, <2>2, <2>4, <2>5 DEF At
<1>5. CASE th[t].op = "merge" /\ th'[t].at = "assign"
  <2>1. /\ Went(t) /\ th'[t].op = th[t].op /\ th'[t].arg = th[t].arg
        /\ th'[t].copy = [obj |-> data, features |-> objects[data] \cup {th[t].arg}]
        /\ disturbed' = disturbed
    BY <1>1, <1>5, WentOn DEF Idle
  <2>2. ~At(t, "rmwWrite")' /\ CopyOk(t)' /\ PlaceOk(t)'
    BY <1>1, <1>5, <2>1 DEF CopyOk, PlaceOk, At
  <2>3. th[t].arg \in Features /\ data \in 1 .. Len(objects) /\ objects[data] \in SUBSET Features
    BY <1>1, <1>2, <1>5 DEF PlaceOk
  <2>4. "static" \notin disturbed => InFlight("static") \subseteq {t}
    BY <1>1, <1>2, <1>5, WritersInFlight DEF Alone
  <2>5. WriteOk(t)'
    BY <1>2, <1>5, <2>1, <2>3, <2>4 DEF WriteOk, At
  <2>6. Joins(t)
    BY <1>1, <1>5, <2>1, Stays DEF Looks
  <2>. QED  BY <1>5, <2>1, <2>2, <2>5, <2>6 DEF At
<1>6. CASE th[t].op = "readStatic" /\ th'[t].at = "walk"
  <2>1. /\ Went(t) /\ th'[t].op = "readStatic" /\ th'[t].arg = th[t].arg /\ th'[t].copy = data
        /\ objects[data] = {} /\ Meet({"static"})
    BY <1>1, <1>6, WentOn DEF Idle
  <2>2. ~At(t, "rmwWrite")' /\ CopyOk(t)' /\ PlaceOk(t)'
    BY <1>1, <1>6, <2>1 DEF CopyOk, PlaceOk, At
  <2>3. "static" \notin disturbed' => "static" \notin disturbed /\ InFlight("static") = {}
    BY <2>1 DEF Meet
  <2>4. WriteOk(t)'
    BY <1>2, <1>6, <2>1, <2>3 DEF WriteOk, At
  <2>5. \A g : t \in InFlight(g)' => g = "static"
    BY <1>6, <2>1 DEF InFlight, Edits, Writes
  <2>6. Joins(t)
    BY <2>1, <2>5, ComesTo
  <2>. QED  BY <1>6, <2>1, <2>2, <2>4, <2>6 DEF At
<1>. QED  BY <1>1, <1>3, <1>4, <1>5, <1>6, WentOn

LEMMA LookUpKeeps ==
    ASSUME ConfigAssumption, IInv, NEW t \in Threads, LookUp(t)
    PROVE  IInv'
<1> DEFINE f == FileOf(th[t].op)
<1>1. Shape /\ PlaceOk(t) /\ CopyOk(t) /\ CacheOk /\ Reads /\ At(t, "load") /\ guard[f] = None
  BY DEF IInv, EditInv, LookUp, Reads
<1>2. /\ ~At(t, "idle") /\ ~At(t, "rmwWrite") /\ ~At(t, "write") /\ ~At(t, "cache") /\ f \in Cached
      /\ \A g : ~Storing(t, g)
  BY <1>1, WritersInFlight DEF At, Storing
<1>3. CASE Hit(f, th[t].copy) /\ GoOn(t, cache[f].data, heap) /\ UNCHANGED guard
  <2>1. file' = file /\ heap' = heap /\ heap \in Seq(SUBSET Features)
    BY <1>1 DEF Reads, Shape
  <2>2. f = "static" => cache[f].data \in 1 .. Len(heap)
    BY <1>1, <1>3 DEF CacheOk, Hit
  <2>3. f \notin disturbed /\ InFlight(f) \subseteq {t} => Content(f) = file[f]
    BY <1>1, <1>2, <1>3, HitIsRight DEF Hit
  <2>4. /\ f = "locks" => Content(f) = cache[f].data
        /\ f = "static" => Content(f) = heap[cache[f].data]
    BY DEF Content
  <2>5. Went(t) /\ Joins(t) /\ ~At(t, "rmwWrite")' /\ PlaceOk(t)' /\ CopyOk(t)' /\ WriteOk(t)'
    BY <1>1, <1>3, <2>1, <2>2, <2>3, <2>4, AnswerOk
  <2>6. GuardStep(t)
    BY <1>1, <1>3 DEF GuardStep, Shape
  <2>. QED  BY <1>1, <1>2, <2>5, <2>6, ReadKeeps
<1>4. ASSUME NEW data, Step(t, "reload", [mtime |-> th[t].copy, data |-> data]),
             disturbed \subseteq disturbed', guard' = [guard EXCEPT ![f] = t],
             data = file[f] \/ (data = {} /\ f \in disturbed')
      PROVE  IInv'
  <2>1. /\ Went(t) /\ th'[t].op = th[t].op /\ th'[t].arg = th[t].arg
        /\ th'[t].at = "reload" /\ th'[t].copy = [mtime |-> th[t].copy, data |-> data]
    BY <1>1, <1>4, Moved
  <2>2. file' = file /\ file.static \in SUBSET Features
    BY <1>1 DEF Reads, Shape
  <2>3. /\ ~At(t, "rmwWrite")' /\ PlaceOk(t)' /\ WriteOk(t)' /\ (Looks(t) => Looks(t)')
    BY <1>1, <2>1 DEF At, PlaceOk, WriteOk, Looks
  <2>4. GuardStep(t) /\ guard'[f] = t
    BY <1>1, <1>2, <1>4 DEF GuardStep, Shape
  <2>5. CopyOk(t)'
    BY <1>4, <2>1, <2>2, <2>4 DEF At, CopyOk, FileOf
  <2>. QED  BY <1>1, <1>2, <1>4, <2>1, <2>3, <2>4, <2>5, Stays, ReadKeeps
<1>. QED  BY <1>3, <1>4 DEF LookUp

(* A step of a cached file's request that does not write the file.         *)
LEMMA CacheStepKeeps ==
    ASSUME ConfigAssumption, IInv, NEW t \in Threads, Went(t), Joins(t),
           ~At(t, "rmwWrite"), ~At(t, "rmwWrite")', UNCHANGED <<file, flock, wanted>>, GuardStep(t),
           At(t, "cache") => guard[FileOf(th[t].op)] = None,
           DOMAIN cache' = Cached,
           heap' \in Seq(SUBSET Features), Len(heap) <= Len(heap'),
           \A i \in 1 .. Len(heap) : heap'[i] = heap[i] \/ t \in InFlight("static"),
           CacheOk', PlaceOk(t)', CopyOk(t)', WriteOk(t)'
    PROVE  IInv'
<1>1. Shape'
  <2>1. \A u \in Threads : DOMAIN th'[u] = Fields
    BY DEF Went, IInv, Shape
  <2>. QED  BY <2>1 DEF IInv, Shape, Went, GuardStep
<1>2. OutsideRmw(t) /\ DataStep(t)
  BY DEF OutsideRmw, DataStep
<1>3. Agree'
  BY DEF Agree, IInv, EditInv, Joins
<1>. QED  BY <1>1, <1>2, <1>3, StepKeeps

(* A step that leaves the guards to others.                                *)
LEMMA Releases ==
    ASSUME Shape, NEW t \in Threads, NEW f \in Cached, guard[f] = t,
           guard' = [guard EXCEPT ![f] = None]
    PROVE  GuardStep(t)
BY DEF Shape, GuardStep

(* What is read again goes into the cache: if no save is under way then,   *)
(* it is the file's.                                                       *)
LEMMA StoredIsRight ==
    ASSUME IInv, NEW t \in Threads, Went(t), NEW f \in Cached, At(t, "reload"), f = FileOf(th[t].op),
           Settled(f)', f \notin disturbed
    PROVE  th[t].copy.data = file[f]
<1>1. CopyOk(t)
  BY DEF IInv, EditInv
<1>2. ASSUME NEW u \in Threads, At(u, "cache"), FileOf(th[u].op) = f
      PROVE  FALSE
  <2>1. u # t
    BY <1>2 DEF At
  <2>2. Storing(u, f)'
    BY <1>2, <2>1 DEF Went, Storing, At
  <2>. QED  BY <2>2 DEF Settled
<1>. QED  BY <1>1, <1>2 DEF CopyOk

LEMMA StoreLocksKeeps ==
    ASSUME ConfigAssumption, IInv, NEW t \in Threads, StoreLocks(t)
    PROVE  IInv'
<1> DEFINE c == th[t].copy
<1>1. /\ Shape /\ PlaceOk(t) /\ CopyOk(t) /\ CacheOk
      /\ At(t, "reload") /\ FileOf(th[t].op) = "locks" /\ "locks" \in Cached /\ guard.locks = t
      /\ cache' = [cache EXCEPT !.locks = c] /\ guard' = [guard EXCEPT !.locks = None]
      /\ GoOn(t, c.data, heap)
      /\ UNCHANGED <<file, heap, flock, wanted>>
  BY DEF IInv, EditInv, StoreLocks, CopyOk, Cached
<1>2. ~At(t, "rmwWrite") /\ ~At(t, "write") /\ ~At(t, "cache") /\ heap \in Seq(SUBSET Features)
  BY <1>1 DEF At, Shape
<1>3. "locks" \notin disturbed /\ InFlight("locks") \subseteq {t} => c.data = file.locks
  BY <1>1, ReloadIsRight
<1>4. /\ Went(t) /\ Joins(t) /\ ~At(t, "rmwWrite")' /\ ~At(t, "cache")'
      /\ PlaceOk(t)' /\ CopyOk(t)' /\ WriteOk(t)'
  BY <1>1, <1>2, <1>3, AnswerOk
<1>5. DOMAIN cache' = Cached /\ cache'["locks"] = c /\ cache'["static"] = cache["static"]
  BY <1>1 DEF Shape, Cached
<1>6. CacheOk'
  <2>1. ASSUME "locks" \notin disturbed', Settled("locks")'
        PROVE  (Content("locks") = file.locks)'
    BY <1>1, <1>4, <1>5, <2>1, StoredIsRight DEF Content, Joins
  <2>2. ASSUME "static" \notin disturbed', Settled("static")', cache'["static"].data # None
        PROVE  (Content("static") = file.static)'
    <3>1. ASSUME NEW u \in Threads, Storing(u, "static")
          PROVE  FALSE
      <4>1. u # t /\ th'[u] = th[u]
        BY <1>1, <1>4, <3>1 DEF Storing, Went
      <4>. QED  BY <2>2, <3>1, <4>1 DEF Settled, Storing, At
    <3>2. Settled("static") /\ "static" \notin disturbed
      BY <1>4, <2>2, <3>1 DEF Settled, Joins
    <3>. QED  BY <1>1, <1>5, <2>2, <3>2 DEF CacheOk, Content, Cached
  <2>3. cache'.static.data # None => cache'.static.data \in 1 .. Len(heap')
    BY <1>1, <1>5 DEF CacheOk
  <2>. QED  BY <2>1, <2>2, <2>3 DEF CacheOk, Cached
<1>7. Len(heap) <= Len(heap') /\ \A i \in 1 .. Len(heap) : heap'[i] = heap[i]
  BY <1>1, <1>2
<1>8. GuardStep(t)
  BY <1>1, Releases
<1>. QED  BY <1>1, <1>2, <1>4, <1>5, <1>6, <1>7, <1>8, CacheStepKeeps

LEMMA StoreStaticKeeps ==
    ASSUME ConfigAssumption, IInv, NEW t \in Threads, StoreStatic(t)
    PROVE  IInv'
<1> DEFINE c == th[t].copy  n == Len(heap) + 1
<1>1. /\ Shape /\ PlaceOk(t) /\ CopyOk(t) /\ CacheOk
      /\ At(t, "reload") /\ FileOf(th[t].op) = "static" /\ "static" \in Cached /\ guard.static = t
      /\ heap' = Append(heap, c.data)
      /\ cache' = [cache EXCEPT !.static = [mtime |-> c.mtime, data |-> Len(heap')]]
      /\ guard' = [guard EXCEPT !.static = None]
      /\ GoOn(t, Len(heap'), heap')
      /\ UNCHANGED <<file, flock, wanted>> /\ c.data \in SUBSET Features
  BY DEF IInv, EditInv, StoreStatic, CopyOk, Cached
<1>2. ~At(t, "rmwWrite") /\ ~At(t, "write") /\ ~At(t, "cache")
  BY <1>1 DEF At
<1>3. /\ heap' \in Seq(SUBSET Features) /\ Len(heap) \in Nat /\ Len(heap') = n /\ heap'[n] = c.data
      /\ \A i \in 1 .. Len(heap) : heap'[i] = heap[i]
  BY <1>1 DEF Shape
<1>4. /\ Went(t) /\ Joins(t) /\ ~At(t, "rmwWrite")' /\ ~At(t, "cache")'
      /\ PlaceOk(t)' /\ CopyOk(t)' /\ WriteOk(t)'
  <2>1. Len(heap') \in 1 .. Len(heap') /\ heap'[Len(heap')] = c.data
    BY <1>3
  <2>2. "static" \notin disturbed /\ InFlight("static") \subseteq {t} => heap'[Len(heap')] = file.static
    BY <1>1, <2>1, ReloadIsRight
  <2>. QED  BY <1>1, <1>3, <2>1, <2>2, AnswerOk
<1>5. /\ DOMAIN cache' = Cached
      /\ cache'["static"] = [mtime |-> c.mtime, data |-> n] /\ cache'["locks"] = cache["locks"]
  BY <1>1, <1>3 DEF Shape, Cached
<1>6. CacheOk'
  <2>1. ASSUME "static" \notin disturbed', Settled("static")'
        PROVE  (Content("static") = file.static)'
    <3>1. c.data = file.static
      BY <1>1, <1>4, <2>1, StoredIsRight DEF Joins
    <3>. QED  BY <1>1, <1>3, <1>5, <3>1 DEF Content
  <2>2. ASSUME "locks" \notin disturbed', Settled("locks")', cache'["locks"].data # None
        PROVE  (Content("locks") = file.locks)'
    <3>1. ASSUME NEW u \in Threads, Storing(u, "locks")
          PROVE  FALSE
      <4>1. u # t /\ th'[u] = th[u]
        BY <1>1, <1>4, <3>1 DEF Storing, Went
      <4>. QED  BY <2>2, <3>1, <4>1 DEF Settled, Storing, At
    <3>2. Settled("locks") /\ "locks" \notin disturbed
      BY <1>4, <2>2, <3>1 DEF Settled, Joins
    <3>. QED  BY <1>1, <1>5, <2>2, <3>2 DEF CacheOk, Content, Cached
  <2>3. cache'.static.data \in 1 .. Len(heap')
    BY <1>3, <1>5
  <2>. QED  BY <2>1, <2>2, <2>3 DEF CacheOk, Cached
<1>7. GuardStep(t)
  BY <1>1, Releases
<1>. QED  BY <1>1, <1>2, <1>3, <1>4, <1>5, <1>6, <1>7, CacheStepKeeps

(* The walk over the reports only makes a new object.                      *)
LEMMA WalkKeeps ==
    ASSUME ConfigAssumption, IInv, NEW t \in Threads, Walk(t)
    PROVE  IInv'
<1>1. /\ Shape /\ PlaceOk(t) /\ WriteOk(t)
      /\ At(t, "walk") \/ (At(t, "start") /\ th[t].op = "import")
      /\ th[t].op \in {"readStatic", "import"}
      /\ Step(t, "write", Len(heap'))
      /\ UNCHANGED <<file, cache, guard, flock, wanted, disturbed>>
  BY DEF IInv, EditInv, Walk, env, PlaceOk
<1>2. PICK found \in SUBSET Features : heap' = Append(heap, found)
  BY DEF Walk
<1>3. /\ heap' \in Seq(SUBSET Features) /\ Len(heap) \in Nat /\ Len(heap') = Len(heap) + 1
      /\ \A i \in 1 .. Len(heap) : heap'[i] = heap[i]
  BY <1>1, <1>2 DEF Shape
<1>4. /\ Went(t) /\ th'[t].op = th[t].op /\ th'[t].arg = th[t].arg
      /\ th'[t].at = "write" /\ th'[t].copy = Len(heap')
  BY <1>1, Moved
<1>5. /\ ~At(t, "idle") /\ ~At(t, "rmwWrite") /\ ~At(t, "cache") /\ ~Looks(t)
      /\ \A f : ~Storing(t, f)
  BY <1>1 DEF At, Looks, Storing
<1>6. Joins(t) /\ GuardStep(t)
  BY <1>1, <1>4, <1>5, Stays DEF GuardStep, Shape
<1>7. ~At(t, "rmwWrite")' /\ PlaceOk(t)' /\ CopyOk(t)'
  BY <1>1, <1>4 DEF At, PlaceOk, CopyOk
<1>8. WriteOk(t)'
  <2>1. th[t].op = "readStatic" /\ "static" \notin disturbed => file'.static = {}
    BY <1>1 DEF WriteOk, At
  <2>. QED  BY <1>1, <1>3, <1>4, <2>1 DEF At, WriteOk
<1>9. CacheOk'
  BY <1>1, <1>3, <1>4, <1>5, CacheKept DEF Went
<1>. QED  BY <1>1, <1>3, <1>4, <1>5, <1>6, <1>7, <1>8, <1>9, CacheStepKeeps DEF Shape

LEMMA FoundFilledKeeps ==
    ASSUME ConfigAssumption, IInv, NEW t \in Threads, FoundFilled(t)
    PROVE  IInv'
<1>1. /\ At(t, "walk") /\ End(t) /\ Reads /\ UNCHANGED <<guard, disturbed>>
  BY DEF FoundFilled, Reads, env
<1>. QED  BY <1>1, EndKeeps DEF At

(* A merge changes the object before the file: from here to the write the  *)
(* cache may show what is not yet on disk.                                 *)
LEMMA AssignEntryKeeps ==
    ASSUME ConfigAssumption, IInv, NEW t \in Threads, AssignEntry(t)
    PROVE  IInv'
<1> DEFINE c == th[t].copy
<1>1. /\ Shape /\ PlaceOk(t) /\ WriteOk(t) /\ CacheOk /\ At(t, "assign") /\ th[t].op = "merge"
      /\ heap' = [heap EXCEPT ![c.obj] = c.features]
      /\ Step(t, "write", c.obj)
      /\ UNCHANGED <<file, cache, guard, flock, wanted, disturbed>>
  BY DEF IInv, EditInv, AssignEntry, PlaceOk, env
<1>2. /\ ~At(t, "idle") /\ ~At(t, "rmwWrite") /\ ~At(t, "cache") /\ ~Looks(t) /\ t \in InFlight("static")
      /\ \A f : ~Storing(t, f)
  BY <1>1, WritersInFlight DEF At, Looks, Storing
<1>3. /\ Went(t) /\ th'[t].op = "merge" /\ th'[t].arg = th[t].arg
      /\ th'[t].at = "write" /\ th'[t].copy = c.obj
  BY <1>1, Moved
<1>4. /\ c.obj \in 1 .. Len(heap) /\ c.features \in SUBSET Features
      /\ "static" \notin disturbed => c.features = file.static \cup {th[t].arg}
  BY <1>1 DEF WriteOk
<1>5. /\ heap' \in Seq(SUBSET Features) /\ Len(heap') = Len(heap) /\ Len(heap) \in Nat
      /\ heap'[c.obj] = c.features
      /\ \A i \in 1 .. Len(heap) : i # c.obj => heap'[i] = heap[i]
  BY <1>1, <1>4 DEF Shape
<1>6. ~At(t, "rmwWrite")' /\ PlaceOk(t)' /\ CopyOk(t)'
  BY <1>1, <1>2, <1>3 DEF PlaceOk, CopyOk, At
<1>7. WriteOk(t)'
  BY <1>1, <1>3, <1>4, <1>5 DEF WriteOk, At
<1>8. CacheOk'
  <2>1. ~(Settled("static"))'
    BY <1>3 DEF Settled, Storing, At, FileOf
  <2>2. ASSUME "locks" \notin disturbed', Settled("locks")', cache'["locks"].data # None
        PROVE  (Content("locks") = file.locks)'
    <3>1. ASSUME NEW u \in Threads, Storing(u, "locks")
          PROVE  FALSE
      <4>1. u # t /\ th'[u] = th[u]
        BY <1>2, <1>3, <3>1 DEF Went
      <4>. QED  BY <2>2, <3>1, <4>1 DEF Settled, Storing, At
    <3>2. Settled("locks")
      BY <3>1 DEF Settled
    <3>. QED  BY <1>1, <2>2, <3>2 DEF CacheOk, Content, Cached
  <2>3. cache'.static.data # None => cache'.static.data \in 1 .. Len(heap')
    BY <1>1, <1>5 DEF CacheOk
  <2>. QED  BY <2>1, <2>2, <2>3 DEF CacheOk, Cached
<1>9. Joins(t) /\ GuardStep(t)
  BY <1>1, <1>2, <1>3, Stays DEF GuardStep, Shape
<1>. QED  BY <1>1, <1>2, <1>3, <1>5, <1>6, <1>7, <1>8, <1>9, CacheStepKeeps DEF Shape

(* The write: the file is new, the cache follows.                          *)
LEMMA WriteCachedKeeps ==
    ASSUME ConfigAssumption, IInv, NEW t \in Threads, WriteCached(t)
    PROVE  IInv'
<1> DEFINE c == th[t].copy  a == th[t].arg  op == th[t].op  f == FileOf(op)
           new == IF f = "locks" THEN c ELSE heap[c]
           want == CASE op = "unlock"     -> wanted[f] \ {a}
                     [] op = "import"     -> heap[c]
                     [] op = "readStatic" -> wanted[f] \cup heap[c]
                     [] OTHER             -> wanted[f] \cup {a}
<1>1. /\ Shape /\ PlaceOk(t) /\ WriteOk(t) /\ CacheOk /\ Agree
      /\ At(t, "write") /\ op \in {"lock", "unlock", "merge", "import", "readStatic"}
      /\ Step(t, "cache", c) /\ UNCHANGED <<cache, guard, heap, flock, disturbed>>
  BY DEF IInv, EditInv, WriteCached, PlaceOk, env
<1>2. /\ ~At(t, "idle") /\ ~At(t, "rmwWrite") /\ ~At(t, "cache") /\ ~Looks(t)
      /\ t \in InFlight(f) /\ f \in Cached
      /\ f = IF op \in {"lock", "unlock"} THEN "locks" ELSE "static"
  BY <1>1, WritersInFlight DEF At, FileOf, Looks
<1>3. /\ Went(t) /\ th'[t].op = op /\ th'[t].arg = a /\ th'[t].at = "cache" /\ th'[t].copy = c
  BY <1>1, Moved
<1>4. f \in Files /\ f \in Unlocked /\ f \notin Locked /\ Locked \subseteq Files /\ Unlocked \subseteq Files
  BY <1>2 DEF Cached, Unlocked, Plain, Locked, Files
<1>5. file' = [file EXCEPT ![f] = new] /\ wanted' = [wanted EXCEPT ![f] = want]
  BY <1>1, <1>4 DEF WriteCached, Shape
<1>6. /\ DOMAIN file' = Files /\ file'[f] = new /\ DOMAIN wanted' = Files /\ wanted'[f] = want
      /\ \A g \in Files : g # f => file'[g] = file[g] /\ wanted'[g] = wanted[g]
  <2> HIDE DEF f, new, want
  <2>. QED  BY <1>1, <1>4, <1>5 DEF Shape
<1>7. f \notin disturbed => new = want
  <2>1. f \notin disturbed => file[f] = wanted[f]
    BY <1>1, <1>4 DEF Agree
  <2>2. CASE op \in {"lock", "unlock"}
    BY <1>1, <1>2, <2>1, <2>2 DEF WriteOk
  <2>3. CASE op = "merge"
    BY <1>1, <1>2, <2>1, <2>3 DEF WriteOk
  <2>4. CASE op = "import"
    BY <1>2, <2>4
  <2>5. CASE op = "readStatic"
    BY <1>1, <1>2, <2>1, <2>5 DEF WriteOk
  <2>. QED  BY <1>1, <2>2, <2>3, <2>4, <2>5
<1>8. f = "static" => c \in 1 .. Len(heap) /\ new = heap[c] /\ new \in SUBSET Features
  BY <1>1, <1>2 DEF WriteOk, Shape
<1>9. Shape'
  <2>1. \A u \in Threads : DOMAIN th'[u] = Fields
    BY <1>1, <1>3 DEF Went, Shape
  <2>2. file'.static \in SUBSET Features
    BY <1>1, <1>6, <1>8 DEF Shape, Files, Cached
  <2>. QED  BY <1>1, <1>3, <1>6, <2>1, <2>2 DEF Shape, Went
<1>10. OutsideRmw(t)
  BY <1>1, <1>2, <1>3, <1>4, <1>6 DEF OutsideRmw, At
<1>11. DataStep(t)
  <2>1. Len(heap) \in Nat /\ GuardStep(t)
    BY <1>1 DEF Shape, GuardStep
  <2>2. \A g \in Unlocked : file'[g] = file[g] \/ t \in InFlight(g)
    BY <1>2, <1>4, <1>6
  <2>3. \A g \in Cached : file'[g] = file[g] \/ (At(t, "cache")' /\ FileOf(th'[t].op) = g)
    BY <1>3, <1>4, <1>6 DEF At, Unlocked
  <2>. QED  BY <1>1, <1>2, <2>1, <2>2, <2>3 DEF DataStep
<1>12. Agree'
  BY <1>1, <1>4, <1>6, <1>7 DEF Agree
<1>13. PlaceOk(t)' /\ CopyOk(t)' /\ Joins(t)
  BY <1>1, <1>2, <1>3, Stays DEF PlaceOk, CopyOk, At
<1>14. WriteOk(t)'
  BY <1>1, <1>2, <1>3, <1>6, <1>8 DEF WriteOk, At
<1>15. CacheOk'
  <2>1. ASSUME NEW g \in Cached, g = f
        PROVE  ~(Settled(g)')
    BY <1>3, <2>1 DEF Settled, Storing, At
  <2>2. ASSUME NEW g \in Cached, g # f, g \notin disturbed', Settled(g)', cache'[g].data # None
        PROVE  (Content(g) = file[g])'
    <3>1. ASSUME NEW u \in Threads, Storing(u, g)
          PROVE  FALSE
      <4>1. u # t
        BY <2>2, <3>1 DEF Storing
      <4>2. th'[u] = th[u]
        BY <1>3, <4>1 DEF Went
      <4>. QED  BY <2>2, <3>1, <4>2 DEF Settled, Storing, At
    <3>2. Settled(g)
      BY <3>1 DEF Settled
    <3>3. file'[g] = file[g] /\ Content(g)' = Content(g)
      BY <1>1, <1>4, <1>6, <2>2 DEF Unlocked, Content
    <3>. QED  BY <1>1, <2>2, <3>2, <3>3 DEF CacheOk
  <2>3. cache'.static.data # None => cache'.static.data \in 1 .. Len(heap')
    BY <1>1 DEF CacheOk
  <2>. QED  BY <2>1, <2>2, <2>3 DEF CacheOk
<1>. QED  BY <1>3, <1>9, <1>10, <1>11, <1>12, <1>13, <1>14, <1>15, StepKeeps

(* The second half of a save.                                              *)
LEMMA UpdateCacheKeeps ==
    ASSUME ConfigAssumption, IInv, NEW t \in Threads, UpdateCache(t)
    PROVE  IInv'
<1> DEFINE c == th[t].copy  op == th[t].op  f == FileOf(op)
<1>1. /\ Shape /\ PlaceOk(t) /\ WriteOk(t) /\ CacheOk /\ At(t, "cache") /\ End(t) /\ guard[f] = None
      /\ cache' = [cache EXCEPT ![f] = [mtime |-> mtime[f], data |-> c]]
      /\ UNCHANGED <<file, guard, heap, flock, wanted, disturbed>>
  BY DEF IInv, EditInv, UpdateCache, env
<1>2. ~At(t, "rmwWrite") /\ f \in Cached
  BY <1>1, WritersInFlight DEF At
<1>3. /\ Went(t) /\ Joins(t) /\ ~At(t, "rmwWrite")' /\ ~At(t, "cache")'
      /\ PlaceOk(t)' /\ CopyOk(t)' /\ WriteOk(t)'
  BY <1>1, Gone
<1>4. /\ DOMAIN cache' = Cached /\ cache'[f] = [mtime |-> mtime[f], data |-> c]
      /\ \A g \in Cached : g # f => cache'[g] = cache[g]
  BY <1>1, <1>2 DEF Shape
<1>5. /\ f = "locks" /\ "locks" \notin disturbed => c = file.locks
      /\ f = "static" => c \in 1 .. Len(heap)
      /\ f = "static" /\ "static" \notin disturbed => heap[c] = file.static
  BY <1>1 DEF WriteOk
<1>6. CacheOk'
  <2>1. ASSUME NEW g \in Cached, g = f, g \notin disturbed
        PROVE  (Content(g) = file[g])'
    <3>1. CASE g = "locks"
      BY <1>1, <1>4, <1>5, <2>1, <3>1 DEF Content
    <3>2. CASE g = "static"
      BY <1>1, <1>4, <1>5, <2>1, <3>2 DEF Content
    <3>. QED  BY <1>2, <3>1, <3>2 DEF Cached
  <2>2. ASSUME NEW g \in Cached, g # f, g \notin disturbed, Settled(g)', cache'[g].data # None
        PROVE  (Content(g) = file[g])'
    <3>1. ASSUME NEW u \in Threads, Storing(u, g)
          PROVE  FALSE
      <4>1. u # t
        BY <2>2, <3>1 DEF Storing
      <4>2. th'[u] = th[u]
        BY <1>3, <4>1 DEF Went
      <4>. QED  BY <2>2, <3>1, <4>2 DEF Settled, Storing, At
    <3>2. Settled(g) /\ cache'[g] = cache[g]
      BY <1>4, <2>2, <3>1 DEF Settled
    <3>3. Content(g)' = Content(g)
      BY <1>1, <2>2, <3>2 DEF Content, Cached
    <3>. QED  BY <1>1, <2>2, <3>2, <3>3 DEF CacheOk
  <2>3. cache'.static.data # None => cache'.static.data \in 1 .. Len(heap')
    <3>1. CASE f = "static"
      BY <1>1, <1>4, <1>5, <3>1
    <3>2. CASE f # "static"
      BY <1>1, <1>4, <3>2 DEF CacheOk, Cached
    <3>. QED  BY <3>1, <3>2
  <2>. QED  BY <1>1, <2>1, <2>2, <2>3 DEF CacheOk
<1>7. Len(heap) \in Nat /\ GuardStep(t)
  BY <1>1 DEF Shape, GuardStep
<1>. QED  BY <1>1, <1>2, <1>3, <1>4, <1>6, <1>7, CacheStepKeeps DEF Shape

-----------------------------------------------------------------------------
(* The locked sections.  They leave the other files and the caches alone.  *)
LEMMA LockedKeeps ==
    ASSUME ConfigAssumption, IInv, NEW t \in Threads, Went(t), ~At(t, "idle"), ~Looks(t),
           ~At(t, "write"), ~At(t, "cache"),
           Shape', PlaceOk(t)', CopyOk(t)', WriteOk(t)',
           \A f \in Unlocked : file'[f] = file[f] /\ wanted'[f] = wanted[f],
           UNCHANGED <<cache, guard, heap, disturbed>>
    PROVE  (\A u \in Threads : PlaceOk(u)') /\ EditInv'
<1>1. Shape /\ Len(heap) \in Nat /\ \A f \in Cached : f \in Unlocked
  BY DEF IInv, Shape, Unlocked
<1>2. DataStep(t)
  BY <1>1 DEF DataStep, GuardStep, Shape
<1>3. Agree'
  BY DEF Agree, IInv, EditInv
<1>4. CacheOk'
  <2>1. \A f : ~Storing(t, f)
    BY DEF Storing
  <2>. QED  BY <1>1, <2>1, CacheKept DEF Went
<1>5. Joins(t)
  BY Stays
<1>. QED  BY <1>2, <1>3, <1>4, <1>5, EditsKept

LEMMA RmwReadKeeps ==
    ASSUME ConfigAssumption, IInv, NEW t \in Threads, RmwRead(t)
    PROVE  IInv'
<1> DEFINE f == LockedFile(t)
<1>1. /\ Shape /\ PlaceOk(t) /\ RmwInv /\ RmwLosesNothing
      /\ At(t, "rmw") \/ (At(t, "start") /\ th[t].op = "upload")
      /\ flock[f] = None /\ flock' = [flock EXCEPT ![f] = t]
      /\ UNCHANGED <<file, cache, guard, heap, wanted, disturbed>>
  BY DEF IInv, RmwRead, InRmw, env
<1>2. /\ ~At(t, "idle") /\ ~At(t, "write") /\ ~At(t, "rmwWrite") /\ ~At(t, "cache") /\ ~Looks(t) /\ f \in Locked
      /\ th[t].op \in {"refresh", "upload"}
  BY <1>1 DEF At, LockedFile, Locked, PlaceOk, Looks
<1>3. PICK readable \in BOOLEAN :
        Step(t, "rmwWrite", [in |-> th[t].copy, readable |-> readable, base |-> Base(f, readable)])
  BY DEF RmwRead
<1>4. /\ Went(t) /\ th'[t].op = th[t].op /\ th'[t].at = "rmwWrite" /\ LockedFile(t)' = f
      /\ th'[t].copy.base = Base(f, th'[t].copy.readable)
  <2>1. /\ Went(t) /\ th'[t].op = th[t].op /\ th'[t].at = "rmwWrite"
        /\ th'[t].copy = [in |-> th[t].copy, readable |-> readable, base |-> Base(f, readable)]
    BY <1>1, <1>3, Moved
  <2>. QED  BY <2>1 DEF LockedFile
<1>5. Shape'
  <2>1. \A u \in Threads : DOMAIN th'[u] = Fields
    BY <1>1, <1>4 DEF Went, Shape
  <2>. QED  BY <1>1, <1>2, <1>4, <2>1 DEF Shape, Went
<1>6. PlaceOk(t)' /\ CopyOk(t)' /\ WriteOk(t)'
  BY <1>2, <1>4 DEF PlaceOk, CopyOk, WriteOk, At, Requests
<1>7. (\A u \in Threads : PlaceOk(u)') /\ EditInv'
  BY <1>1, <1>2, <1>4, <1>5, <1>6, LockedKeeps
<1>8. RmwInv'
  <2>1. ASSUME NEW u \in Threads, NEW g \in Locked
        PROVE  (flock[g] = u <=> At(u, "rmwWrite") /\ LockedFile(u) = g)'
    <3>1. flock[g] = u <=> At(u, "rmwWrite") /\ LockedFile(u) = g
      BY <1>1 DEF RmwInv
    <3>2. flock'[g] = IF g = f THEN t ELSE flock[g]
      BY <1>1, <1>2 DEF Shape
    <3>3. u # None
      BY DEF ConfigAssumption
    <3>4. CASE u = t
      BY <1>2, <1>4, <3>1, <3>2, <3>4 DEF At
    <3>5. CASE u # t
      BY <1>1, <1>4, <3>1, <3>2, <3>3, <3>5 DEF At, Went, LockedFile
    <3>. QED  BY <3>4, <3>5
  <2>2. ASSUME NEW u \in Threads, At(u, "rmwWrite")'
        PROVE  (th[u].copy.base = Base(LockedFile(u), th[u].copy.readable))'
    <3>1. CASE u = t
      BY <1>1, <1>4, <3>1 DEF Base
    <3>2. CASE u # t
      <4>1. th'[u] = th[u] /\ At(u, "rmwWrite") /\ LockedFile(u)' = LockedFile(u)
        BY <1>4, <2>2, <3>2 DEF Went, At, LockedFile
      <4>. QED  BY <1>1, <4>1 DEF RmwInv, Base
    <3>. QED  BY <3>1, <3>2
  <2>3. \A g \in Locked : flock'[g] \in Threads \cup {None}
    BY <1>1, <1>2 DEF RmwInv, Shape
  <2>. QED  BY <2>1, <2>2, <2>3 DEF RmwInv
<1>. QED  BY <1>1, <1>5, <1>7, <1>8 DEF IInv, RmwLosesNothing

(* What the lock means once its owner is out of the section.               *)
LEMMA RmwReleased ==
    ASSUME ConfigAssumption, IInv, NEW t \in Threads, At(t, "rmwWrite"), Went(t), ~At(t, "rmwWrite")',
           \A g \in Locked : flock'[g] = IF g = LockedFile(t) THEN None ELSE flock[g],
           \A g \in Locked : g # LockedFile(t) => file'[g] = file[g]
    PROVE  RmwInv'
<1> DEFINE f == LockedFile(t)
<1>1. RmwInv /\ f \in Locked /\ flock[f] = t
  BY DEF IInv, RmwInv, LockedFile, Locked
<1>2. ASSUME NEW u \in Threads, NEW g \in Locked
      PROVE  (flock[g] = u <=> At(u, "rmwWrite") /\ LockedFile(u) = g)'
  <2>1. flock[g] = u <=> At(u, "rmwWrite") /\ LockedFile(u) = g
    BY <1>1 DEF RmwInv
  <2>2. u # None
    BY DEF ConfigAssumption
  <2>3. CASE u = t
    BY <2>1, <2>2, <2>3
  <2>4. CASE u # t
    BY <1>1, <2>1, <2>2, <2>4 DEF At, Went, LockedFile
  <2>. QED  BY <2>3, <2>4
<1>3. ASSUME NEW u \in Threads, At(u, "rmwWrite")'
      PROVE  (th[u].copy.base = Base(LockedFile(u), th[u].copy.readable))'
  <2>1. u # t /\ th'[u] = th[u] /\ At(u, "rmwWrite") /\ LockedFile(u)' = LockedFile(u)
    BY <1>3 DEF Went, At, LockedFile
  <2>2. LockedFile(u) # f /\ LockedFile(u) \in Locked
    BY <1>1, <2>1 DEF RmwInv, LockedFile, Locked
  <2>. QED  BY <1>1, <2>1, <2>2 DEF RmwInv, Base
<1>4. \A g \in Locked : flock'[g] \in Threads \cup {None}
  BY <1>1 DEF RmwInv
<1>. QED  BY <1>2, <1>3, <1>4 DEF RmwInv

LEMMA RmwWriteKeeps ==
    ASSUME ConfigAssumption, IInv, NEW t \in Threads, RmwWrite(t)
    PROVE  IInv'
<1> DEFINE f == LockedFile(t)  in == th[t].copy.in  readable == th[t].copy.readable
           new(c) == IF f = "registry" THEN c \cup {th[t].arg} ELSE Refreshed(c, in.answer, in.variants)
<1>1. /\ Shape /\ PlaceOk(t) /\ RmwInv /\ RmwLosesNothing /\ At(t, "rmwWrite")
      /\ flock' = [flock EXCEPT ![f] = None]
      /\ UNCHANGED <<cache, guard, heap, disturbed>>
      /\ IF f = "machines" THEN Step(t, "snap", in.answer) ELSE End(t)
  BY DEF IInv, RmwWrite, env
<1>2. /\ ~At(t, "idle") /\ ~At(t, "write") /\ ~At(t, "cache") /\ ~Looks(t)
      /\ f \in Locked /\ f \in Files /\ Locked \subseteq Files
      /\ Unlocked \subseteq Files /\ f \notin Unlocked
      /\ th[t].op \in {"refresh", "upload"} /\ (f = "machines" <=> th[t].op = "refresh")
  BY <1>1 DEF At, LockedFile, Locked, PlaceOk, Files, Unlocked, Plain, Cached, Looks
<1>3. /\ Went(t) /\ th'[t].at # "rmwWrite"
      /\ th'[t] = Idle \/ (th'[t].at = "snap" /\ th'[t].op = "refresh")
  <2>1. CASE f = "machines"
    <3>1. Step(t, "snap", in.answer)
      BY <1>1, <2>1
    <3>. QED  BY <1>1, <1>2, <2>1, <3>1, Moved
  <2>2. CASE f # "machines"
    BY <1>1, <1>2, <2>2, Ended
  <2>. QED  BY <2>1, <2>2
<1>4. th[t].copy.base = Base(f, readable) /\ file[f] = wanted[f]
  BY <1>1, <1>2 DEF RmwInv, RmwLosesNothing
<1>5. /\ file' = [file EXCEPT ![f] = new(Base(f, readable))]
      /\ wanted' = [wanted EXCEPT ![f] = new(Base(f, readable))]
  <2>1. /\ file' = [file EXCEPT ![f] = new(th[t].copy.base)]
        /\ wanted' = [wanted EXCEPT ![f] = new(IF readable THEN wanted[f] ELSE Empty(f))]
    BY <1>1, <1>2 DEF RmwWrite, Shape
  <2>2. (IF readable THEN wanted[f] ELSE Empty(f)) = Base(f, readable)
    BY <1>4 DEF Base
  <2> HIDE DEF new
  <2>. QED  BY <1>4, <2>1, <2>2
<1> HIDE DEF new
<1>6. /\ DOMAIN file' = Files /\ DOMAIN wanted' = Files /\ file'[f] = wanted'[f]
      /\ \A g \in Files : g # f => file'[g] = file[g] /\ wanted'[g] = wanted[g]
      /\ \A g \in Locked : flock'[g] = IF g = f THEN None ELSE flock[g]
      /\ DOMAIN flock' = Locked
  BY <1>1, <1>2, <1>5 DEF Shape
<1>7. Shape'
  <2>1. \A u \in Threads : DOMAIN th'[u] = Fields
    BY <1>1, <1>3 DEF Went, Shape
  <2>2. file'.static = file.static
    BY <1>2, <1>6 DEF Unlocked, Cached
  <2>. QED  BY <1>1, <1>3, <1>6, <2>1, <2>2 DEF Shape, Went
<1>8. PlaceOk(t)' /\ CopyOk(t)' /\ WriteOk(t)'
  BY <1>3 DEF PlaceOk, CopyOk, WriteOk, At, Idle, Requests
<1>9. \A g \in Unlocked : file'[g] = file[g] /\ wanted'[g] = wanted[g]
  BY <1>2, <1>6
<1>10. (\A u \in Threads : PlaceOk(u)') /\ EditInv'
  BY <1>1, <1>2, <1>3, <1>7, <1>8, <1>9, LockedKeeps
<1>11. RmwInv'
  BY <1>1, <1>2, <1>3, <1>6, RmwReleased DEF At
<1>12. RmwLosesNothing'
  BY <1>1, <1>2, <1>6 DEF RmwLosesNothing
<1>. QED  BY <1>7, <1>10, <1>11, <1>12 DEF IInv

(* A request that raises has changed nothing; a merge leaves an object the *)
(* file does not agree with, so it disturbs the file.                      *)
LEMMA FailsKeeps ==
    ASSUME ConfigAssumption, IInv, NEW t \in Threads, Fails(t)
    PROVE  IInv'
<1>1. /\ Shape /\ PlaceOk(t) /\ RmwInv /\ RmwLosesNothing /\ Agree /\ End(t)
      /\ th[t].at \in {"save", "saveSettings", "walk", "write", "backfill", "snap", "rmwWrite"}
      /\ flock' = [f \in Locked |-> IF flock[f] = t THEN None ELSE flock[f]]
      /\ At(t, "write") /\ th[t].op = "merge" => "static" \in disturbed'
      /\ disturbed \subseteq disturbed'
      /\ UNCHANGED <<file, cache, guard, heap, wanted>>
  BY DEF IInv, EditInv, Fails
<1>2. /\ Went(t) /\ Joins(t) /\ ~At(t, "rmwWrite")' /\ ~At(t, "cache")'
      /\ PlaceOk(t)' /\ CopyOk(t)' /\ WriteOk(t)'
  BY <1>1, Gone
<1>3. Len(heap) \in Nat /\ ~At(t, "cache") /\ DataStep(t)
  BY <1>1 DEF DataStep, GuardStep, Shape, At
<1>4. Shape'
  <2>1. \A u \in Threads : DOMAIN th'[u] = Fields
    BY <1>1, <1>2 DEF Went, Shape
  <2>. QED  BY <1>1, <1>2, <2>1 DEF Shape, Went
<1>5. Agree'
  BY <1>1 DEF Agree
<1>6. CacheOk'
  <2>1. \A f \in Cached \ disturbed' : ~Storing(t, f)
    BY <1>1, <1>3 DEF Storing, FileOf
  <2>. QED  BY <1>1, <1>2, <1>3, <2>1, CacheKept DEF Went
<1>7. (\A u \in Threads : PlaceOk(u)') /\ EditInv'
  BY <1>2, <1>3, <1>4, <1>5, <1>6, EditsKept
<1>8. RmwInv' /\ RmwLosesNothing'
  <2>1. CASE At(t, "rmwWrite")
    <3>1. \A g \in Locked : flock'[g] = IF g = LockedFile(t) THEN None ELSE flock[g]
      BY <1>1, <2>1 DEF RmwInv
    <3>. QED  BY <1>1, <1>2, <2>1, <3>1, RmwReleased DEF RmwLosesNothing
  <2>2. CASE ~At(t, "rmwWrite")
    <3>1. \A f \in Locked : flock'[f] = flock[f]
      BY <1>1, <2>2 DEF RmwInv
    <3>2. OutsideRmw(t)
      BY <1>1, <1>2, <2>2, <3>1 DEF OutsideRmw
    <3>. QED  BY <1>2, <3>2, RmwKept
  <2>. QED  BY <2>1, <2>2
<1>. QED  BY <1>4, <1>7, <1>8 DEF IInv

-----------------------------------------------------------------------------
(* A request arrives: if another one works on a file it writes, the file   *)
(* is disturbed from here on.                                              *)
LEMMA BeginKeeps ==
    ASSUME ConfigAssumption, IInv, NEW t \in Threads, NEW op \in Ops, Begin(t, op)
    PROVE  IInv'
<1>1. /\ Shape /\ \A u \in Threads : PlaceOk(u) /\ CopyOk(u) /\ WriteOk(u)
      /\ RmwInv /\ RmwLosesNothing /\ Agree
      /\ At(t, "idle") /\ op \in Requests
      /\ UNCHANGED <<file, mtime, cache, guard, heap, flock, wanted>>
  BY DEF IInv, EditInv, Begin, ConfigAssumption
<1>2. PICK a \in Args(op) :
        LET r == [op |-> op, arg |-> a, at |-> "start", copy |-> None]
        IN  th' = [th EXCEPT ![t] = r] /\ Meet(Edits(r))
  BY DEF Begin
<1> DEFINE r == [op |-> op, arg |-> a, at |-> "start", copy |-> None]
<1>3. /\ DOMAIN th' = Threads /\ th'[t] = r
      /\ \A u \in Threads \ {t} : th'[u] = th[u]
      /\ \A u \in Threads : DOMAIN th'[u] = Fields
  BY <1>1, <1>2 DEF Shape, Fields
<1>4. Joins(t)
  <2>1. \A f : t \in InFlight(f)' => f \in Edits(r)
    BY <1>3 DEF InFlight
  <2>. QED  BY <1>2, <2>1 DEF Joins, Meet
<1>5. Shape' /\ Len(heap) \in Nat
  BY <1>1, <1>3 DEF Shape
<1>6. ASSUME NEW u \in Threads
      PROVE  PlaceOk(u)' /\ CopyOk(u)' /\ WriteOk(u)'
  <2>1. CASE u = t
    <3>1. op = "merge" => a \in Features
      BY DEF Args
    <3>. QED  BY <1>1, <1>3, <2>1, <3>1 DEF PlaceOk, CopyOk, WriteOk, At
  <2>2. CASE u # t
    <3>1. th'[u] = th[u] /\ \A f : f \notin disturbed' => f \notin disturbed
      BY <1>3, <1>4, <2>2 DEF Joins
    <3>2. PlaceOk(u)' /\ WriteOk(u)'
      BY <1>1, <3>1 DEF PlaceOk, WriteOk, At
    <3>3. \A v \in Threads : At(v, "cache") => th'[v] = th[v]
      BY <1>1, <1>3 DEF At
    <3>4. CopyOk(u)'
      BY <1>1, <3>1, <3>3 DEF CopyOk, At
    <3>. QED  BY <3>2, <3>4
  <2>. QED  BY <2>1, <2>2
<1>7. Alone'
  BY <1>3, <1>4, AloneKept
<1>8. RmwInv' /\ RmwLosesNothing'
  <2>1. \A u \in Threads : /\ At(u, "rmwWrite")' <=> At(u, "rmwWrite")
                           /\ At(u, "rmwWrite") => th'[u] = th[u] /\ LockedFile(u)' = LockedFile(u)
    BY <1>1, <1>3 DEF At, LockedFile
  <2>. QED  BY <1>1, <2>1 DEF RmwInv, RmwLosesNothing, Base
<1>9. Agree'
  BY <1>1, <1>4 DEF Agree, Joins
<1>10. CacheOk'
  <2>1. \A f : ~Storing(t, f)
    BY <1>1 DEF Storing, At
  <2>. QED  BY <1>1, <1>3, <1>4, <1>5, <2>1, CacheKept DEF Joins
<1>. QED  BY <1>5, <1>6, <1>7, <1>8, <1>9, <1>10 DEF IInv, EditInv

(* What upstream deploys is in no file yet.                                *)
LEMMA UnrelatedKeeps ==
    ASSUME IInv, UNCHANGED <<file, mtime, cache, guard, heap, flock, th, wanted, disturbed>>
    PROVE  IInv'
<1>1. Shape' /\ \A u \in Threads : PlaceOk(u)' /\ CopyOk(u)' /\ WriteOk(u)'
  BY DEF IInv, EditInv, Shape, PlaceOk, CopyOk, WriteOk, At
<1>2. RmwInv' /\ RmwLosesNothing'
  BY DEF IInv, RmwInv, RmwLosesNothing, At, LockedFile, Base
<1>3. Alone' /\ Agree'
  BY DEF IInv, EditInv, Alone, InFlight, Agree
<1>4. CacheOk'
  BY DEF IInv, EditInv, CacheOk, Settled, Storing, At, Content
<1>. QED  BY <1>1, <1>2, <1>3, <1>4 DEF IInv, EditInv

LEMMA InitOk ==
    ASSUME ConfigAssumption, Init
    PROVE  IInv
<1>1. Shape
  BY DEF Init, Shape, Idle, Fields, Files, Plain, Cached, Locked
<1>2. \A t \in Threads : PlaceOk(t) /\ CopyOk(t) /\ WriteOk(t) /\ At(t, "idle") /\ \A f : t \notin InFlight(f)
  BY DEF Init, PlaceOk, CopyOk, WriteOk, At, Idle, InFlight, Edits
<1>3. RmwInv /\ RmwLosesNothing
  BY <1>2 DEF Init, RmwInv, RmwLosesNothing, At, ConfigAssumption
<1>4. Alone /\ Agree
  BY <1>2 DEF Init, Alone, InFlight, Agree
<1>5. CacheOk
  BY DEF Init, CacheOk, Cached
<1>. QED  BY <1>1, <1>2, <1>3, <1>4, <1>5 DEF IInv, EditInv

LEMMA StepOk ==
    ASSUME ConfigAssumption, IInv, [Next]_vars
    PROVE  IInv'
<1>1. ASSUME NEW t \in Threads, Request(t)
      PROVE  IInv'
  BY <1>1, LoadServersKeeps, SaveServersKeeps, LoadSettingsKeeps, SaveSettingsKeeps, StatFileKeeps,
     LookUpKeeps, StoreLocksKeeps, StoreStaticKeeps, WalkKeeps, FoundFilledKeeps, AssignEntryKeeps,
     WriteCachedKeeps, UpdateCacheKeeps, FetchKeeps, RefreshHallsKeeps, ReadHallsKeeps,
     BackfillHallsKeeps, SaveSnapshotKeeps, RmwReadKeeps, RmwWriteKeeps, FailsKeeps DEF Request
<1>2. ASSUME NEW k \in Keys, UpstreamChanges(k)
      PROVE  IInv'
  BY <1>2, UnrelatedKeeps DEF UpstreamChanges
<1>3. CASE UNCHANGED vars
  BY <1>3, UnrelatedKeeps DEF vars
<1>. QED  BY <1>1, <1>2, <1>3, BeginKeeps DEF Next

LEMMA Inductive == Spec => []IInv
<1>1. Init => IInv
  BY InitOk, ConfigAssumption
<1>2. IInv /\ [Next]_vars => IInv'
  BY StepOk, ConfigAssumption
<1>. QED  BY <1>1, <1>2, PTL DEF Spec

(* However many refreshes and uploads run at once and fail, whenever a     *)
(* request changes the halls or upstream deploys: machines.json and the    *)
(* registry are what the requests would have left one after the other.     *)
THEOREM RmwIsSerial == Spec => []RmwLosesNothing
<1>1. IInv => RmwLosesNothing
  BY DEF IInv
<1>. QED  BY <1>1, Inductive, PTL

(* A file whose edits never overlapped and never failed holds them all,    *)
(* and its cache, if it would be believed, shows them: between requests,   *)
(* for any number of threads, requests, reads and GETs that fill or bring  *)
(* up to date a file.                                                      *)
THEOREM SequentialStays == Spec => []SequentialEditsStay
<1>1. ASSUME IInv, NEW f \in Unlocked, f \notin disturbed, InFlight(f) = {}
      PROVE  file[f] = wanted[f] /\ (f \in Cached => Seen(f) = wanted[f])
  <2>1. file[f] = wanted[f] /\ CacheOk /\ \A t \in Threads : PlaceOk(t)
    BY <1>1 DEF IInv, EditInv, Agree
  <2>2. CASE f \in Cached /\ Hit(f, mtime[f])
    <3>1. Settled(f)
      BY <1>1, <2>1, StoringInFlight DEF Settled
    <3>2. Content(f) = file[f]
      BY <1>1, <2>1, <2>2, <3>1 DEF CacheOk, Hit
    <3>. QED  BY <2>1, <2>2, <3>2 DEF Content, Seen
  <2>3. CASE f \in Cached /\ ~Hit(f, mtime[f])
    BY <2>1, <2>3 DEF Seen
  <2>. QED  BY <2>1, <2>2, <2>3
<1>2. IInv => SequentialEditsStay
  BY <1>1 DEF SequentialEditsStay, Unlocked
<1>. QED  BY <1>2, Inductive, PTL
=============================================================================
