---------------------------- MODULE ChunkIndexProofs ----------------------------
(***************************************************************************)
(* What the sidecar and the root entry of a cell tell, for any workers,    *)
(* md5s, indices, runs, calls, failed writes and killed processes.         *)
(***************************************************************************)
EXTENDS ChunkIndex, Analyzer, FiniteSetTheorems, WellFoundedInduction, TLAPS

Fixed == {"main", "reader", "cleaner", "boot"}
AtWork == {"glob", "build", "root", "update", "updating"}
Removing == {"remove", "removing"}

TypesOk ==
    /\ disk = [c \in DOMAIN disk |-> disk[c]] /\ DOMAIN disk \subseteq Chunks
    /\ th = [t \in Threads |-> th[t]]
    /\ \A t \in Threads : DOMAIN th[t] = DOMAIN Idle
    /\ DOMAIN n = {"run", "call", "fail"} /\ n.fail \in Nat
    /\ DOMAIN run = {"md5", "next"} /\ run.md5 \in Md5s
    /\ outrun \in BOOLEAN /\ missed \in BOOLEAN

(* Where each thread can be, and where its next read of the sidecar ends.  *)
PcOk ==
    /\ th["main"].pc \in {"idle", "load", "build", "seed", "join"}
    /\ th["main"].pc \in {"load", "build"} => th["main"].ret = "seed"
    /\ \A w \in Workers :
         /\ th[w].pc \in {"idle", "fetch"} \cup AtWork
         /\ th[w].pc \in {"glob", "build"} => th[w].ret = "root"
         /\ th["main"].pc # "join" => th[w].pc = "idle"
    /\ th["reader"].pc \in {"idle", "glob", "build", "root"}
    /\ th["reader"].pc \in {"glob", "build"} => th["reader"].ret = "root"
    /\ th["cleaner"].pc \in {"idle", "load", "build", "unlink", "glob", "root"} \cup Removing
    /\ th["cleaner"].pc = "load" => th["cleaner"].ret = "unlink"
    /\ th["cleaner"].pc = "glob" => th["cleaner"].ret = "root"
    /\ th["cleaner"].pc = "build" => th["cleaner"].ret \in {"unlink", "root"}
    /\ th["boot"].pc \in {"idle", "assign", "assigning", "over"}

(* A chunk table, and a sidecar whose indexes are those of its table.      *)
Rows(ch) == /\ DOMAIN ch \subseteq Chunks
            /\ ch = [c \in DOMAIN ch |-> [md5 |-> ch[c].md5, cid |-> ch[c].cid]]
Whole(s) ==
    /\ DOMAIN s = {"chunks", "byMd5", "byCid", "legacy"} /\ Rows(s.chunks)
    /\ s.byMd5 = ByMd5(s.chunks) /\ s.byCid = ByConfigId(s.chunks) /\ s.legacy = FALSE

SideOk == side = None \/ (Rows(side.chunks) /\ (side.legacy = TRUE \/ Whole(side)))
ViewOk ==
    /\ \A t \in Threads : th[t].pc \in {"build", "updating", "removing", "assigning"} => Whole(th[t].view)
    /\ th["main"].pc = "seed" => DOMAIN th["main"].view.chunks \subseteq Chunks
    /\ th["boot"].pc = "assigning" => th["boot"].c \in DOMAIN th["boot"].view.chunks
    /\ \A w \in Workers : th[w].pc \in {"fetch"} \cup AtWork => th[w].c \in Chunks

(* The run seeds from every chunk on disk, and its workers take indices    *)
(* beyond them.                                                            *)
Fresh ==
    /\ th["main"].pc \in {"build", "seed"} => DOMAIN disk \subseteq DOMAIN th["main"].view.chunks
    /\ \A w \in Workers : th[w].pc = "fetch" => th[w].c \notin DOMAIN disk
    /\ \A v, w \in Workers :
         th[v].pc = "fetch" /\ th[w].pc = "fetch" /\ th[v].c = th[w].c => v = w

(* Some worker will still refresh the root entry.                          *)
Owed == \E w \in Workers : th[w].pc \in {"glob", "build", "root"}

(* The root entry tells of a directory of which what is left is on disk.   *)
Told(D) == /\ DOMAIN disk \subseteq D /\ D \subseteq Chunks
           /\ root.count = Cardinality(D)
           /\ D = DOMAIN disk => root.md5s = Range(disk)
RootTells == ~outrun /\ ~missed /\ root # None => Owed \/ \E D \in SUBSET Chunks : Told(D)

CleanerOwes(c) == th["cleaner"].pc \in Removing /\ c \in th["cleaner"].names
Doubted(c) == n.fail >= 2 \/ (n.fail >= 1 /\ CleanerOwes(c))
Writing(c) == \E w \in Workers : th[w].pc \in AtWork /\ th[w].c = c

GoneOk == \A c \in DOMAIN side.chunks \ DOMAIN disk : n.fail >= 1 \/ CleanerOwes(c)
SeedOk == th["main"].pc = "seed" =>
            \A c \in DOMAIN side.chunks \ DOMAIN th["main"].view.chunks : Doubted(c)
FetchOk == \A w \in Workers :
             th[w].pc = "fetch" /\ th[w].c \in DOMAIN side.chunks => Doubted(th[w].c)
RowOk == \A c \in DOMAIN side.chunks \cap DOMAIN disk :
           \/ disk[c] = side.chunks[c].md5
           \/ Writing(c) /\ Doubted(c)
           \/ n.fail >= 2 /\ CleanerOwes(c)
SideTells == ~outrun /\ n.fail <= 2 /\ side # None => GoneOk /\ SeedOk /\ FetchOk /\ RowOk
IInv == TypesOk /\ PcOk /\ SideOk /\ ViewOk /\ Fresh /\ RootTells /\ SideTells

-----------------------------------------------------------------------------
(* Numbers and sidecars.                                                   *)
LEMMA LeastNatural ==
    ASSUME NEW S \in SUBSET Nat, S # {}
    PROVE  \E x \in S : \A y \in S : x <= y
<1> DEFINE R == {ss \in Nat \X Nat : ss[1] < ss[2]}
<1>1. PICK x \in S : \A y \in S : ~(<<y, x>> \in R)
  BY WFMin, NatLessThanWellFounded DEF OpToRel
<1>2. \A y \in S : ~(y < x)
  BY <1>1
<1> QED BY <1>1, <1>2

LEMMA FiniteBound ==
    ASSUME NEW S \in SUBSET Nat, IsFiniteSet(S)
    PROVE  \E top \in Nat : \A i \in S : i <= top
<1> DEFINE Bounded(T) == \E top \in Nat : \A i \in T : i <= top
           Bad == {k \in Nat : \E T \in SUBSET Nat :
                     IsFiniteSet(T) /\ Cardinality(T) = k /\ ~Bounded(T)}
<1>1. SUFFICES ASSUME ~Bounded(S) PROVE FALSE
  OBVIOUS
<1> HIDE DEF Bounded
<1>2. Cardinality(S) \in Bad /\ Bad \in SUBSET Nat
  BY <1>1, FS_CardinalityType
<1> HIDE DEF Bad
<1>3. PICK k \in Bad : \A m \in Bad : k <= m
  BY <1>2, LeastNatural
<1>4. PICK T \in SUBSET Nat : IsFiniteSet(T) /\ Cardinality(T) = k /\ ~Bounded(T)
  BY <1>3 DEF Bad
<1>5. CASE T = {}
  <2>1. 0 \in Nat /\ \A i \in T : i <= 0
    BY <1>5
  <2> QED BY <1>4, <2>1 DEF Bounded
<1>6. CASE T # {}
  <2>1. PICK x \in T : TRUE
    BY <1>6
  <2>2. IsFiniteSet(T \ {x}) /\ Cardinality(T \ {x}) = k - 1
    BY <1>4, <2>1, FS_RemoveElement
  <2>3. k - 1 \in Nat
    BY <2>2, FS_CardinalityType
  <2>4. k - 1 \notin Bad
    <3>1. k \in Nat
      BY <1>2, <1>3
    <3>2. ~(k <= k - 1)
      BY <3>1
    <3> QED BY <1>3, <3>2
  <2>5. Bounded(T \ {x})
    BY <2>2, <2>3, <2>4 DEF Bad
  <2>6. PICK top \in Nat : \A i \in T \ {x} : i <= top
    BY <2>5 DEF Bounded
  <2>7. x + top \in Nat /\ \A i \in T : i <= x + top
    BY <2>1, <2>6
  <2> QED BY <1>4, <2>7 DEF Bounded
<1> QED BY <1>5, <1>6

(* The highest of some indexes is a number, and none of them is above it.  *)
LEMMA HighestIndex ==
    ASSUME NEW S \in SUBSET Nat, IsFiniteSet(S)
    PROVE  Max(S \cup {0}) \in Nat /\ \A i \in S : i <= Max(S \cup {0})
<1> DEFINE T == S \cup {0}
           Above == {k \in Nat : \A i \in T : i <= k}
<1>1. T \in SUBSET Nat
  OBVIOUS
<1>2. Above \in SUBSET Nat /\ Above # {}
  BY FiniteBound
<1> HIDE DEF Above
<1>3. PICK k \in Above : \A j \in Above : k <= j
  BY <1>2, LeastNatural
<1>4. k \in Nat /\ \A i \in T : i <= k
  BY <1>3 DEF Above
<1>5. k \in T
  <2> SUFFICES ASSUME k \notin T PROVE FALSE
    OBVIOUS
  <2>1. k > 0 /\ \A i \in T : i <= k - 1
    BY <1>1, <1>4
  <2>2. k - 1 \in Above
    BY <1>4, <2>1 DEF Above
  <2> QED BY <1>3, <1>4, <2>2
<1> HIDE DEF T
<1>6. Max(T) \in T /\ \A i \in T : i <= Max(T)
  BY <1>1, <1>4, <1>5 DEF Max
<1> QED BY <1>1, <1>6 DEF T

LEMMA ChunksFinite ==
    ASSUME NEW D \in SUBSET Chunks
    PROVE  IsFiniteSet(D)
<1>1. IsFiniteSet(1 .. MaxIndex)
  BY FS_Interval, PlaceAssumption
<1> QED BY <1>1, FS_Subset DEF Chunks

LEMMA RowsWhole ==
    ASSUME NEW ch, Rows(ch)
    PROVE  Whole(Sidecar(ch)) /\ Sidecar(ch).chunks = ch
BY DEF Whole, Sidecar

LEMMA ScannedWhole ==
    ASSUME DOMAIN disk \subseteq Chunks
    PROVE  /\ Whole(Scanned) /\ DOMAIN Scanned.chunks = DOMAIN disk
           /\ \A c \in DOMAIN disk : Scanned.chunks[c].md5 = disk[c]
<1> DEFINE ch == [c \in DOMAIN disk |-> [md5 |-> disk[c], cid |-> "null"]]
<1>1. Rows(ch) /\ DOMAIN ch = DOMAIN disk /\ \A c \in DOMAIN disk : ch[c].md5 = disk[c]
  BY DEF Rows
<1>2. Scanned = Sidecar(ch)
  BY DEF Scanned
<1> HIDE DEF ch
<1> QED BY <1>1, <1>2, RowsWhole

LEMMA EmptyWhole == Whole(EmptySidecar) /\ DOMAIN EmptySidecar.chunks = {}
<1>1. Rows(<<>>) /\ DOMAIN <<>> = {}
  BY DEF Rows
<1> QED BY <1>1, RowsWhole DEF EmptySidecar

LEMMA MigratedWhole ==
    ASSUME SideOk, side # None
    PROVE  Whole(Migrated(side)) /\ Migrated(side).chunks = side.chunks
<1>1. CASE side.legacy = TRUE
  BY <1>1, RowsWhole DEF Migrated, SideOk
<1>2. CASE Whole(side) /\ side.legacy # TRUE
  <2>1. side.legacy = FALSE
    BY <1>2 DEF Whole
  <2> QED BY <1>2, <2>1 DEF Migrated
<1> QED BY <1>1, <1>2 DEF SideOk

(* The three patches keep the indexes those of the table.                  *)
LEMMA UpdatedWhole ==
    ASSUME NEW s, NEW c \in Chunks, NEW x \in Md5s, Whole(s)
    PROVE  Whole(Updated(s, c, x)) /\ DOMAIN Updated(s, c, x).chunks = DOMAIN s.chunks \cup {c}
<1> DEFINE ch == [d \in DOMAIN s.chunks \cup {c} |->
                    IF d = c THEN [md5 |-> x, cid |-> "null"] ELSE s.chunks[d]]
           bm == [y \in Md5s |-> IF y = x THEN s.byMd5[y] \cup {c} ELSE s.byMd5[y] \ {c}]
           bc == [i \in DOMAIN s.byCid |-> IF i = "null" THEN s.byCid[i] \cup {c} ELSE s.byCid[i] \ {c}]
<1>1. s.byMd5 = ByMd5(s.chunks) /\ s.byCid = ByConfigId(s.chunks)
  BY DEF Whole
<1>2. Rows(ch)
  BY DEF Rows, Whole
<1>3. bm = ByMd5(ch)
  BY <1>1 DEF ByMd5
<1>4. bc = ByConfigId(ch)
  BY <1>1 DEF ByConfigId
<1>5. /\ DOMAIN Updated(s, c, x) = {"chunks", "byMd5", "byCid", "legacy"}
      /\ Updated(s, c, x).chunks = ch /\ Updated(s, c, x).byMd5 = bm
      /\ Updated(s, c, x).byCid = bc /\ Updated(s, c, x).legacy = FALSE
  BY DEF Whole, Updated
<1>7. DOMAIN ch = DOMAIN s.chunks \cup {c}
  OBVIOUS
<1> HIDE DEF ch, bm, bc
<1> QED BY <1>2, <1>3, <1>4, <1>5, <1>7 DEF Whole

LEMMA RemovedWhole ==
    ASSUME NEW s, NEW gone, Whole(s)
    PROVE  Whole(Removed(s, gone))
<1> DEFINE ch == [d \in DOMAIN s.chunks \ gone |-> s.chunks[d]]
           bm == [y \in Md5s |-> s.byMd5[y] \ gone]
           bc == [i \in DOMAIN s.byCid |-> s.byCid[i] \ gone]
<1>1. s.byMd5 = ByMd5(s.chunks) /\ s.byCid = ByConfigId(s.chunks)
  BY DEF Whole
<1>2. Rows(ch)
  BY DEF Rows, Whole
<1>3. bm = ByMd5(ch)
  BY <1>1 DEF ByMd5
<1>4. bc = ByConfigId(ch)
  BY <1>1 DEF ByConfigId
<1>5. /\ DOMAIN Removed(s, gone) = {"chunks", "byMd5", "byCid", "legacy"}
      /\ Removed(s, gone).chunks = ch /\ Removed(s, gone).byMd5 = bm
      /\ Removed(s, gone).byCid = bc /\ Removed(s, gone).legacy = FALSE
  BY DEF Whole, Removed, Restrict
<1> HIDE DEF ch, bm, bc
<1> QED BY <1>2, <1>3, <1>4, <1>5 DEF Whole

LEMMA AssignedWhole ==
    ASSUME NEW s, NEW c \in DOMAIN s.chunks, Whole(s)
    PROVE  Whole(Assigned(s, c))
<1> DEFINE ch == [d \in DOMAIN s.chunks |->
                    IF d = c THEN [md5 |-> s.chunks[d].md5, cid |-> "cfg"] ELSE s.chunks[d]]
           bc == [i \in DOMAIN s.byCid |-> IF i = "cfg" THEN s.byCid[i] \cup {c} ELSE s.byCid[i] \ {c}]
<1>1. s.byMd5 = ByMd5(s.chunks) /\ s.byCid = ByConfigId(s.chunks)
  BY DEF Whole
<1>2. Rows(ch)
  BY DEF Rows, Whole
<1>3. s.byMd5 = ByMd5(ch)
  BY <1>1 DEF ByMd5
<1>4. bc = ByConfigId(ch)
  BY <1>1 DEF ByConfigId
<1>5. [s.chunks EXCEPT ![c].cid = "cfg"] = ch
  <2>1. s.chunks = [d \in DOMAIN s.chunks |-> s.chunks[d]]
    BY DEF Whole, Rows
  <2>2. [s.chunks[c] EXCEPT !.cid = "cfg"] = [md5 |-> s.chunks[c].md5, cid |-> "cfg"]
    BY DEF Whole, Rows
  <2> QED BY <2>1, <2>2
<1>6. /\ DOMAIN Assigned(s, c) = {"chunks", "byMd5", "byCid", "legacy"}
      /\ Assigned(s, c).chunks = ch /\ Assigned(s, c).byMd5 = s.byMd5
      /\ Assigned(s, c).byCid = bc /\ Assigned(s, c).legacy = FALSE
  BY <1>5 DEF Whole, Assigned
<1> HIDE DEF ch, bc
<1> QED BY <1>2, <1>3, <1>4, <1>6 DEF Whole

-----------------------------------------------------------------------------
(* What one thread's step leaves to the others, and what a read sees.      *)
Only(t) == /\ th' = [u \in Threads |-> th'[u]] /\ DOMAIN th'[t] = DOMAIN Idle
           /\ \A u \in Threads \ {t} : th'[u] = th[u]

LEMMA ThreadNames ==
    /\ Workers \cup Fixed = Threads /\ Workers \cap Fixed = {}
    /\ \A t \in Threads : t \in Workers \/ t = "main" \/ t = "reader" \/ t = "cleaner" \/ t = "boot"
BY PlaceAssumption DEF Threads, Fixed

LEMMA LoadSees ==
    ASSUME TypesOk, SideOk, NEW t \in Threads, NEW names, Load(t, names)
    PROVE  /\ Only(t)
           /\ th'[t].pc \in {"build", th[t].ret} /\ th'[t].ret = th[t].ret
           /\ th'[t].c = th[t].c /\ th'[t].kind = th[t].kind /\ th'[t].names = names
           /\ Whole(th'[t].view) /\ DOMAIN th'[t].view.chunks = DOMAIN disk
           /\ th'[t].pc # "build" => side # None /\ DOMAIN side.chunks = DOMAIN disk
<1> DEFINE seen == IF side = None \/ Stale(side) THEN Scanned ELSE Migrated(side)
           must == side = None \/ side.legacy \/ Stale(side)
<1>1. Whole(seen) /\ DOMAIN seen.chunks = DOMAIN disk
  BY ScannedWhole, MigratedWhole DEF Stale, TypesOk
<1>2. ~must => side # None /\ DOMAIN side.chunks = DOMAIN disk
  BY DEF Stale
<1> HIDE DEF seen, must
<1>3. th' = [th EXCEPT ![t].view = seen, ![t].names = names,
                        ![t].pc = IF must THEN "build" ELSE th[t].ret]
  BY DEF Load, seen, must
<1>4. /\ th'[t].pc = (IF must THEN "build" ELSE th[t].ret) /\ th'[t].ret = th[t].ret
      /\ th'[t].c = th[t].c /\ th'[t].kind = th[t].kind /\ th'[t].names = names
      /\ th'[t].view = seen
  BY <1>3 DEF TypesOk, Idle
<1>5. Only(t)
  BY <1>3 DEF TypesOk, Only, Idle
<1> QED BY <1>1, <1>2, <1>4, <1>5

(* A write that succeeds with what is true of the directory makes every    *)
(* doubt about the sidecar moot.                                           *)
LEMMA WriteTells ==
    ASSUME TypesOk, Fresh', disk' = disk, NEW s, side' = s, outrun' = (outrun \/ Untrue(s))
    PROVE  SideTells'
BY DEF TypesOk, Fresh, Untrue, SideTells, GoneOk, SeedOk, FetchOk, RowOk

(* A write that fails costs one failure, and takes back at most one of the *)
(* two excuses for a wrong row.                                            *)
LEMMA FailTells ==
    ASSUME TypesOk, TypesOk', SideTells, Fresh,
           disk' = disk, side' = side, outrun' = outrun, n'.fail = n.fail + 1,
           \A w \in Workers : th'[w].pc = "fetch" => th[w].pc = "fetch" /\ th'[w].c = th[w].c,
           \/ \A c \in Chunks : CleanerOwes(c) => CleanerOwes(c)'
           \/ \A c \in Chunks : Writing(c) => Writing(c)',
           th'["main"].pc = "seed" =>
             /\ th'["main"].view = th["main"].view
             /\ \/ th["main"].pc = "seed"
                \/ th["main"].pc = "build" /\ \A c : CleanerOwes(c) => CleanerOwes(c)'
    PROVE  SideTells'
<1> SUFFICES ASSUME ~outrun, n.fail <= 1, side # None
             PROVE  (GoneOk /\ SeedOk /\ FetchOk /\ RowOk)'
  BY DEF SideTells, TypesOk
<1>1. GoneOk /\ SeedOk /\ FetchOk /\ RowOk
  BY DEF SideTells, TypesOk
<1>2. GoneOk'
  BY DEF GoneOk, TypesOk
<1>3. \A c : Doubted(c) => n'.fail >= 2
  BY DEF Doubted, TypesOk
<1>4. SeedOk'
  <2> SUFFICES ASSUME th'["main"].pc = "seed", NEW c \in DOMAIN side.chunks \ DOMAIN th["main"].view.chunks
               PROVE  Doubted(c)'
    BY DEF SeedOk
  <2>1. CASE th["main"].pc = "seed"
    BY <1>1, <1>3, <2>1 DEF SeedOk, Doubted
  <2>2. CASE th["main"].pc = "build" /\ \A d : CleanerOwes(d) => CleanerOwes(d)'
    <3>1. c \in DOMAIN side.chunks \ DOMAIN disk
      BY <2>2 DEF Fresh
    <3>2. CASE n.fail >= 1
      BY <3>2 DEF Doubted, TypesOk
    <3>3. CASE CleanerOwes(c)
      <4>1. CleanerOwes(c)'
        BY <2>2, <3>3
      <4>2. n'.fail >= 1
        BY DEF TypesOk
      <4> QED BY <4>1, <4>2 DEF Doubted
    <3> QED BY <1>1, <3>1, <3>2, <3>3 DEF GoneOk
  <2> QED BY <2>1, <2>2
<1>5. FetchOk'
  BY <1>1, <1>3 DEF FetchOk, Doubted
<1>6. RowOk'
  <2> SUFFICES ASSUME NEW c \in DOMAIN side.chunks \cap DOMAIN disk, disk[c] # side.chunks[c].md5
               PROVE  (Writing(c) /\ Doubted(c))' \/ (n'.fail >= 2 /\ CleanerOwes(c)')
    BY DEF RowOk
  <2>1. Writing(c) /\ CleanerOwes(c) /\ n'.fail >= 2 /\ c \in Chunks
    BY <1>1, <1>3 DEF RowOk, Doubted, TypesOk
  <2> QED BY <2>1 DEF Doubted
<1> QED BY <1>2, <1>4, <1>5, <1>6

(* Without a write, a failure or a chunk come or gone.                     *)
LEMMA QuietTells ==
    ASSUME TypesOk, SideTells,
           disk' = disk, side' = side, outrun => outrun', n'.fail = n.fail,
           \A w \in Workers : th'[w].pc = "fetch" => th[w].pc = "fetch" /\ th'[w].c = th[w].c,
           \A c \in DOMAIN side.chunks : CleanerOwes(c) => CleanerOwes(c)',
           \A c \in DOMAIN side.chunks : Writing(c) => Writing(c)',
           th'["main"].pc = "seed" =>
             \/ th["main"].pc = "seed" /\ th'["main"].view = th["main"].view
             \/ DOMAIN side.chunks \subseteq DOMAIN th'["main"].view.chunks
    PROVE  SideTells'
<1> SUFFICES ASSUME ~outrun, n.fail <= 2, side # None
             PROVE  (GoneOk /\ SeedOk /\ FetchOk /\ RowOk)'
  BY DEF SideTells, TypesOk
<1>1. GoneOk /\ SeedOk /\ FetchOk /\ RowOk
  BY DEF SideTells, TypesOk
<1>2. \A c \in DOMAIN side.chunks : Doubted(c) => Doubted(c)'
  BY DEF Doubted
<1>3. GoneOk'
  BY <1>1 DEF GoneOk
<1>4. SeedOk'
  BY <1>1, <1>2 DEF SeedOk
<1>5. FetchOk'
  BY <1>1, <1>2 DEF FetchOk
<1>6. RowOk'
  BY <1>1, <1>2 DEF RowOk
<1> QED BY <1>3, <1>4, <1>5, <1>6

(* The root entry tells what it told while nobody writes it.               *)
LEMMA QuietRoot ==
    ASSUME RootTells, root' = root, disk' = disk, outrun => outrun',
           missed => missed', Owed => Owed' \/ missed'
    PROVE  RootTells'
BY DEF RootTells, Told

LEMMA OwedStays ==
    ASSUME NEW t \in Threads, Only(t), Owed,
           t \in Workers /\ th[t].pc \in {"glob", "build", "root"}
           => th'[t].pc \in {"glob", "build", "root"}
    PROVE  Owed'
BY ThreadNames DEF Owed, Only

-----------------------------------------------------------------------------
(* One lemma per action.                                                   *)
LEMMA GetKeeps ==
    ASSUME IInv, NEW t \in Threads, Get(t)
    PROVE  IInv'
<1>1. /\ Only(t) /\ th[t].pc = "load"
      /\ th'[t].pc \in {"build", th[t].ret} /\ th'[t].ret = th[t].ret
      /\ th'[t].c = th[t].c /\ th'[t].kind = th[t].kind
      /\ Whole(th'[t].view) /\ DOMAIN th'[t].view.chunks = DOMAIN disk
      /\ th'[t].pc # "build" => side # None /\ DOMAIN side.chunks = DOMAIN disk
  BY LoadSees DEF IInv, Get, At
<1>2. \/ t = "main" /\ th[t].ret = "seed"
      \/ t = "cleaner" /\ th[t].ret = "unlink"
  BY <1>1, ThreadNames DEF IInv, PcOk, AtWork, Removing
<1>3. /\ disk' = disk /\ side' = side /\ root' = root /\ run' = run
      /\ n' = n /\ outrun' = outrun /\ missed' = missed
  BY DEF Get
<1>4. TypesOk'
  BY <1>1, <1>3 DEF IInv, TypesOk, Only
<1>5. PcOk'
  BY <1>1, <1>2, ThreadNames DEF IInv, PcOk, Only, Fixed
<1>6. SideOk'
  BY <1>3 DEF IInv, SideOk, Rows, Whole, ByMd5, ByConfigId
<1>7. ViewOk'
  BY <1>1, <1>2, ThreadNames DEF IInv, ViewOk, Only, Fixed, TypesOk, AtWork
<1>8. Fresh'
  BY <1>1, <1>2, <1>3, ThreadNames DEF IInv, Fresh, Only, Fixed
<1>9. RootTells'
  BY <1>1, <1>2, <1>3, QuietRoot, OwedStays, ThreadNames, PlaceAssumption DEF IInv, Fixed
<1>10. SideTells'
  <2>1. \A c : CleanerOwes(c) => CleanerOwes(c)'
    BY <1>1, <1>2, ThreadNames DEF CleanerOwes, Only, Removing, Fixed
  <2>2. \A c : Writing(c) => Writing(c)'
    BY <1>1, <1>2, ThreadNames DEF Writing, Only, Fixed
  <2>3. \A w \in Workers : th'[w] = th[w]
    BY <1>1, <1>2, ThreadNames DEF Only, Fixed
  <2>4. th'["main"].pc = "seed" =>
             \/ th["main"].pc = "seed" /\ th'["main"].view = th["main"].view
             \/ DOMAIN side.chunks \subseteq DOMAIN th'["main"].view.chunks
    BY <1>1, <1>2, ThreadNames DEF Only, Fixed
  <2> QED BY <1>3, <2>1, <2>2, <2>3, <2>4, QuietTells DEF IInv
<1> QED BY <1>4, <1>5, <1>6, <1>7, <1>8, <1>9, <1>10 DEF IInv

LEMMA RootScanKeeps ==
    ASSUME IInv, NEW t \in Threads, RootScan(t)
    PROVE  IInv'
<1>1. /\ Only(t) /\ th[t].pc = "glob"
      /\ th'[t].pc \in {"build", th[t].ret} /\ th'[t].ret = th[t].ret
      /\ th'[t].c = th[t].c /\ th'[t].kind = th[t].kind
      /\ Whole(th'[t].view)
  BY LoadSees DEF IInv, RootScan, At
<1>2. t # "main" /\ t # "boot" /\ th[t].ret = "root"
  BY <1>1, ThreadNames DEF IInv, PcOk
<1>3. /\ disk' = disk /\ side' = side /\ root' = root /\ run' = run
      /\ n' = n /\ outrun' = outrun /\ missed' = missed
  BY DEF RootScan
<1>4. TypesOk'
  BY <1>1, <1>3 DEF IInv, TypesOk, Only
<1>5. PcOk'
  BY <1>1, <1>2, ThreadNames DEF IInv, PcOk, Only, Fixed, AtWork
<1>6. SideOk'
  BY <1>3 DEF IInv, SideOk, Rows, Whole, ByMd5, ByConfigId
<1>7. ViewOk'
  BY <1>1, <1>2, ThreadNames DEF IInv, ViewOk, Only, Fixed, TypesOk, AtWork
<1>8. Fresh'
  BY <1>1, <1>2, <1>3, ThreadNames DEF IInv, Fresh, Only, Fixed
<1>9. RootTells'
  BY <1>1, <1>2, <1>3, QuietRoot, OwedStays, ThreadNames, PlaceAssumption DEF IInv, Fixed
<1>10. SideTells'
  <2>1. \A c : CleanerOwes(c) => CleanerOwes(c)'
    BY <1>1, <1>2, ThreadNames DEF CleanerOwes, Only, Removing, Fixed
  <2>2. \A c : Writing(c) => Writing(c)'
    BY <1>1, <1>2, ThreadNames DEF Writing, Only, Fixed, AtWork
  <2>3. \A w \in Workers : th'[w].pc = "fetch" => th[w].pc = "fetch" /\ th'[w].c = th[w].c
    BY <1>1, <1>2, ThreadNames DEF Only
  <2>4. th'["main"] = th["main"]
    BY <1>1, <1>2, ThreadNames DEF Only, Fixed
  <2> QED BY <1>3, <2>1, <2>2, <2>3, <2>4, QuietTells DEF IInv
<1> QED BY <1>4, <1>5, <1>6, <1>7, <1>8, <1>9, <1>10 DEF IInv

(* A write of a whole sidecar, or its failure.                             *)
LEMMA WriteOutcome ==
    ASSUME TypesOk, SideOk, NEW s, Whole(s), WriteSidecar(s)
    PROVE  /\ SideOk' /\ DOMAIN n' = DOMAIN n /\ n'.fail \in Nat /\ outrun' \in BOOLEAN
           /\ outrun => outrun'
           /\ \/ side' = s /\ outrun' = (outrun \/ Untrue(s))
              \/ side' = side /\ outrun' = outrun /\ n'.fail = n.fail + 1
<1>1. CASE side' = s /\ outrun' = (outrun \/ Untrue(s)) /\ n' = n
  <2>1. SideOk'
    BY <1>1 DEF SideOk, Whole
  <2> QED BY <1>1, <2>1 DEF TypesOk, Untrue
<1>2. CASE n' = [n EXCEPT !.fail = @ + 1] /\ side' = side /\ outrun' = outrun
  <2>1. SideOk'
    BY <1>2 DEF SideOk, Rows, Whole, ByMd5, ByConfigId
  <2> QED BY <1>2, <2>1 DEF TypesOk
<1> QED BY <1>1, <1>2 DEF WriteSidecar

LEMMA BuildKeeps ==
    ASSUME IInv, NEW t \in Threads, Build(t)
    PROVE  IInv'
<1>1. /\ Only(t) /\ th[t].pc = "build"
      /\ th'[t].pc = th[t].ret /\ th'[t].ret = th[t].ret
      /\ th'[t].c = th[t].c /\ th'[t].kind = th[t].kind /\ th'[t].names = th[t].names
      /\ th'[t].view = th[t].view /\ Whole(th[t].view)
  BY DEF IInv, TypesOk, ViewOk, Only, Idle, Build, Go, At
<1>2. \/ t = "main" /\ th[t].ret = "seed"
      \/ t = "cleaner" /\ th[t].ret = "unlink"
      \/ t # "main" /\ t # "boot" /\ th[t].ret = "root"
  BY <1>1, ThreadNames, PlaceAssumption DEF IInv, PcOk
<1>3. /\ disk' = disk /\ root' = root /\ run' = run /\ missed' = missed
      /\ SideOk' /\ DOMAIN n' = DOMAIN n /\ n'.fail \in Nat /\ outrun' \in BOOLEAN
      /\ outrun => outrun'
      /\ \/ side' = th[t].view /\ outrun' = (outrun \/ Untrue(th[t].view))
         \/ side' = side /\ outrun' = outrun /\ n'.fail = n.fail + 1
  BY <1>1, WriteOutcome DEF Build, IInv
<1>4. TypesOk'
  BY <1>1, <1>3 DEF IInv, TypesOk, Only
<1>5. PcOk'
  BY <1>1, <1>2, ThreadNames DEF IInv, PcOk, Only, Fixed, AtWork
<1>6. DOMAIN th[t].view.chunks \subseteq Chunks
  BY <1>1 DEF Whole, Rows
<1>7. ViewOk'
  BY <1>1, <1>2, <1>6, ThreadNames DEF IInv, ViewOk, Only, Fixed, TypesOk, AtWork
<1>8. Fresh'
  BY <1>1, <1>2, <1>3, ThreadNames DEF IInv, Fresh, Only, Fixed
<1>9. RootTells'
  BY <1>1, <1>2, <1>3, QuietRoot, OwedStays, ThreadNames, PlaceAssumption DEF IInv, Fixed
<1>10. SideTells'
  <2>1. \A c : CleanerOwes(c) => CleanerOwes(c)'
    BY <1>1, <1>2, ThreadNames DEF CleanerOwes, Only, Removing, Fixed
  <2>3. \A w \in Workers : th'[w].pc = "fetch" => th[w].pc = "fetch" /\ th'[w].c = th[w].c
    BY <1>1, <1>2, ThreadNames, PlaceAssumption DEF Only
  <2>4. th'["main"].pc = "seed" => /\ th'["main"].view = th["main"].view
                                   /\ th["main"].pc \in {"seed", "build"}
    BY <1>1, <1>2, ThreadNames DEF Only, Fixed
  <2>5. CASE side' = th[t].view /\ outrun' = (outrun \/ Untrue(th[t].view))
    BY <1>3, <1>8, <2>5, WriteTells DEF IInv
  <2>6. CASE side' = side /\ outrun' = outrun /\ n'.fail = n.fail + 1
    BY <1>3, <1>4, <2>1, <2>3, <2>4, <2>6, FailTells DEF IInv
  <2> QED BY <1>3, <2>5, <2>6
<1> QED BY <1>3, <1>4, <1>5, <1>7, <1>8, <1>9, <1>10 DEF IInv

(* A step that only moves a thread which is neither reading nor writing.   *)
LEMMA MoveKeeps ==
    ASSUME IInv, NEW t \in Threads, Only(t), PcOk',
           UNCHANGED <<disk, side, root>>, DOMAIN n' = DOMAIN n, n'.fail = n.fail,
           DOMAIN run' = DOMAIN run, run'.md5 \in Md5s, outrun' = outrun, missed' = missed,
           th[t].pc \notin {"glob", "root", "build"} \cup Removing,
           th'[t].pc \notin {"build", "seed", "fetch"},
           th[t].pc \in AtWork => th'[t].pc \in AtWork /\ th'[t].c = th[t].c,
           t \in Workers => th'[t].pc \in {"idle"} \cup AtWork /\ (th'[t].pc # "idle" => th[t].pc \in AtWork),
           th'[t].pc \in {"updating", "removing", "assigning"} => Whole(th'[t].view),
           t = "boot" /\ th'[t].pc = "assigning" => th'[t].c \in DOMAIN th'[t].view.chunks
    PROVE  IInv'
<1>4. TypesOk'
  BY DEF IInv, TypesOk, Only
<1>6. SideOk'
  BY DEF IInv, SideOk, Rows, Whole, ByMd5, ByConfigId
<1>7. ViewOk'
  <2>1. \A u \in Threads :
          th'[u].pc \in {"build", "updating", "removing", "assigning"} => Whole(th'[u].view)
    BY DEF IInv, ViewOk, Only
  <2>2. /\ th'["main"].pc = "seed" => DOMAIN th'["main"].view.chunks \subseteq Chunks
        /\ th'["boot"].pc = "assigning" => th'["boot"].c \in DOMAIN th'["boot"].view.chunks
    BY ThreadNames DEF IInv, ViewOk, Only, Fixed
  <2>3. \A w \in Workers : th'[w].pc \in {"fetch"} \cup AtWork => th'[w].c \in Chunks
    BY ThreadNames DEF IInv, ViewOk, Only, AtWork
  <2> QED BY <2>1, <2>2, <2>3 DEF ViewOk
<1>8. Fresh'
  BY ThreadNames DEF IInv, Fresh, Only, Fixed
<1>9. RootTells'
  BY QuietRoot, OwedStays DEF IInv
<1>10. SideTells'
  <2>1. \A c : CleanerOwes(c) => CleanerOwes(c)'
    BY ThreadNames DEF CleanerOwes, Only, Fixed
  <2>2. \A c : Writing(c) => Writing(c)'
    BY ThreadNames DEF Writing, Only
  <2>3. \A w \in Workers : th'[w].pc = "fetch" => th[w].pc = "fetch" /\ th'[w].c = th[w].c
    BY ThreadNames DEF Only
  <2>4. th'["main"].pc = "seed" => th["main"].pc = "seed" /\ th'["main"].view = th["main"].view
    BY ThreadNames DEF Only, Fixed
  <2> QED BY <2>1, <2>2, <2>3, <2>4, QuietTells DEF IInv
<1> QED BY <1>4, <1>6, <1>7, <1>8, <1>9, <1>10 DEF IInv

LEMMA StartRunKeeps ==
    ASSUME IInv, StartRun
    PROVE  IInv'
<1> DEFINE t == "main"
<1>1. /\ t \in Threads /\ Only(t) /\ th[t].pc = "idle"
      /\ th'[t].pc = "load" /\ th'[t].ret = "seed"
  BY ThreadNames DEF IInv, TypesOk, StartRun, Only, Idle, At, Fixed
<1>2. /\ UNCHANGED <<disk, side, root>> /\ DOMAIN n' = DOMAIN n /\ n'.fail = n.fail
      /\ DOMAIN run' = DOMAIN run /\ run'.md5 \in Md5s /\ outrun' = outrun
      /\ missed' = missed
  BY DEF IInv, TypesOk, StartRun
<1>3. PcOk'
  BY <1>1, ThreadNames DEF IInv, PcOk, Only, Fixed
<1> QED BY <1>1, <1>2, <1>3, MoveKeeps, ThreadNames DEF AtWork, Removing, Fixed

LEMMA EndRunKeeps ==
    ASSUME IInv, EndRun
    PROVE  IInv'
<1> DEFINE t == "main"
<1>1. /\ t \in Threads /\ Only(t) /\ th[t].pc = "join" /\ th'[t].pc = "idle"
  BY ThreadNames DEF IInv, TypesOk, EndRun, Only, Idle, At, Fixed
<1>2. /\ UNCHANGED <<disk, side, root>> /\ n' = n /\ run' = run /\ outrun' = outrun /\ missed' = missed
  BY DEF EndRun
<1>3. PcOk'
  BY <1>1, ThreadNames DEF IInv, PcOk, Only, Fixed, EndRun, At
<1> QED BY <1>1, <1>2, <1>3, MoveKeeps, ThreadNames DEF AtWork, Removing, Fixed, IInv, TypesOk

LEMMA FetchFailsKeeps ==
    ASSUME IInv, NEW w \in Workers, FetchFails(w)
    PROVE  IInv'
<1>1. w \in Threads /\ Only(w) /\ th[w].pc = "fetch" /\ th'[w].pc = "idle"
  BY ThreadNames DEF IInv, TypesOk, FetchFails, Only, Idle, At
<1>2. /\ UNCHANGED <<disk, side, root>> /\ n' = n /\ run' = run /\ outrun' = outrun /\ missed' = missed
  BY DEF FetchFails
<1>3. PcOk'
  BY <1>1, ThreadNames DEF IInv, PcOk, Only, Fixed
<1> QED BY <1>1, <1>2, <1>3, MoveKeeps, ThreadNames DEF AtWork, Removing, Fixed, IInv, TypesOk

LEMMA UpdateLoadKeeps ==
    ASSUME IInv, NEW w \in Workers, UpdateLoad(w)
    PROVE  IInv'
<1> DEFINE s == IF side = None THEN EmptySidecar ELSE Migrated(side)
<1>1. Whole(s)
  BY EmptyWhole, MigratedWhole DEF IInv
<1> HIDE DEF s
<1>2. /\ w \in Threads /\ Only(w) /\ th[w].pc = "update" /\ th'[w].pc = "updating"
      /\ th'[w].c = th[w].c /\ th'[w].view = s
  BY ThreadNames DEF IInv, TypesOk, UpdateLoad, Saw, Only, Idle, At, s
<1>3. /\ UNCHANGED <<disk, side, root>> /\ n' = n /\ run' = run /\ outrun' = outrun /\ missed' = missed
  BY DEF UpdateLoad
<1>4. PcOk'
  BY <1>2, ThreadNames DEF IInv, PcOk, Only, Fixed, AtWork
<1> QED BY <1>1, <1>2, <1>3, <1>4, MoveKeeps, ThreadNames DEF AtWork, Removing, Fixed, IInv, TypesOk

LEMMA StatusKeeps ==
    ASSUME IInv, Status
    PROVE  IInv'
<1> DEFINE t == "reader"
<1>1. /\ t \in Threads /\ Only(t) /\ th[t].pc = "idle" /\ th'[t].pc = "glob" /\ th'[t].ret = "root"
  BY ThreadNames DEF IInv, TypesOk, Status, Only, Idle, At, Fixed
<1>2. /\ UNCHANGED <<disk, side, root>> /\ DOMAIN n' = DOMAIN n /\ n'.fail = n.fail
      /\ run' = run /\ outrun' = outrun /\ missed' = missed
  BY DEF Status, IInv, TypesOk
<1>3. PcOk'
  BY <1>1, ThreadNames DEF IInv, PcOk, Only, Fixed
<1> QED BY <1>1, <1>2, <1>3, MoveKeeps, ThreadNames DEF AtWork, Removing, Fixed, IInv, TypesOk

LEMMA StartDeleteKeeps ==
    ASSUME IInv, StartDelete
    PROVE  IInv'
<1> DEFINE t == "cleaner"
<1>1. /\ t \in Threads /\ Only(t) /\ th[t].pc = "idle"
      /\ th'[t].pc \in {"load", "unlink"} /\ th'[t].ret = "unlink"
  BY ThreadNames DEF IInv, TypesOk, StartDelete, Only, Idle, At, Fixed
<1>2. /\ UNCHANGED <<disk, side, root>> /\ DOMAIN n' = DOMAIN n /\ n'.fail = n.fail
      /\ run' = run /\ outrun' = outrun /\ missed' = missed
  BY DEF StartDelete, IInv, TypesOk
<1>3. PcOk'
  BY <1>1, ThreadNames DEF IInv, PcOk, Only, Fixed
<1> QED BY <1>1, <1>2, <1>3, MoveKeeps, ThreadNames DEF AtWork, Removing, Fixed, IInv, TypesOk

LEMMA ReassociateKeeps ==
    ASSUME IInv, Reassociate
    PROVE  IInv'
<1> DEFINE t == "boot"
<1>1. /\ UNCHANGED <<disk, side, root>> /\ DOMAIN n' = DOMAIN n /\ n'.fail = n.fail
      /\ run' = run /\ outrun' = outrun /\ missed' = missed
  BY DEF Reassociate, IInv, TypesOk
<1>2. /\ t \in Threads /\ Only(t) /\ th[t].pc = "idle" /\ th'[t].pc \in {"idle", "assign"}
  <2>1. CASE th' = th
    BY <2>1, ThreadNames DEF IInv, TypesOk, Reassociate, Only, At, Fixed
  <2>2. CASE \E names : th' = [th EXCEPT !["boot"] = [Idle EXCEPT !.names = names, !.pc = "assign"]]
    <3>1. PICK names : th' = [th EXCEPT !["boot"] = [Idle EXCEPT !.names = names, !.pc = "assign"]]
      BY <2>2
    <3>2. t \in Threads /\ Only(t) /\ th'[t].pc = "assign"
      BY <3>1, ThreadNames DEF IInv, TypesOk, Only, Idle, Fixed
    <3> QED BY <3>2 DEF Reassociate, At
  <2> QED BY <2>1, <2>2 DEF Reassociate
<1>3. PcOk'
  BY <1>2, ThreadNames DEF IInv, PcOk, Only, Fixed
<1> QED BY <1>1, <1>2, <1>3, MoveKeeps, ThreadNames DEF AtWork, Removing, Fixed, IInv, TypesOk

LEMMA AssignLoadKeeps ==
    ASSUME IInv, AssignLoad
    PROVE  IInv'
<1> DEFINE t == "boot"
<1>1. /\ UNCHANGED <<disk, side, root>> /\ n' = n /\ run' = run /\ outrun' = outrun /\ missed' = missed
  BY DEF AssignLoad
<1>2. /\ t \in Threads /\ Only(t) /\ th[t].pc = "assign" /\ th'[t].pc \in {"assign", "assigning"}
      /\ th'[t].pc = "assigning" => Whole(th'[t].view) /\ th'[t].c \in DOMAIN th'[t].view.chunks
  <2>1. CASE \E c : th' = [th EXCEPT !["boot"].names = @ \ {c}, !["boot"].kind = "failed"]
    <3>1. PICK c : th' = [th EXCEPT !["boot"].names = @ \ {c}, !["boot"].kind = "failed"]
      BY <2>1
    <3>2. t \in Threads /\ Only(t) /\ th'[t].pc = th[t].pc
      BY <3>1, ThreadNames DEF IInv, TypesOk, Only, Fixed, Idle
    <3> QED BY <3>2 DEF AssignLoad, At
  <2>2. CASE \E c \in DOMAIN side.chunks :
                /\ side # None
                /\ th' = [th EXCEPT !["boot"].c = c, !["boot"].view = Migrated(side),
                                    !["boot"].pc = "assigning"]
    <3>1. Whole(Migrated(side)) /\ Migrated(side).chunks = side.chunks
      BY <2>2, MigratedWhole DEF IInv
    <3>2. PICK c \in DOMAIN side.chunks :
                th' = [th EXCEPT !["boot"].c = c, !["boot"].view = Migrated(side),
                                 !["boot"].pc = "assigning"]
      BY <2>2
    <3>3. /\ t \in Threads /\ Only(t) /\ th'[t].pc = "assigning"
          /\ th'[t].view = Migrated(side) /\ th'[t].c = c
      BY <3>2, ThreadNames DEF IInv, TypesOk, Only, Fixed, Idle
    <3> QED BY <3>1, <3>2, <3>3 DEF AssignLoad, At
  <2> QED BY <2>1, <2>2 DEF AssignLoad
<1>3. PcOk'
  BY <1>2, ThreadNames DEF IInv, PcOk, Only, Fixed
<1> QED BY <1>1, <1>2, <1>3, MoveKeeps, ThreadNames DEF AtWork, Removing, Fixed, IInv, TypesOk

LEMMA EndReassociateKeeps ==
    ASSUME IInv, EndReassociate
    PROVE  IInv'
<1> DEFINE t == "boot"
<1>1. /\ t \in Threads /\ Only(t) /\ th[t].pc = "assign" /\ th'[t].pc = "over"
  BY ThreadNames DEF IInv, TypesOk, EndReassociate, Only, Idle, At, Fixed
<1>2. /\ UNCHANGED <<disk, side, root>> /\ n' = n /\ run' = run /\ outrun' = outrun /\ missed' = missed
  BY DEF EndReassociate
<1>3. PcOk'
  BY <1>1, ThreadNames DEF IInv, PcOk, Only, Fixed
<1> QED BY <1>1, <1>2, <1>3, MoveKeeps, ThreadNames DEF AtWork, Removing, Fixed, IInv, TypesOk

(* The run's first index is beyond every chunk it saw, so beyond every     *)
(* chunk there is; what the sidecar names beyond those is in doubt.        *)
LEMMA SeedKeeps ==
    ASSUME IInv, Seed
    PROVE  IInv'
<1> DEFINE view == th["main"].view
           next == NextIndex(view)
           Goes(w) == w \in Workers /\ next + Place[w] \in Chunks
<1>1. /\ th["main"].pc = "seed" /\ \A w \in Workers : th[w].pc = "idle"
      /\ DOMAIN view.chunks \subseteq Chunks /\ DOMAIN disk \subseteq DOMAIN view.chunks
  BY DEF IInv, PcOk, ViewOk, Fresh, Seed, At
<1>2. next \in Nat /\ \A c \in DOMAIN view.chunks : c < next
  <2>1. /\ Max(DOMAIN view.chunks \cup {0}) \in Nat
        /\ \A c \in DOMAIN view.chunks : c <= Max(DOMAIN view.chunks \cup {0})
    <3>1. DOMAIN view.chunks \in SUBSET Nat /\ IsFiniteSet(DOMAIN view.chunks)
      BY <1>1, ChunksFinite, PlaceAssumption DEF Chunks
    <3> QED BY <3>1, HighestIndex
  <2>2. \A c \in DOMAIN view.chunks : c \in Nat
    BY <1>1, PlaceAssumption DEF Chunks
  <2> QED BY <2>1, <2>2 DEF NextIndex
<1> HIDE DEF next, view
<1>3. run' = [run EXCEPT !.next = next] /\ run'.next = next
  BY DEF Seed, IInv, TypesOk, next, view
<1>4. /\ UNCHANGED <<disk, side, root>> /\ n' = n /\ outrun' = outrun /\ missed' = missed
      /\ DOMAIN run' = DOMAIN run /\ run'.md5 \in Md5s
  BY <1>3 DEF Seed, IInv, TypesOk
<1>5. th' = [t \in Threads |->
                IF t = "main" THEN [Idle EXCEPT !.pc = "join"]
                ELSE IF Goes(t) THEN [Idle EXCEPT !.pc = "fetch", !.c = next + Place[t]]
                ELSE th[t]]
  BY <1>3 DEF Seed
<1> HIDE DEF Goes
<1>6. /\ th' = [t \in Threads |-> th'[t]]
      /\ DOMAIN th'["main"] = DOMAIN Idle /\ th'["main"].pc = "join"
      /\ \A w \in Workers : Goes(w) => /\ DOMAIN th'[w] = DOMAIN Idle /\ th'[w].pc = "fetch"
                                       /\ th'[w].c = next + Place[w]
      /\ \A w \in Workers : ~Goes(w) => th'[w] = th[w]
      /\ th'["reader"] = th["reader"] /\ th'["cleaner"] = th["cleaner"] /\ th'["boot"] = th["boot"]
  BY <1>5, ThreadNames DEF Idle, Fixed, Goes
<1>7. \A w \in Workers : Goes(w) => /\ next + Place[w] \in Chunks
                                    /\ next + Place[w] \notin DOMAIN view.chunks
  BY <1>1, <1>2, PlaceAssumption DEF Goes, Chunks
<1>8. TypesOk'
  <2>1. \A t \in Threads : DOMAIN th'[t] = DOMAIN Idle
    BY <1>6, ThreadNames DEF IInv, TypesOk
  <2> QED BY <1>4, <1>6, <2>1 DEF IInv, TypesOk
<1>9. PcOk'
  BY <1>1, <1>6 DEF IInv, PcOk
<1>10. SideOk'
  BY <1>4 DEF IInv, SideOk, Rows, Whole, ByMd5, ByConfigId
<1>11. ViewOk'
  <2>1. \A u \in Threads :
          th'[u].pc \in {"build", "updating", "removing", "assigning"} => Whole(th'[u].view)
    BY <1>1, <1>6, ThreadNames DEF IInv, ViewOk
  <2>2. \A w \in Workers : th'[w].pc \in {"fetch"} \cup AtWork => th'[w].c \in Chunks
    BY <1>1, <1>6, <1>7 DEF AtWork
  <2> QED BY <1>6, <2>1, <2>2 DEF IInv, ViewOk
<1>12. Fresh'
  <2>1. \A w \in Workers : th'[w].pc = "fetch" => th'[w].c \notin DOMAIN disk
    BY <1>1, <1>6, <1>7
  <2>2. \A v, w \in Workers :
          th'[v].pc = "fetch" /\ th'[w].pc = "fetch" /\ th'[v].c = th'[w].c => v = w
    <3> SUFFICES ASSUME NEW v \in Workers, NEW w \in Workers, Goes(v), Goes(w),
                        next + Place[v] = next + Place[w]
                 PROVE  v = w
      BY <1>1, <1>6
    <3>1. Place[v] = Place[w]
      BY <1>2, PlaceAssumption
    <3> QED BY <3>1, PlaceAssumption
  <2> QED BY <1>4, <1>6, <2>1, <2>2 DEF Fresh
<1>13. RootTells'
  <2>1. ~Owed
    BY <1>1 DEF Owed
  <2> QED BY <1>4, <2>1, QuietRoot DEF IInv
<1>14. SideTells'
  <2> SUFFICES ASSUME ~outrun, n.fail <= 2, side # None
               PROVE  (GoneOk /\ SeedOk /\ FetchOk /\ RowOk)'
    BY <1>4 DEF SideTells
  <2>1. GoneOk /\ SeedOk /\ FetchOk /\ RowOk
    BY DEF IInv, SideTells
  <2>2. \A c : (CleanerOwes(c) <=> CleanerOwes(c)') /\ (Doubted(c) <=> Doubted(c)')
    BY <1>4, <1>6 DEF CleanerOwes, Doubted
  <2>3. \A c : ~Writing(c)
    BY <1>1 DEF Writing, AtWork
  <2>4. GoneOk'
    BY <1>4, <2>1, <2>2 DEF GoneOk
  <2>5. SeedOk'
    BY <1>6 DEF SeedOk
  <2>6. FetchOk'
    BY <1>1, <1>4, <1>6, <1>7, <2>1, <2>2 DEF FetchOk, SeedOk, view
  <2>7. RowOk'
    BY <1>4, <2>1, <2>2, <2>3 DEF RowOk
  <2> QED BY <2>4, <2>5, <2>6, <2>7
<1> QED BY <1>8, <1>9, <1>10, <1>11, <1>12, <1>13, <1>14 DEF IInv

LEMMA WriteChunkKeeps ==
    ASSUME IInv, NEW w \in Workers, WriteChunk(w)
    PROVE  IInv'
<1>0. PICK c : c = th[w].c
  OBVIOUS
<1>1. /\ w \in Threads /\ Only(w) /\ th[w].pc = "fetch" /\ th'[w].pc = "glob"
      /\ th'[w].c = c /\ th'[w].ret = "root"
  BY <1>0, ThreadNames DEF IInv, TypesOk, WriteChunk, Only, Idle, At
<1>2. /\ side' = side /\ root' = root /\ run' = run /\ n' = n /\ outrun' = outrun /\ missed' = missed
      /\ DOMAIN disk' = DOMAIN disk \cup {c} /\ disk' = [d \in DOMAIN disk' |-> disk'[d]]
      /\ \A d \in DOMAIN disk : d # c => disk'[d] = disk[d]
  BY <1>0 DEF WriteChunk
<1>3. c \in Chunks /\ c \notin DOMAIN disk /\ th["main"].pc = "join"
  BY <1>0, <1>1 DEF IInv, ViewOk, Fresh, PcOk
<1>4. TypesOk'
  BY <1>1, <1>2, <1>3 DEF IInv, TypesOk, Only
<1>5. PcOk'
  BY <1>1, <1>3, ThreadNames DEF IInv, PcOk, Only, Fixed, AtWork
<1>6. SideOk'
  BY <1>2 DEF IInv, SideOk, Rows, Whole, ByMd5, ByConfigId
<1>7. ViewOk'
  BY <1>1, <1>3, ThreadNames DEF IInv, ViewOk, Only, Fixed
<1>8. Fresh'
  <2>1. th'["main"] = th["main"]
    BY <1>1, ThreadNames DEF Only, Fixed
  <2>2. \A v \in Workers : th'[v].pc = "fetch" => v # w /\ th'[v] = th[v] /\ th[v].c # c
    BY <1>0, <1>1, ThreadNames DEF Only, IInv, Fresh
  <2> QED BY <1>2, <1>3, <2>1, <2>2 DEF IInv, Fresh
<1>9. RootTells'
  BY <1>1 DEF RootTells, Owed
<1>10. SideTells'
  <2> SUFFICES ASSUME ~outrun, n.fail <= 2, side # None
               PROVE  (GoneOk /\ SeedOk /\ FetchOk /\ RowOk)'
    BY <1>2 DEF SideTells
  <2>1. GoneOk /\ SeedOk /\ FetchOk /\ RowOk
    BY DEF IInv, SideTells
  <2>2. \A d : (CleanerOwes(d) <=> CleanerOwes(d)') /\ (Doubted(d) <=> Doubted(d)')
    BY <1>1, <1>2, ThreadNames DEF CleanerOwes, Doubted, Only, Fixed
  <2>3. /\ \A d : Writing(d) => Writing(d)'
        /\ Writing(c)'
    <3>1. Writing(c)'
      BY <1>1 DEF Writing, AtWork
    <3>2. ASSUME NEW d, Writing(d) PROVE Writing(d)'
      <4>1. PICK v \in Workers : th[v].pc \in AtWork /\ th[v].c = d
        BY <3>2 DEF Writing
      <4>2. th'[v] = th[v]
        BY <1>1, <4>1, ThreadNames DEF Only, AtWork
      <4> QED BY <4>1, <4>2 DEF Writing
    <3> QED BY <3>1, <3>2
  <2>4. GoneOk'
    BY <1>2, <2>1, <2>2 DEF GoneOk
  <2>5. SeedOk'
    BY <1>1, <1>3, ThreadNames DEF SeedOk, Only, Fixed
  <2>6. FetchOk'
    BY <1>1, <1>2, <2>1, <2>2, ThreadNames DEF FetchOk, Only
  <2>7. RowOk'
    <3> SUFFICES ASSUME NEW d \in DOMAIN side.chunks \cap DOMAIN disk'
                 PROVE  \/ disk'[d] = side.chunks[d].md5
                        \/ Writing(d)' /\ Doubted(d)'
                        \/ n'.fail >= 2 /\ CleanerOwes(d)'
      BY <1>2 DEF RowOk
    <3>1. CASE d = c
      BY <1>0, <1>1, <2>1, <2>2, <2>3, <3>1 DEF FetchOk
    <3>2. CASE d # c
      BY <1>2, <2>1, <2>2, <2>3, <3>2 DEF RowOk
    <3> QED BY <3>1, <3>2
  <2> QED BY <2>4, <2>5, <2>6, <2>7
<1> QED BY <1>4, <1>5, <1>6, <1>7, <1>8, <1>9, <1>10 DEF IInv

(* A root entry written from an old scan is an outrun write; any other is  *)
(* that of the directory.                                                  *)
LEMMA RootWriteTells ==
    ASSUME TypesOk, disk' = disk, NEW t, root' = RootEntry(t),
           outrun' = (outrun \/ RootEntry(t) # TrueEntry)
    PROVE  RootTells'
<1> SUFFICES ASSUME ~outrun', root' # None PROVE (\E D \in SUBSET Chunks : Told(D))'
  BY DEF RootTells
<1>1. root' = TrueEntry
  OBVIOUS
<1>2. root'.count = Cardinality(DOMAIN disk) /\ root'.md5s = Range(disk)
  BY <1>1 DEF TrueEntry
<1>3. Told(DOMAIN disk)'
  BY <1>2 DEF Told, TypesOk
<1> QED BY <1>3 DEF TypesOk

LEMMA RootWriteKeeps ==
    ASSUME IInv, NEW t \in Threads, NEW next, RootWrite(t, next),
           \/ t \in Workers /\ next = "update"
           \/ t \in {"reader", "cleaner"} /\ next = "idle"
    PROVE  IInv'
<1>1. /\ Only(t) /\ th[t].pc = "root" /\ th'[t].pc = next
      /\ next = "update" => th'[t].c = th[t].c
  <2>1. CASE next = "idle" /\ th' = [th EXCEPT ![t] = Idle]
    BY <2>1 DEF IInv, TypesOk, Only, Idle, RootWrite, At
  <2>2. CASE next = "update" /\ th' = [th EXCEPT ![t] = [Idle EXCEPT !.pc = next, !.c = th[t].c]]
    BY <2>2 DEF IInv, TypesOk, Only, Idle, RootWrite, At
  <2> QED BY <2>1, <2>2 DEF RootWrite, Finish
<1>2. /\ disk' = disk /\ side' = side /\ run' = run /\ n' = n
      /\ outrun' \in BOOLEAN /\ missed' \in BOOLEAN /\ (outrun => outrun')
      /\ \/ root' = RootEntry(t) /\ outrun' = (outrun \/ RootEntry(t) # TrueEntry)
         \/ root' = root /\ outrun' = outrun /\ missed' = (missed \/ t \in Workers)
  <2>1. outrun \in BOOLEAN /\ missed \in BOOLEAN
    BY DEF IInv, TypesOk
  <2>2. CASE /\ root' = RootEntry(t) /\ outrun' = (outrun \/ RootEntry(t) # TrueEntry)
             /\ missed' = (missed /\ RootEntry(t) # TrueEntry)
    BY <2>1, <2>2 DEF RootWrite
  <2>3. CASE root' = root /\ outrun' = outrun /\ missed' = (missed \/ t \in Workers)
    BY <2>1, <2>3 DEF RootWrite
  <2> QED BY <2>2, <2>3 DEF RootWrite
<1>4. TypesOk'
  BY <1>1, <1>2 DEF IInv, TypesOk, Only
<1>5. PcOk'
  BY <1>1, ThreadNames DEF IInv, PcOk, Only, Fixed, AtWork
<1>6. SideOk'
  BY <1>2 DEF IInv, SideOk, Rows, Whole, ByMd5, ByConfigId
<1>7. ViewOk'
  BY <1>1, ThreadNames DEF IInv, ViewOk, Only, Fixed, AtWork
<1>8. Fresh'
  BY <1>1, <1>2, ThreadNames DEF IInv, Fresh, Only, Fixed
<1>9. RootTells'
  <2>1. CASE root' = RootEntry(t) /\ outrun' = (outrun \/ RootEntry(t) # TrueEntry)
    BY <1>2, <2>1, RootWriteTells DEF IInv
  <2>2. CASE root' = root /\ outrun' = outrun /\ missed' = (missed \/ t \in Workers)
    <3>1. Owed => Owed' \/ missed'
      BY <1>1, <2>2, OwedStays
    <3> QED BY <1>2, <2>2, <3>1, QuietRoot DEF IInv
  <2> QED BY <1>2, <2>1, <2>2
<1>10. SideTells'
  <2>1. \A c : CleanerOwes(c) => CleanerOwes(c)'
    BY <1>1, ThreadNames DEF CleanerOwes, Only, Fixed, Removing
  <2>2. \A c : Writing(c) => Writing(c)'
    BY <1>1, ThreadNames DEF Writing, Only, Fixed, AtWork
  <2>3. \A w \in Workers : th'[w].pc = "fetch" => th[w].pc = "fetch" /\ th'[w].c = th[w].c
    BY <1>1, ThreadNames DEF Only
  <2>4. th'["main"].pc = "seed" => th["main"].pc = "seed" /\ th'["main"].view = th["main"].view
    BY <1>1, ThreadNames DEF Only, Fixed
  <2> QED BY <1>2, <2>1, <2>2, <2>3, <2>4, QuietTells DEF IInv
<1> QED BY <1>4, <1>5, <1>6, <1>7, <1>8, <1>9, <1>10 DEF IInv

LEMMA UpdateWriteKeeps ==
    ASSUME IInv, NEW w \in Workers, UpdateWrite(w)
    PROVE  IInv'
<1> DEFINE s == Updated(th[w].view, th[w].c, run.md5)
<1>1. w \in Threads /\ Only(w) /\ th[w].pc = "updating" /\ th'[w].pc = "idle"
  BY ThreadNames DEF IInv, TypesOk, UpdateWrite, Only, Idle, At
<1>2. Whole(s)
  BY <1>1, UpdatedWhole DEF IInv, ViewOk, AtWork, TypesOk
<1> HIDE DEF s
<1>3. /\ disk' = disk /\ root' = root /\ run' = run /\ missed' = missed
      /\ SideOk' /\ DOMAIN n' = DOMAIN n /\ n'.fail \in Nat /\ outrun' \in BOOLEAN
      /\ outrun => outrun'
      /\ \/ side' = s /\ outrun' = (outrun \/ Untrue(s))
         \/ side' = side /\ outrun' = outrun /\ n'.fail = n.fail + 1
  BY <1>2, WriteOutcome DEF UpdateWrite, IInv, s
<1>4. TypesOk'
  BY <1>1, <1>3 DEF IInv, TypesOk, Only
<1>5. PcOk'
  BY <1>1, ThreadNames DEF IInv, PcOk, Only, Fixed
<1>7. ViewOk'
  BY <1>1, ThreadNames DEF IInv, ViewOk, Only, Fixed, AtWork
<1>8. Fresh'
  BY <1>1, <1>3, ThreadNames DEF IInv, Fresh, Only, Fixed
<1>9. RootTells'
  BY <1>1, <1>3, QuietRoot, OwedStays DEF IInv
<1>10. SideTells'
  <2>1. \A c : CleanerOwes(c) => CleanerOwes(c)'
    BY <1>1, ThreadNames DEF CleanerOwes, Only, Fixed
  <2>3. \A v \in Workers : th'[v].pc = "fetch" => th[v].pc = "fetch" /\ th'[v].c = th[v].c
    BY <1>1, ThreadNames DEF Only
  <2>4. th'["main"] = th["main"]
    BY <1>1, ThreadNames DEF Only, Fixed
  <2>5. CASE side' = s /\ outrun' = (outrun \/ Untrue(s))
    BY <1>3, <1>8, <2>5, WriteTells DEF IInv
  <2>6. CASE side' = side /\ outrun' = outrun /\ n'.fail = n.fail + 1
    BY <1>3, <1>4, <2>1, <2>3, <2>4, <2>6, FailTells DEF IInv
  <2> QED BY <1>3, <2>5, <2>6
<1> QED BY <1>3, <1>4, <1>5, <1>7, <1>8, <1>9, <1>10 DEF IInv

LEMMA AssignWriteKeeps ==
    ASSUME IInv, AssignWrite
    PROVE  IInv'
<1> DEFINE t == "boot"
           s == Assigned(th["boot"].view, th["boot"].c)
<1>1. t \in Threads /\ Only(t) /\ th[t].pc = "assigning" /\ th'[t].pc = "assign"
  BY ThreadNames DEF IInv, TypesOk, AssignWrite, Only, Idle, At, Fixed
<1>2. Whole(s)
  BY <1>1, AssignedWhole DEF IInv, ViewOk
<1> HIDE DEF s
<1>3. /\ disk' = disk /\ root' = root /\ run' = run /\ missed' = missed
      /\ SideOk' /\ DOMAIN n' = DOMAIN n /\ n'.fail \in Nat /\ outrun' \in BOOLEAN
      /\ outrun => outrun'
      /\ \/ side' = s /\ outrun' = (outrun \/ Untrue(s))
         \/ side' = side /\ outrun' = outrun /\ n'.fail = n.fail + 1
  BY <1>2, WriteOutcome DEF AssignWrite, IInv, s
<1>4. TypesOk'
  BY <1>1, <1>3 DEF IInv, TypesOk, Only
<1>5. PcOk'
  BY <1>1, ThreadNames DEF IInv, PcOk, Only, Fixed
<1>7. ViewOk'
  BY <1>1, ThreadNames DEF IInv, ViewOk, Only, Fixed, AtWork
<1>8. Fresh'
  BY <1>1, <1>3, ThreadNames DEF IInv, Fresh, Only, Fixed
<1>9. RootTells'
  BY <1>1, <1>3, QuietRoot, OwedStays, ThreadNames DEF IInv, Fixed
<1>10. SideTells'
  <2>1. \A c : CleanerOwes(c) => CleanerOwes(c)'
    BY <1>1, ThreadNames DEF CleanerOwes, Only, Fixed
  <2>3. \A v \in Workers : th'[v].pc = "fetch" => th[v].pc = "fetch" /\ th'[v].c = th[v].c
    BY <1>1, ThreadNames DEF Only
  <2>4. th'["main"] = th["main"]
    BY <1>1, ThreadNames DEF Only, Fixed
  <2>5. CASE side' = s /\ outrun' = (outrun \/ Untrue(s))
    BY <1>3, <1>8, <2>5, WriteTells DEF IInv
  <2>6. CASE side' = side /\ outrun' = outrun /\ n'.fail = n.fail + 1
    BY <1>3, <1>4, <2>1, <2>3, <2>4, <2>6, FailTells DEF IInv
  <2> QED BY <1>3, <2>5, <2>6
<1> QED BY <1>3, <1>4, <1>5, <1>7, <1>8, <1>9, <1>10 DEF IInv

LEMMA UnlinkKeeps ==
    ASSUME IInv, Unlink
    PROVE  IInv'
<1> DEFINE t == "cleaner"
<1>1. PICK gone : /\ disk' = Restrict(disk, DOMAIN disk \ gone)
                  /\ th' = [th EXCEPT !["cleaner"].names = gone,
                            !["cleaner"].pc = "remove", !["cleaner"].view = None]
  BY DEF Unlink
<1>2. /\ t \in Threads /\ Only(t) /\ th[t].pc = "unlink" /\ th'[t].pc = "remove"
      /\ th'[t].names = gone /\ th'[t].kind = th[t].kind
  <2>1. th[t].pc = "unlink"
    BY DEF Unlink, At
  <2> QED BY <1>1, <2>1, ThreadNames DEF IInv, TypesOk, Only, Idle, Fixed
<1>3. /\ side' = side /\ root' = root /\ run' = run /\ n' = n /\ outrun' = outrun /\ missed' = missed
      /\ disk' = [d \in DOMAIN disk' |-> disk'[d]] /\ DOMAIN disk' = DOMAIN disk \ gone
      /\ \A d \in DOMAIN disk' : disk'[d] = disk[d]
  BY <1>1 DEF Unlink, Restrict
<1>4. TypesOk'
  BY <1>2, <1>3 DEF IInv, TypesOk, Only
<1>5. PcOk'
  BY <1>2, ThreadNames DEF IInv, PcOk, Only, Fixed, Removing
<1>6. SideOk'
  BY <1>3 DEF IInv, SideOk, Rows, Whole, ByMd5, ByConfigId
<1>7. ViewOk'
  BY <1>2, ThreadNames DEF IInv, ViewOk, Only, Fixed
<1>8. Fresh'
  BY <1>2, <1>3, ThreadNames DEF IInv, Fresh, Only, Fixed
<1>9. RootTells'
  <2> SUFFICES ASSUME ~outrun, ~missed, root # None PROVE (Owed \/ \E D \in SUBSET Chunks : Told(D))'
    BY <1>3 DEF RootTells
  <2>1. CASE Owed
    BY <1>2, <2>1, OwedStays, ThreadNames DEF Fixed
  <2>2. CASE \E D \in SUBSET Chunks : Told(D)
    <3>1. PICK D \in SUBSET Chunks : Told(D)
      BY <2>2
    <3>2. D = DOMAIN disk' => disk' = disk
      BY <1>3, <3>1 DEF Told, IInv, TypesOk
    <3>3. Told(D)'
      BY <1>3, <3>1, <3>2 DEF Told
    <3> QED BY <3>3
  <2> QED BY <2>1, <2>2 DEF IInv, RootTells
<1>10. SideTells'
  <2> SUFFICES ASSUME ~outrun, n.fail <= 2, side # None
               PROVE  (GoneOk /\ SeedOk /\ FetchOk /\ RowOk)'
    BY <1>3 DEF SideTells
  <2>1. GoneOk /\ SeedOk /\ FetchOk /\ RowOk
    BY DEF IInv, SideTells
  <2>2. \A d : ~CleanerOwes(d)
    BY <1>2 DEF CleanerOwes, Removing
  <2>3. \A d : Doubted(d) => Doubted(d)'
    BY <1>3, <2>2 DEF Doubted
  <2>4. \A v \in Workers : th'[v] = th[v]
    BY <1>2, ThreadNames DEF Only, Fixed
  <2>5. th'["main"] = th["main"]
    BY <1>2, ThreadNames DEF Only, Fixed
  <2>6. GoneOk'
    <3>1. \A d \in gone : CleanerOwes(d)'
      BY <1>2 DEF CleanerOwes, Removing
    <3> QED BY <1>3, <2>1, <2>2, <3>1 DEF GoneOk
  <2>7. SeedOk'
    BY <1>3, <2>1, <2>3, <2>5 DEF SeedOk
  <2>8. FetchOk'
    BY <1>3, <2>1, <2>3, <2>4 DEF FetchOk
  <2>9. RowOk'
    <3>1. \A d : Writing(d) => Writing(d)'
      BY <2>4 DEF Writing
    <3> QED BY <1>3, <2>1, <2>2, <2>3, <3>1 DEF RowOk
  <2> QED BY <2>6, <2>7, <2>8, <2>9
<1> QED BY <1>4, <1>5, <1>6, <1>7, <1>8, <1>9, <1>10 DEF IInv

(* What follows the removal: the entry is refreshed, dropped, or left to   *)
(* the next reader by the cleanup for disk space.                          *)
LEMMA AfterRemoveLeaves ==
    ASSUME TypesOk, AfterRemove
    PROVE  /\ Only("cleaner") /\ th'["cleaner"].pc \in {"idle", "glob"}
           /\ th'["cleaner"].pc = "glob" => th'["cleaner"].ret = "root"
           /\ root' \in {root, None}
<1>1. CASE /\ th' = [th EXCEPT !["cleaner"] =
                     [Idle EXCEPT !.pc = "glob", !.ret = "root", !.kind = th["cleaner"].kind]]
           /\ root' = root
  BY <1>1, ThreadNames DEF TypesOk, Only, Idle, Fixed
<1>2. CASE /\ Finish("cleaner")
           /\ root' \in IF th["cleaner"].kind = "space" THEN {root} ELSE {root, None}
  BY <1>2, ThreadNames DEF TypesOk, Only, Idle, Fixed, Finish
<1> QED BY <1>1, <1>2 DEF AfterRemove

LEMMA RemoveWriteKeeps ==
    ASSUME IInv, RemoveWrite
    PROVE  IInv'
<1> DEFINE t == "cleaner"
           s == Removed(th["cleaner"].view, th["cleaner"].names)
<1>1. /\ t \in Threads /\ Only(t) /\ th[t].pc = "removing" /\ th'[t].pc \in {"idle", "glob"}
      /\ th'[t].pc = "glob" => th'[t].ret = "root"
      /\ root' \in {root, None}
  BY ThreadNames, AfterRemoveLeaves DEF IInv, RemoveWrite, At, Fixed
<1>2. Whole(s)
  BY <1>1, RemovedWhole DEF IInv, ViewOk
<1> HIDE DEF s
<1>3. /\ disk' = disk /\ run' = run /\ missed' = missed
      /\ SideOk' /\ DOMAIN n' = DOMAIN n /\ n'.fail \in Nat /\ outrun' \in BOOLEAN
      /\ outrun => outrun'
      /\ \/ side' = s /\ outrun' = (outrun \/ Untrue(s))
         \/ side' = side /\ outrun' = outrun /\ n'.fail = n.fail + 1
  BY <1>2, WriteOutcome DEF RemoveWrite, IInv, s
<1>4. TypesOk'
  BY <1>1, <1>3 DEF IInv, TypesOk, Only
<1>5. PcOk'
  BY <1>1, ThreadNames DEF IInv, PcOk, Only, Fixed
<1>7. ViewOk'
  BY <1>1, ThreadNames DEF IInv, ViewOk, Only, Fixed, AtWork
<1>8. Fresh'
  BY <1>1, <1>3, ThreadNames DEF IInv, Fresh, Only, Fixed
<1>9. RootTells'
  <2>1. CASE root' = None
    BY <2>1 DEF RootTells
  <2>2. CASE root' = root
    BY <1>1, <1>3, <2>2, QuietRoot, OwedStays, ThreadNames DEF IInv, Fixed
  <2> QED BY <1>1, <2>1, <2>2
<1>10. SideTells'
  <2>1. \A c : Writing(c) => Writing(c)'
    BY <1>1, ThreadNames DEF Writing, Only, Fixed
  <2>3. \A v \in Workers : th'[v].pc = "fetch" => th[v].pc = "fetch" /\ th'[v].c = th[v].c
    BY <1>1, ThreadNames DEF Only
  <2>4. th'["main"] = th["main"]
    BY <1>1, ThreadNames DEF Only, Fixed
  <2>5. CASE side' = s /\ outrun' = (outrun \/ Untrue(s))
    BY <1>3, <1>8, <2>5, WriteTells DEF IInv
  <2>6. CASE side' = side /\ outrun' = outrun /\ n'.fail = n.fail + 1
    BY <1>3, <1>4, <2>1, <2>3, <2>4, <2>6, FailTells DEF IInv
  <2> QED BY <1>3, <2>5, <2>6
<1> QED BY <1>3, <1>4, <1>5, <1>7, <1>8, <1>9, <1>10 DEF IInv

LEMMA RemoveLoadKeeps ==
    ASSUME IInv, RemoveLoad
    PROVE  IInv'
<1> DEFINE t == "cleaner"
<1>1. /\ t \in Threads /\ th[t].pc = "remove" /\ UNCHANGED <<disk, side, run, n, outrun, missed>>
  BY ThreadNames DEF RemoveLoad, At, Fixed
<1>2. CASE /\ AfterRemove
           /\ side = None \/ th[t].names \cap DOMAIN side.chunks = {}
  <2>1. /\ Only(t) /\ th'[t].pc \in {"idle", "glob"}
        /\ th'[t].pc = "glob" => th'[t].ret = "root"
        /\ root' \in {root, None}
    BY <1>2, AfterRemoveLeaves DEF IInv
  <2>2. TypesOk'
    BY <1>1, <2>1 DEF IInv, TypesOk, Only
  <2>3. PcOk'
    BY <1>1, <2>1, ThreadNames DEF IInv, PcOk, Only, Fixed
  <2>4. SideOk'
    BY <1>1 DEF IInv, SideOk, Rows, Whole, ByMd5, ByConfigId
  <2>5. ViewOk'
    BY <1>1, <2>1, ThreadNames DEF IInv, ViewOk, Only, Fixed, AtWork
  <2>6. Fresh'
    BY <1>1, <2>1, ThreadNames DEF IInv, Fresh, Only, Fixed
  <2>7. RootTells'
    <3>1. CASE root' = None
      BY <3>1 DEF RootTells
    <3>2. CASE root' = root
      BY <1>1, <2>1, <3>2, QuietRoot, OwedStays, ThreadNames DEF IInv, Fixed
    <3> QED BY <2>1, <3>1, <3>2
  <2>8. SideTells'
    <3>1. CASE side = None
      BY <1>1, <3>1 DEF SideTells
    <3>2. CASE th[t].names \cap DOMAIN side.chunks = {}
      <4>1. \A c \in DOMAIN side.chunks : CleanerOwes(c) => CleanerOwes(c)'
        BY <3>2 DEF CleanerOwes
      <4>2. \A c : Writing(c) => Writing(c)'
        BY <1>1, <2>1, ThreadNames DEF Writing, Only, Fixed
      <4>3. \A v \in Workers : th'[v].pc = "fetch" => th[v].pc = "fetch" /\ th'[v].c = th[v].c
        BY <1>1, <2>1, ThreadNames DEF Only
      <4>4. th'["main"] = th["main"]
        BY <1>1, <2>1, ThreadNames DEF Only, Fixed
      <4> QED BY <1>1, <4>1, <4>2, <4>3, <4>4, QuietTells DEF IInv
    <3> QED BY <1>2, <3>1, <3>2
  <2> QED BY <2>2, <2>3, <2>4, <2>5, <2>6, <2>7, <2>8 DEF IInv
<1>3. CASE Saw(t, Migrated(side), "removing") /\ side # None /\ root' = root
  <2>1. /\ Only(t) /\ th'[t].pc = "removing" /\ th'[t].view = Migrated(side)
        /\ th'[t].names = th[t].names /\ th'[t].kind = th[t].kind
    BY <1>1, <1>3 DEF IInv, TypesOk, Saw, Only, Idle
  <2>2. Whole(th'[t].view)
    BY <1>3, <2>1, MigratedWhole DEF IInv
  <2>3. TypesOk'
    BY <1>1, <2>1 DEF IInv, TypesOk, Only
  <2>4. PcOk'
    BY <1>1, <2>1, ThreadNames DEF IInv, PcOk, Only, Fixed, Removing
  <2>5. SideOk'
    BY <1>1 DEF IInv, SideOk, Rows, Whole, ByMd5, ByConfigId
  <2>6. ViewOk'
    BY <1>1, <2>1, <2>2, ThreadNames DEF IInv, ViewOk, Only, Fixed, AtWork
  <2>7. Fresh'
    BY <1>1, <2>1, ThreadNames DEF IInv, Fresh, Only, Fixed
  <2>8. RootTells'
    BY <1>1, <1>3, <2>1, QuietRoot, OwedStays, ThreadNames DEF IInv, Fixed
  <2>9. SideTells'
    <3>1. \A c \in DOMAIN side.chunks : CleanerOwes(c) => CleanerOwes(c)'
      BY <2>1 DEF CleanerOwes, Removing
    <3>2. \A c : Writing(c) => Writing(c)'
      BY <1>1, <2>1, ThreadNames DEF Writing, Only, Fixed
    <3>3. \A v \in Workers : th'[v].pc = "fetch" => th[v].pc = "fetch" /\ th'[v].c = th[v].c
      BY <1>1, <2>1, ThreadNames DEF Only
    <3>4. th'["main"] = th["main"]
      BY <1>1, <2>1, ThreadNames DEF Only, Fixed
    <3> QED BY <1>1, <3>1, <3>2, <3>3, <3>4, QuietTells DEF IInv
  <2> QED BY <2>3, <2>4, <2>5, <2>6, <2>7, <2>8, <2>9 DEF IInv
<1> QED BY <1>2, <1>3 DEF RemoveLoad

(* A killed process owes nothing any more: the refresh of the root entry   *)
(* its workers owed is missed, and what the sidecar was owed is a failure. *)
LEMMA KilledKeeps ==
    ASSUME IInv, NEW p, Killed(p)
    PROVE  IInv'
<1>1. /\ th' = [t \in Threads |-> th'[t]]
      /\ \A t \in Threads :
           \/ Process(t) # p /\ th'[t] = th[t]
           \/ /\ Process(t) = p
              /\ th'[t] = [Idle EXCEPT !.pc = IF t = "main" THEN "join" ELSE "idle"]
  BY DEF Killed
<1>2. \A t \in Threads :
        \/ Process(t) # p /\ th'[t] = th[t]
        \/ /\ Process(t) = p /\ DOMAIN th'[t] = DOMAIN Idle
           /\ th'[t].pc = IF t = "main" THEN "join" ELSE "idle"
  BY <1>1 DEF Idle
<1>3. /\ UNCHANGED <<disk, side, root, run>> /\ outrun' = outrun /\ DOMAIN n' = DOMAIN n
      /\ n'.fail = n.fail + 1 /\ n'.fail \in Nat /\ missed' \in BOOLEAN
      /\ missed' = (missed \/ \E w \in Workers :
                      Process(w) = p /\ th[w].pc \in {"glob", "build", "root"})
  BY DEF Killed, IInv, TypesOk
<1>4. TypesOk'
  BY <1>1, <1>2, <1>3 DEF IInv, TypesOk
<1>5. PcOk'
  BY <1>2, ThreadNames DEF IInv, PcOk, Fixed, Process
<1>6. SideOk'
  BY <1>3 DEF IInv, SideOk, Rows, Whole, ByMd5, ByConfigId
<1>7. ViewOk'
  BY <1>2, ThreadNames DEF IInv, ViewOk, Fixed, AtWork
<1>8. Fresh'
  BY <1>2, <1>3, ThreadNames DEF IInv, Fresh, Fixed
<1>9. RootTells'
  <2>1. Owed => Owed' \/ missed'
    BY <1>2, <1>3, ThreadNames DEF Owed
  <2> QED BY <1>3, <2>1, QuietRoot DEF IInv
<1>10. SideTells'
  <2>1. \A w \in Workers : th'[w].pc = "fetch" => th[w].pc = "fetch" /\ th'[w].c = th[w].c
    BY <1>2, ThreadNames
  <2>2. \/ \A c \in Chunks : CleanerOwes(c) => CleanerOwes(c)'
        \/ \A c \in Chunks : Writing(c) => Writing(c)'
    <3>1. CASE p = "analyzer"
      <4>1. th'["cleaner"] = th["cleaner"]
        BY <1>2, <3>1, ThreadNames DEF Process, Fixed
      <4> QED BY <4>1 DEF CleanerOwes
    <3>2. CASE p # "analyzer"
      <4>1. \A w \in Workers : th'[w] = th[w]
        BY <1>2, <3>2, ThreadNames DEF Process
      <4> QED BY <4>1 DEF Writing
    <3> QED BY <3>1, <3>2
  <2>3. th'["main"].pc = "seed" => th'["main"] = th["main"]
    BY <1>2, ThreadNames DEF Fixed
  <2> QED BY <1>3, <1>4, <2>1, <2>2, <2>3, FailTells DEF IInv
<1> QED BY <1>4, <1>5, <1>6, <1>7, <1>8, <1>9, <1>10 DEF IInv

-----------------------------------------------------------------------------
(* The invariant.                                                          *)
LEMMA InitHolds ==
    ASSUME Init
    PROVE  IInv
<1>1. DOMAIN disk \subseteq Chunks /\ disk = [c \in DOMAIN disk |-> disk[c]]
  <2>1. CASE disk = <<>>
    BY <2>1
  <2>2. CASE disk \in [1..2 -> Md5s]
    BY <2>2, PlaceAssumption DEF Chunks
  <2> QED BY <2>1, <2>2 DEF Init
<1>2. \A t \in Threads : th[t].pc = "idle"
  BY DEF Init, Idle
<1>3. TypesOk
  BY <1>1, CurrentAssumption DEF Init, TypesOk
<1>4. PcOk
  BY <1>2, ThreadNames DEF PcOk, Fixed
<1>5. /\ side = None \/ (Rows(side.chunks) /\ side.chunks = Scanned.chunks
                           /\ (side.legacy = TRUE \/ Whole(side)))
      /\ Whole(Scanned)
  <2>1. Whole(Scanned) /\ Rows(Scanned.chunks)
    BY <1>1, ScannedWhole DEF Whole
  <2>2. CASE side = [Scanned EXCEPT !.legacy = TRUE]
    <3>1. side.legacy = TRUE /\ side.chunks = Scanned.chunks
      BY <2>1, <2>2 DEF Whole
    <3> QED BY <2>1, <3>1
  <2> QED BY <2>1, <2>2 DEF Init
<1>6. SideOk
  BY <1>5 DEF SideOk
<1>7. ViewOk
  BY <1>2, ThreadNames DEF ViewOk, Fixed, AtWork
<1>8. Fresh
  BY <1>2, ThreadNames DEF Fresh, Fixed
<1>9. RootTells
  BY DEF RootTells, Init
<1>10. SideTells
  <2> SUFFICES ASSUME side # None PROVE GoneOk /\ SeedOk /\ FetchOk /\ RowOk
    BY DEF SideTells
  <2>1. /\ DOMAIN side.chunks = DOMAIN disk
        /\ \A c \in DOMAIN disk : side.chunks[c].md5 = disk[c]
    BY <1>1, <1>5, ScannedWhole
  <2> QED BY <1>2, <2>1, ThreadNames DEF GoneOk, SeedOk, FetchOk, RowOk, Fixed
<1> QED BY <1>3, <1>4, <1>6, <1>7, <1>8, <1>9, <1>10 DEF IInv

LEMMA StepKeeps ==
    ASSUME IInv, [Next]_vars
    PROVE  IInv'
<1>1. CASE Index
  BY <1>1, GetKeeps, BuildKeeps, RootScanKeeps DEF Index
<1>2. CASE Analyzer
  <2>1. CASE \E w \in Workers : RootWrite(w, "update")
    BY <2>1, RootWriteKeeps, ThreadNames
  <2>2. CASE \E w \in Workers : FetchFails(w) \/ WriteChunk(w) \/ UpdateLoad(w) \/ UpdateWrite(w)
    BY <2>2, FetchFailsKeeps, WriteChunkKeeps, UpdateLoadKeeps, UpdateWriteKeeps
  <2> QED BY <1>2, <2>1, <2>2, StartRunKeeps, SeedKeeps, EndRunKeeps DEF Analyzer
<1>3. CASE Console
  <2>1. CASE RootWrite("reader", "idle") \/ RootWrite("cleaner", "idle")
    BY <2>1, RootWriteKeeps, ThreadNames DEF Fixed
  <2> QED BY <1>3, <2>1, StatusKeeps, StartDeleteKeeps, UnlinkKeeps, RemoveLoadKeeps, RemoveWriteKeeps,
             ReassociateKeeps, AssignLoadKeeps, AssignWriteKeeps, EndReassociateKeeps DEF Console
<1>4. CASE UNCHANGED vars
  <2>1. UNCHANGED <<disk, side, root, th, run, n, outrun, missed>>
    BY <1>4 DEF vars
  <2>2. "boot" \in Threads /\ Only("boot")
    BY <2>1, ThreadNames DEF Only, IInv, TypesOk, Fixed
  <2>3. PcOk'
    BY <2>1 DEF IInv, PcOk
  <2> QED BY <2>1, <2>2, <2>3, MoveKeeps, ThreadNames
          DEF IInv, TypesOk, PcOk, ViewOk, AtWork, Removing, Fixed
<1> QED BY <1>1, <1>2, <1>3, <1>4, KilledKeeps DEF Next

(* The inductive invariant, of every reachable state.                      *)
THEOREM CachesSound == Spec => []IInv
<1>1. Init => IInv
  BY InitHolds
<1>2. IInv /\ [Next]_vars => IInv'
  BY StepKeeps
<1> QED BY <1>1, <1>2, PTL DEF Spec

(* The two inverted indexes of a sidecar are those of its chunk table.     *)
THEOREM IndexesAlwaysAgree == Spec => []IndexesAgree
<1>1. IInv => IndexesAgree
  BY DEF IInv, SideOk, Whole, IndexesAgree
<1> QED BY <1>1, CachesSound, PTL

(* At rest, and with no cache written that was untrue when it was written, *)
(* up to two failed sidecar writes or kills mislead no reader of the       *)
(* sidecar, and any number no reader of the root entry as long as no       *)
(* worker's refresh of it is missing.                                      *)
THEOREM RestTells == Spec => []OnlyOutrunOrMissedMislead
<1>1. IInv => OnlyOutrunOrMissedMislead
  <2> SUFFICES ASSUME IInv, \A t \in Threads : th[t].pc \in {"idle", "over"}, ~outrun
               PROVE  /\ side # None /\ ~Stale(side) /\ n.fail <= 2 => ~Untrue(side)
                      /\ ~missed /\ root # None /\ root.count = Cardinality(DOMAIN disk)
                         => Range(disk) = root.md5s
    BY DEF OnlyOutrunOrMissedMislead
  <2>1. ASSUME side # None, ~Stale(side), n.fail <= 2
        PROVE  ~Untrue(side)
    <3>1. GoneOk /\ SeedOk /\ FetchOk /\ RowOk
      BY <2>1 DEF IInv, SideTells
    <3>2. \A c : ~CleanerOwes(c) /\ ~Writing(c)
      BY ThreadNames DEF CleanerOwes, Writing, Removing, AtWork, Fixed
    <3> QED BY <2>1, <3>1, <3>2 DEF RowOk, Untrue, Stale
  <2>2. ASSUME ~missed, root # None, root.count = Cardinality(DOMAIN disk)
        PROVE  Range(disk) = root.md5s
    <3>1. ~Owed
      BY ThreadNames DEF Owed
    <3>2. PICK D \in SUBSET Chunks : Told(D)
      BY <2>2, <3>1 DEF IInv, RootTells
    <3>3. D = DOMAIN disk
      BY <2>2, <3>2, ChunksFinite, FS_Subset DEF Told
    <3> QED BY <3>2, <3>3 DEF Told
  <2> QED BY <2>1, <2>2
<1> QED BY <1>1, CachesSound, PTL

(* A resumed run never writes over a chunk that is on disk.                *)
THEOREM ResumeIsSafe == Spec => ResumeNeverOverwrites
<1>1. IInv /\ [Next]_vars => [\A w \in Workers : WriteChunk(w) => th[w].c \notin DOMAIN disk]_vars
  BY DEF IInv, Fresh, WriteChunk, At
<1> QED BY <1>1, CachesSound, PTL DEF Spec, ResumeNeverOverwrites

-----------------------------------------------------------------------------
(* The analyzer that reads these files: what was merged before the loop,   *)
(* and by it.                                                              *)
Sampled == {i \in merged : i >= loop.first}
Replayed == merged \ Sampled
Left == Greater(1, args.max - Cardinality(Replayed))
Dense == loop.first = Cardinality(Replayed) + 1
Resumed == args.mode = "resume" /\ PastReplay

RunTypes ==
    /\ args \in Arguments
    /\ phase \in {"start", "read", "batch", "fetch", "engine", "sort", "emit", "ended"}
    /\ stored = [i \in Files |-> stored[i]] /\ Files \subseteq Nat \ {0} /\ IsFiniteSet(Files)
    /\ merged \subseteq Nat \ {0} /\ IsFiniteSet(merged) /\ lost \subseteq merged
    /\ flight \subseteq Nat /\ IsFiniteSet(flight)
    /\ DOMAIN loop = {"first", "next", "max", "conc", "spins"}
    /\ loop.first \in Nat \ {0} /\ loop.next \in Nat /\ loop.max \in Nat /\ loop.conc \in 1 .. args.conc
    /\ DOMAIN fails = {"net", "machine", "batches", "band"} /\ fails.net \in Nat /\ fails.machine \in Nat
    /\ DOMAIN report = {"kind", "covers"} /\ chosen \subseteq DOMAIN Requires

(* Where the run is tells what it has not done yet.                        *)
PlaceOk ==
    /\ phase = "start" => merged = {}
    /\ phase \in {"start", "read"} =>
         /\ lost = {} /\ fails.net = 0 /\ fails.machine = 0
         /\ loop.first = 1 /\ loop.max = args.max
    /\ phase \in {"start", "read", "batch", "fetch"} => reason = "max_chunks_reached"
    /\ phase # "fetch" => flight = {}
    /\ args.mode = "cache" =>
         /\ phase \notin {"batch", "fetch"}
         /\ PastReplay => reason = "from_cache_complete"

ReplayOk == phase = "read" =>
    /\ merged \cup unread \subseteq Selected
    /\ args.mode = "resume" => merged \cup unread = Selected

(* What was merged is still on disk as it was merged, unless it could not  *)
(* be written, and a resumed run has merged all of the version.            *)
MergedOk == \A i \in merged \ lost :
    i \in Files /\ Readable(i) /\ (args.scoped => stored[i] = "cur")
AllCounted == Resumed /\ reason # "target_ci_reached_from_cache" =>
    \A i \in Files : (IF args.scoped THEN stored[i] = "cur" ELSE Readable(i)) => i \in merged

(* The loop's numbers: every index given out is merged, awaited or failed. *)
NumbersOk == Resumed =>
    /\ loop.max = IF loop.first > args.max THEN loop.first - 1 + Left ELSE args.max
    /\ Sampled \cup flight \subseteq loop.first .. (loop.next - 1) /\ Sampled \cap flight = {}
    /\ loop.first <= loop.next /\ loop.next <= loop.max + args.conc
    /\ Cardinality(Sampled) + Cardinality(flight) + fails.net + fails.machine = loop.next - loop.first
    /\ Dense => Cardinality(merged) + Cardinality(flight) <= loop.max
    /\ phase \notin {"batch", "fetch"} /\ reason = "max_chunks_reached" => loop.next > loop.max

(* A batch that starts is within the bail-out limits.                      *)
BailOk ==
    /\ phase \in {"start", "read", "batch"} => fails.net <= MaxNet /\ fails.machine <= MaxMachine
    /\ fails.net + Cardinality(flight) <= MaxNet + args.conc
    /\ fails.machine + Cardinality(flight) <= MaxMachine + args.conc

ReportOk ==
    /\ phase # "ended" => report.kind = "none"
    /\ phase \in {"sort", "emit"} \/ report.kind = "full" =>
         report.covers = EngineFiles /\ merged # {} /\ \A i \in EngineFiles : Readable(i)
    /\ FailsForAReason

(* What has been emitted is the beginning of the plugins' order.           *)
EmitOk ==
    /\ phase \notin {"emit", "ended"} => emitted = << >>
    /\ emitted \in Seq(chosen) /\ Len(emitted) <= Len(EmitOrder)
    /\ \A k \in DOMAIN emitted : emitted[k] = EmitOrder[k]
    /\ phase = "emit" => Len(EmitOrder) = Cardinality(chosen)
    /\ report.kind = "full" => Len(emitted) = Cardinality(chosen)

RunInv == RunTypes /\ PlaceOk /\ ReplayOk /\ MergedOk /\ AllCounted /\ NumbersOk /\ BailOk /\ ReportOk /\ EmitOk

-----------------------------------------------------------------------------
(* The order of the plugins.                                               *)
LEMMA LeastReady ==
    ASSUME NEW S \in SUBSET Nat, S # {}
    PROVE  Min(S) \in S /\ \A y \in S : Min(S) <= y
<1>1. \E x \in S : \A y \in S : x <= y
  BY LeastNatural
<1> QED BY <1>1 DEF Min

(* A round of topological_sort, and its list after n rounds.               *)
Round(F, s) == IF Ready(F, Range(s)) = {} THEN s ELSE Append(s, Min(Ready(F, Range(s))))
Rounds(F, g, r) ==
    g = [k \in 0 .. r |-> g[k]] /\ g[0] = << >> /\ \A k \in 1 .. r : g[k] = Round(F, g[k - 1])

LEMMA RoundsExist ==
    ASSUME NEW F, NEW m \in Nat
    PROVE  \E g : Rounds(F, g, m)
<1> DEFINE Bad == {k \in Nat : ~\E g : Rounds(F, g, k)}
<1>1. SUFFICES ASSUME m \in Bad PROVE FALSE
  OBVIOUS
<1>2. Bad \in SUBSET Nat /\ Bad # {}
  BY <1>1
<1> HIDE DEF Bad
<1>3. PICK k \in Bad : \A j \in Bad : k <= j
  BY <1>2, LeastNatural
<1>4. k \in Nat /\ ~\E g : Rounds(F, g, k)
  BY <1>3 DEF Bad
<1>5. CASE k = 0
  <2> DEFINE g == [i \in 0 .. 0 |-> << >>]
  <2>1. Rounds(F, g, 0)
    BY DEF Rounds
  <2> QED BY <1>4, <1>5, <2>1
<1>6. CASE k # 0
  <2>1. k - 1 \in Nat /\ k - 1 < k
    BY <1>4, <1>6
  <2>2. PICK f : Rounds(F, f, k - 1)
    BY <1>3, <2>1 DEF Bad
  <2> DEFINE g == [i \in 0 .. k |-> IF i = k THEN Round(F, f[k - 1]) ELSE f[i]]
  <2>3. \A i \in 0 .. (k - 1) : g[i] = f[i]
    BY <1>4
  <2>4. g[k] = Round(F, f[k - 1]) /\ g = [i \in 0 .. k |-> g[i]]
    BY <1>4
  <2> HIDE DEF g
  <2>5. g[0] = << >>
    BY <2>1, <2>2, <2>3 DEF Rounds
  <2>6. ASSUME NEW i \in 1 .. k
        PROVE  g[i] = Round(F, g[i - 1])
    <3>1. CASE i = k
      BY <3>1, <2>1, <2>3, <2>4, <1>4
    <3>2. CASE i \in 1 .. (k - 1)
      <4>1. f[i] = Round(F, f[i - 1])
        BY <3>2, <2>2 DEF Rounds
      <4>2. g[i] = f[i] /\ g[i - 1] = f[i - 1]
        BY <3>2, <2>3, <1>4
      <4> QED BY <4>1, <4>2
    <3> QED BY <3>1, <3>2, <1>4
  <2>7. Rounds(F, g, k)
    BY <2>4, <2>5, <2>6 DEF Rounds
  <2> QED BY <1>4, <2>7
<1> QED BY <1>5, <1>6

LEMMA SortIsRounds ==
    ASSUME NEW F, Cardinality(F) \in Nat
    PROVE  \E g : Rounds(F, g, Cardinality(F)) /\ TopologicalSort(F) = g[Cardinality(F)]
<1> DEFINE c == Cardinality(F)
           IsOrder(g) == g = [r \in 0 .. c |->
                               IF r = 0 THEN << >>
                               ELSE IF Ready(F, Range(g[r - 1])) = {} THEN g[r - 1]
                               ELSE Append(g[r - 1], Min(Ready(F, Range(g[r - 1]))))]
           order == CHOOSE g : IsOrder(g)
<1>1. TopologicalSort(F) = order[c]
  BY DEF TopologicalSort
<1>2. PICK f : Rounds(F, f, c)
  BY RoundsExist
<1>3. IsOrder(f)
  BY <1>2 DEF Rounds, Round
<1>4. IsOrder(order)
  BY <1>3, Zenon
<1> HIDE DEF order
<1>5. Rounds(F, order, c)
  BY <1>4 DEF Rounds, Round
<1> QED BY <1>1, <1>5

(* An order of some plugins: each once, after all it requires.             *)
InOrder(F, s) ==
    /\ s \in Seq(F) /\ Cardinality(Range(s)) = Len(s)
    /\ \A k \in DOMAIN s : Requires[s[k]] \subseteq {s[j] : j \in 1 .. (k - 1)}

LEMMA RoundOrdered ==
    ASSUME NEW F \in SUBSET DOMAIN Requires, NEW s, InOrder(F, s)
    PROVE  /\ InOrder(F, Round(F, s))
           /\ Ready(F, Range(s)) = {} => Round(F, s) = s
           /\ Ready(F, Range(s)) # {} => Len(Round(F, s)) = Len(s) + 1
<1> DEFINE R == Ready(F, Range(s))
           x == Min(R)
           t == Append(s, x)
<1>1. s \in Seq(F) /\ Len(s) \in Nat /\ Range(s) = {s[k] : k \in 1 .. Len(s)}
  BY DEF InOrder, Range
<1>2. CASE R = {}
  BY <1>2 DEF Round
<1>3. CASE R # {}
  <2>1. x \in R
    BY <1>3, LeastReady, RequiresAssumption DEF Ready
  <2>2. x \in F /\ x \notin Range(s) /\ Requires[x] \subseteq Range(s)
    BY <2>1 DEF Ready
  <2> HIDE DEF x
  <2>3. /\ t \in Seq(F) /\ Len(t) = Len(s) + 1 /\ t[Len(s) + 1] = x
        /\ \A k \in 1 .. Len(s) : t[k] = s[k]
    BY <1>1, <2>2
  <2> HIDE DEF t
  <2>4. Range(t) = Range(s) \cup {x}
    BY <1>1, <2>3 DEF Range
  <2>5. IsFiniteSet(Range(s))
    <3>1. IsFiniteSet(F)
      BY RequiresAssumption, FS_Subset
    <3> QED BY <1>1, <3>1, FS_Subset
  <2>6. Cardinality(Range(t)) = Len(t)
    <3>1. Cardinality(Range(s) \cup {x}) = Cardinality(Range(s)) + 1
      BY <2>2, <2>5, FS_AddElement
    <3> QED BY <3>1, <2>3, <2>4 DEF InOrder
  <2>7. ASSUME NEW k \in DOMAIN t
        PROVE  Requires[t[k]] \subseteq {t[j] : j \in 1 .. (k - 1)}
    <3>1. CASE k = Len(s) + 1
      BY <3>1, <1>1, <2>2, <2>3
    <3>2. CASE k \in 1 .. Len(s)
      <4>1. Requires[s[k]] \subseteq {s[j] : j \in 1 .. (k - 1)}
        <5>1. k \in DOMAIN s
          BY <3>2, <1>1
        <5> QED BY <5>1 DEF InOrder
      <4>2. \A j \in 1 .. (k - 1) : t[j] = s[j]
        BY <3>2, <1>1, <2>3
      <4> QED BY <4>1, <4>2, <3>2, <2>3
    <3> QED BY <3>1, <3>2, <2>3, <1>1
  <2>8. Round(F, s) = t
    BY <1>3 DEF Round, t, x
  <2> QED BY <1>3, <2>3, <2>6, <2>7, <2>8 DEF InOrder
<1> QED BY <1>2, <1>3

(* topological_sort is right: what it lists is in order, and when it lists *)
(* less than all, no plugin that is left waits only for listed ones.       *)
LEMMA SortRight ==
    ASSUME NEW F \in SUBSET DOMAIN Requires
    PROVE  /\ InOrder(F, TopologicalSort(F)) /\ Len(TopologicalSort(F)) <= Cardinality(F)
           /\ \/ Len(TopologicalSort(F)) = Cardinality(F)
              \/ Ready(F, Range(TopologicalSort(F))) = {}
<1> DEFINE c == Cardinality(F)
<1>1. c \in Nat
  BY RequiresAssumption, FS_Subset, FS_CardinalityType
<1>2. PICK g : Rounds(F, g, c) /\ TopologicalSort(F) = g[c]
  BY <1>1, SortIsRounds
<1> DEFINE Good(r) == /\ InOrder(F, g[r]) /\ Len(g[r]) <= r
                      /\ Len(g[r]) = r \/ Ready(F, Range(g[r])) = {}
           Bad == {r \in 0 .. c : ~Good(r)}
<1>3. SUFFICES ASSUME Bad # {} PROVE FALSE
  BY <1>1, <1>2
<1>4. PICK r \in Bad : \A m \in Bad : r <= m
  <2>1. Bad \in SUBSET Nat
    BY <1>1
  <2> HIDE DEF Bad
  <2> QED BY <2>1, <1>3, LeastNatural
<1>5. r \in 0 .. c /\ ~Good(r) /\ \A m \in 0 .. c : m < r => Good(m)
  BY <1>4
<1> HIDE DEF Bad
<1>6. CASE r = 0
  <2>1. g[0] = << >>
    BY <1>2 DEF Rounds
  <2>2. InOrder(F, << >>)
    <3>1. Range(<< >>) = {}
      BY DEF Range
    <3> QED BY <3>1, FS_EmptySet DEF InOrder
  <2> QED BY <1>5, <1>6, <2>1, <2>2
<1>7. CASE r # 0
  <2>1. r - 1 \in 0 .. c /\ r - 1 < r /\ r \in 1 .. c
    BY <1>1, <1>5, <1>7
  <2>2. Good(r - 1) /\ g[r] = Round(F, g[r - 1])
    BY <1>2, <1>5, <2>1 DEF Rounds
  <2> DEFINE s == g[r - 1]
  <2>3. /\ InOrder(F, g[r])
        /\ Ready(F, Range(s)) = {} => g[r] = s
        /\ Ready(F, Range(s)) # {} => Len(g[r]) = Len(s) + 1
    BY <2>2, RoundOrdered
  <2>4. Len(s) \in Nat /\ Len(s) <= r - 1 /\ (Len(s) = r - 1 \/ Ready(F, Range(s)) = {})
    BY <2>2 DEF InOrder
  <2> HIDE DEF s
  <2> QED BY <1>5, <2>1, <2>3, <2>4
<1> QED BY <1>6, <1>7

(* Without a cycle and with all they require, all plugins are listed.      *)
LEMMA SortWhole ==
    ASSUME NEW F \in SUBSET DOMAIN Requires, \A f \in F : Requires[f] \subseteq F
    PROVE  Len(TopologicalSort(F)) = Cardinality(F)
<1> DEFINE s == TopologicalSort(F)
           S == F \ Range(s)
<1>1. InOrder(F, s) /\ (Len(s) = Cardinality(F) \/ Ready(F, Range(s)) = {})
  BY SortRight
<1> HIDE DEF s
<1>2. CASE S = {}
  <2>1. Range(s) = F
    BY <1>1, <1>2 DEF InOrder, Range
  <2> QED BY <1>1, <2>1 DEF InOrder, s
<1>3. CASE S # {}
  <2>1. PICK f \in S : Requires[f] \cap S = {}
    BY <1>3, RequiresAssumption
  <2>2. f \in Ready(F, Range(s))
    BY <2>1 DEF Ready
  <2> QED BY <1>1, <2>2 DEF s
<1> QED BY <1>2, <1>3

-----------------------------------------------------------------------------
(* The analyzer's numbers.                                                 *)
LEMMA ArgsTyped ==
    ASSUME args \in Arguments
    PROVE  /\ args.mode \in {"cache", "resume"} /\ args.max \in Nat \ {0} /\ args.conc \in Nat \ {0}
           /\ args.scoped \in BOOLEAN /\ args.fuzzy \in BOOLEAN /\ args.registered \in BOOLEAN
<1>1. /\ {args.scoped, args.fuzzy, args.registered} \subseteq BOOLEAN
      /\ {args.max, args.conc} \subseteq Nat \ {0}
      /\ args.mode \in {"cache", "resume"}
  BY ArgumentsAssumption
<1> QED BY <1>1

(* New chunks are numbered beyond all that were read.                      *)
LEMMA NumberedRight ==
    ASSUME RunTypes, loop.max = args.max,
           NEW R \in SUBSET (Nat \ {0}), IsFiniteSet(R), args.scoped /\ Listed # {} => R \subseteq Listed,
           NEW new, new = Numbered(R)
    PROVE  /\ DOMAIN new = DOMAIN loop /\ new.conc = loop.conc
           /\ new.first \in Nat \ {0} /\ new.next = new.first /\ new.max \in Nat
           /\ new.max = IF new.first > args.max
                        THEN new.first - 1 + Greater(1, args.max - Cardinality(R)) ELSE args.max
           /\ \A i \in R : i < new.first
<1> DEFINE H == IF args.scoped /\ Listed # {} THEN Listed ELSE R
           high == Max(H \cup {0})
           rest == Greater(1, args.max - Cardinality(R))
<1>1. H \in SUBSET Nat /\ IsFiniteSet(H) /\ R \subseteq H
  BY FS_Subset DEF RunTypes, Listed
<1> HIDE DEF H
<1>2. high \in Nat /\ \A i \in R : i <= high
  BY <1>1, HighestIndex
<1>3. new = [loop EXCEPT !.first = high + 1, !.next = high + 1,
                         !.max = IF high + 1 > @ THEN high + rest ELSE @]
  BY DEF Numbered, Highest, H
<1>4. Cardinality(R) \in Nat /\ args.max \in Nat
  BY FS_CardinalityType, ArgsTyped DEF RunTypes
<1>5. rest \in Nat
  BY <1>4 DEF Greater
<1> HIDE DEF high, rest
<1>6. /\ DOMAIN new = DOMAIN loop /\ new.conc = loop.conc
      /\ new.first = high + 1 /\ new.next = high + 1
      /\ new.max = IF high + 1 > args.max THEN high + rest ELSE args.max
  BY <1>3 DEF RunTypes
<1>7. new.first - 1 = high
  BY <1>2, <1>6
<1> QED BY <1>2, <1>4, <1>5, <1>6, <1>7 DEF rest

(* The files chosen for the replay.                                        *)
LEMMA SelectedMeans ==
    ASSUME RunTypes
    PROVE  /\ Selected \subseteq Files
           /\ args.scoped /\ Listed # {} => Selected \subseteq Listed
           /\ \A i \in Selected : Readable(i) /\ args.scoped => stored[i] = "cur"
           /\ \A i \in Files :
                (IF args.scoped THEN stored[i] = "cur" ELSE Readable(i)) => i \in Selected
BY DEF Selected, Matching, Listed, Readable

LEMMA Counts ==
    ASSUME RunTypes
    PROVE  /\ IsFiniteSet(Sampled) /\ IsFiniteSet(Replayed) /\ IsFiniteSet(flight)
           /\ Cardinality(Sampled) \in Nat /\ Cardinality(Replayed) \in Nat /\ Cardinality(flight) \in Nat
           /\ Cardinality(merged) = Cardinality(Sampled) + Cardinality(Replayed)
           /\ Left \in Nat /\ Left >= 1 /\ Left >= args.max - Cardinality(Replayed)
           /\ Cardinality(Replayed) < loop.first
<1>1. /\ IsFiniteSet(Sampled) /\ IsFiniteSet(Replayed) /\ IsFiniteSet(flight)
  BY FS_Subset DEF RunTypes, Sampled, Replayed
<1>2. Cardinality(Sampled) \in Nat /\ Cardinality(Replayed) \in Nat /\ Cardinality(flight) \in Nat
  BY <1>1, FS_CardinalityType
<1>3. Cardinality(merged) = Cardinality(Sampled) + Cardinality(Replayed)
  <2>1. merged = Sampled \cup Replayed /\ Sampled \cap Replayed = {}
    BY DEF Sampled, Replayed
  <2>2. Cardinality({}) = 0
    BY FS_EmptySet
  <2>3. Cardinality(Sampled \cup Replayed)
          = Cardinality(Sampled) + Cardinality(Replayed) - Cardinality(Sampled \cap Replayed)
    BY <1>1, FS_Union
  <2>4. Cardinality(Sampled \cap Replayed) = 0 /\ Cardinality(Sampled \cup Replayed) = Cardinality(merged)
    BY <2>1, <2>2, Zenon
  <2> QED BY <1>2, <2>3, <2>4
<1>4. Left \in Nat /\ Left >= 1 /\ Left >= args.max - Cardinality(Replayed)
  BY <1>2, ArgsTyped DEF RunTypes, Left, Greater
<1>5. Cardinality(Replayed) < loop.first
  <2>1. Replayed \subseteq 1 .. (loop.first - 1) /\ loop.first \in Nat \ {0}
    BY DEF RunTypes, Replayed, Sampled
  <2>2. IsFiniteSet(1 .. (loop.first - 1)) /\ Cardinality(1 .. (loop.first - 1)) = loop.first - 1
    <3>1. 1 \in Int /\ loop.first - 1 \in Int
      BY <2>1
    <3>2. IsFiniteSet(1 .. (loop.first - 1))
      BY <3>1, FS_Interval, Zenon
    <3>3. Cardinality(1 .. (loop.first - 1)) = IF 1 > loop.first - 1 THEN 0 ELSE loop.first - 1 - 1 + 1
      BY <3>1, FS_Interval, Zenon
    <3> QED BY <2>1, <3>2, <3>3
  <2>3. Cardinality(Replayed) <= loop.first - 1
    BY <2>1, <2>2, FS_Subset
  <2> QED BY <1>2, <2>1, <2>3
<1> QED BY <1>1, <1>2, <1>3, <1>4, <1>5

-----------------------------------------------------------------------------
(* What an action leaves alone.                                            *)
LEMMA FilesSame ==
    ASSUME UNCHANGED <<args, stored>>
    PROVE  /\ Files' = Files /\ Listed' = Listed /\ Matching' = Matching /\ Selected' = Selected
           /\ \A i : Readable(i)' = Readable(i)
<1>1. Files' = Files /\ Listed' = Listed /\ Matching' = Matching /\ \A i : Readable(i)' = Readable(i)
  BY DEF Files, Listed, Matching, Readable
<1> QED BY <1>1 DEF Selected

LEMMA EngineFilesSame ==
    ASSUME UNCHANGED <<args, stored, merged>>
    PROVE  EngineFiles' = EngineFiles
BY FilesSame DEF EngineFiles

LEMMA SamplesSame ==
    ASSUME UNCHANGED <<args, merged>>, loop.first' = loop.first
    PROVE  Sampled' = Sampled /\ Replayed' = Replayed /\ Left' = Left /\ Dense' = Dense
<1>1. Sampled' = Sampled
  BY DEF Sampled
<1>2. Replayed' = Replayed
  BY <1>1 DEF Replayed
<1> QED BY <1>1, <1>2 DEF Left, Dense

LEMMA MergedSame ==
    ASSUME MergedOk, UNCHANGED <<args, stored, merged, lost>>
    PROVE  MergedOk'
BY FilesSame DEF MergedOk

LEMMA CountedSame ==
    ASSUME AllCounted, UNCHANGED <<args, stored, merged>>,
           Resumed' /\ reason' # "target_ci_reached_from_cache" =>
             Resumed /\ reason # "target_ci_reached_from_cache"
    PROVE  AllCounted'
<1>1. Files' = Files /\ \A i : Readable(i)' = Readable(i)
  BY FilesSame
<1> QED BY <1>1 DEF AllCounted

LEMMA NumbersSame ==
    ASSUME NumbersOk, UNCHANGED <<args, merged, flight>>,
           loop.first' = loop.first, loop.next' = loop.next, loop.max' = loop.max,
           fails.net' = fails.net, fails.machine' = fails.machine,
           Resumed' => Resumed,
           phase' \notin {"batch", "fetch"} /\ reason' = "max_chunks_reached" =>
             \/ phase \notin {"batch", "fetch"} /\ reason = "max_chunks_reached"
             \/ loop.next > loop.max
    PROVE  NumbersOk'
<1>1. Sampled' = Sampled /\ Replayed' = Replayed /\ Left' = Left /\ Dense' = Dense
  BY SamplesSame
<1> QED BY <1>1 DEF NumbersOk

LEMMA EmitSame ==
    ASSUME EmitOk, UNCHANGED <<emitted, chosen>>,
           phase' \notin {"emit", "ended"} => phase \notin {"emit", "ended"},
           phase' = "emit" => phase = "emit" \/ Len(EmitOrder) = Cardinality(chosen),
           report'.kind = "full" => report.kind = "full" \/ Len(emitted) = Cardinality(chosen)
    PROVE  EmitOk'
<1>1. EmitOrder' = EmitOrder
  BY DEF EmitOrder
<1> QED BY <1>1 DEF EmitOk

(* Before the report is begun there is little to say of it.                *)
LEMMA ReportNone ==
    ASSUME report'.kind = "none", phase' \notin {"sort", "emit", "ended"}
    PROVE  ReportOk'
BY DEF ReportOk, FailsForAReason

LEMMA AnalyzerStarts ==
    ASSUME AnalyzerInit
    PROVE  RunInv
<1> USE DEF AnalyzerInit
<1>1. IsFiniteSet({}) /\ Cardinality({}) = 0
  BY FS_EmptySet
<1>2. RunTypes
  <2>1. stored = [i \in Files |-> stored[i]] /\ Files \subseteq Nat \ {0} /\ IsFiniteSet(Files)
    BY ArgumentsAssumption DEF Files
  <2>2. args.max \in Nat \ {0} /\ args.conc \in Nat \ {0}
    BY ArgsTyped
  <2> QED BY <1>1, <2>1, <2>2 DEF RunTypes
<1>3. PlaceOk
  BY DEF PlaceOk, PastReplay
<1>4. ReplayOk /\ MergedOk /\ AllCounted /\ NumbersOk
  BY DEF ReplayOk, MergedOk, AllCounted, NumbersOk, Resumed, PastReplay
<1>5. BailOk
  BY <1>1, ArgsTyped, ArgumentsAssumption DEF BailOk
<1>6. ReportOk
  BY DEF ReportOk, FailsForAReason
<1>7. EmitOk
  <2>1. EmitOrder \in Seq(chosen)
    BY SortRight DEF EmitOrder, InOrder
  <2> QED BY <2>1 DEF EmitOk
<1> QED BY <1>2, <1>3, <1>4, <1>5, <1>6, <1>7 DEF RunInv

LEMMA BeginKeepsRun ==
    ASSUME RunInv, Begin
    PROVE  RunInv'
<1> USE DEF Begin, Abort, loopVars, reportVars, RunInv
<1>1. args.mode \in {"cache", "resume"} /\ UNCHANGED <<args, stored, merged, lost, loop, flight, fails, chosen, emitted, report, reason>>
  BY ArgsTyped DEF RunTypes
<1>2. RunTypes'
  BY <1>1 DEF RunTypes, Files
<1>3. merged = {} /\ report.kind = "none" /\ lost = {}
  BY DEF PlaceOk, ReportOk
<1>4. phase' = "read" \/ (phase' = "ended" /\ args.mode = "cache")
  OBVIOUS
<1>5. ~Resumed' /\ ~PastReplay'
  BY <1>1, <1>3, <1>4 DEF Resumed, PastReplay
<1>6. PlaceOk'
  BY <1>1, <1>4, <1>5 DEF PlaceOk
<1>7. ReplayOk'
  <2>1. Selected' = Selected /\ ToRead \subseteq Selected /\ (args.mode = "resume" => ToRead = Selected)
    BY <1>1, FilesSame DEF ToRead
  <2> QED BY <1>1, <1>3, <2>1 DEF ReplayOk
<1>8. MergedOk' /\ AllCounted' /\ NumbersOk'
  BY <1>1, <1>3, <1>5 DEF MergedOk, AllCounted, NumbersOk
<1>9. BailOk'
  BY <1>1, <1>4 DEF BailOk
<1>10. ReportOk'
  BY <1>1, <1>3, <1>4 DEF ReportOk, FailsForAReason
<1>11. EmitOk'
  BY <1>1, <1>3, <1>4, EmitSame
<1> QED BY <1>2, <1>6, <1>7, <1>8, <1>9, <1>10, <1>11

(* The loop starts with its indexes beyond what was read.                  *)
LEMMA NumberingKeeps ==
    ASSUME RunInv, phase = "read", UNCHANGED <<args, stored, lost, flight, fails, chosen, report>>,
           merged' \in SUBSET (Nat \ {0}), IsFiniteSet(merged'), merged' \subseteq Selected,
           lost \subseteq merged',
           loop' = Numbered(merged'), phase' \in {"engine", "batch"},
           phase' = "engine" => reason' # "max_chunks_reached"
    PROVE  RunTypes' /\ NumbersOk'
<1> USE DEF RunInv
<1>1. loop.max = args.max /\ flight = {} /\ fails.net = 0 /\ fails.machine = 0
  BY DEF PlaceOk
<1>2. args.scoped /\ Listed # {} => merged' \subseteq Listed
  BY SelectedMeans
<1>3. /\ DOMAIN loop' = DOMAIN loop /\ loop'.conc = loop.conc
      /\ loop'.first \in Nat \ {0} /\ loop'.next = loop'.first /\ loop'.max \in Nat
      /\ loop'.max = IF loop'.first > args.max
                     THEN loop'.first - 1 + Greater(1, args.max - Cardinality(merged')) ELSE args.max
      /\ \A i \in merged' : i < loop'.first
  BY <1>1, <1>2, NumberedRight
<1>4. RunTypes'
  BY <1>3 DEF RunTypes, Files
<1>5. Sampled' = {} /\ Replayed' = merged'
  BY <1>3 DEF Sampled, Replayed
<1>6. Cardinality(Sampled') = 0 /\ Cardinality(flight') = 0 /\ flight' = {}
  BY <1>1, <1>5, FS_EmptySet
<1>7. Cardinality(merged') \in Nat /\ args.max \in Nat \ {0} /\ args.conc \in Nat \ {0} /\ args' = args
  BY FS_CardinalityType, ArgsTyped DEF RunTypes
<1>8. Left' = Greater(1, args.max - Cardinality(merged'))
  BY <1>5 DEF Left
<1>9. Dense' => Cardinality(merged') + Cardinality(flight') <= loop'.max
  BY <1>3, <1>5, <1>6, <1>7 DEF Dense, Greater
<1>10. loop'.next <= loop'.max + args.conc
  BY <1>3, <1>7 DEF Greater
<1>11. Cardinality(Sampled') + Cardinality(flight') + fails'.net + fails'.machine = loop'.next - loop'.first
  BY <1>1, <1>3, <1>6
<1>12. loop'.max = IF loop'.first > args'.max THEN loop'.first - 1 + Left' ELSE args'.max
  BY <1>3, <1>7, <1>8
<1>13. Sampled' \cup flight' \subseteq loop'.first .. (loop'.next - 1) /\ Sampled' \cap flight' = {}
  BY <1>5, <1>6
<1>14. loop'.first <= loop'.next /\ loop'.next <= loop'.max + args'.conc
  BY <1>3, <1>7, <1>10
<1>15. ~(phase' \notin {"batch", "fetch"} /\ reason' = "max_chunks_reached")
  OBVIOUS
<1>16. NumbersOk'
  BY <1>9, <1>11, <1>12, <1>13, <1>14, <1>15 DEF NumbersOk
<1> QED BY <1>4, <1>16

LEMMA ReplayKeepsRun ==
    ASSUME RunInv, Replay
    PROVE  RunInv'
<1> USE DEF RunInv
<1>1. /\ UNCHANGED <<args, stored, lost, flight, fails, chosen, emitted, report>>
      /\ phase = "read" /\ unread # {} /\ report.kind = "none" /\ lost = {} /\ emitted = << >>
      /\ args.mode \in {"cache", "resume"}
  BY ArgsTyped DEF Replay, Abort, reportVars, ReportOk, PlaceOk, RunTypes, EmitOk
<1>2. PICK i : i = Min(unread) /\ i \in unread /\ i \in Selected /\ i \in Files /\ i \in Nat \ {0}
  <2>1. unread \in SUBSET Nat /\ unread \subseteq Selected /\ Selected \subseteq Files
    BY <1>1, SelectedMeans DEF ReplayOk, RunTypes
  <2>2. Min(unread) \in unread
    BY <2>1, <1>1, LeastReady
  <2> QED BY <2>1, <2>2 DEF RunTypes
<1>3. CASE ~Readable(i)
  <2>1. phase' = "ended" /\ UNCHANGED <<reason, unread, merged, loop>>
    BY <1>2, <1>3 DEF Replay, Abort
  <2>2. ~PastReplay' /\ ~Resumed'
    BY <1>1, <2>1 DEF PastReplay, Resumed
  <2>3. RunTypes'
    BY <1>1, <2>1 DEF RunTypes, Files
  <2>4. PlaceOk' /\ ReplayOk'
    BY <1>1, <2>1, <2>2 DEF PlaceOk, ReplayOk
  <2>5. MergedOk' /\ AllCounted' /\ NumbersOk' /\ BailOk'
    BY <1>1, <2>1, <2>2, MergedSame DEF AllCounted, NumbersOk, BailOk
  <2>6. ReportOk'
    <3>1. i \in Files' /\ ~Readable(i)'
      BY <1>1, <1>2, <1>3, FilesSame
    <3> QED BY <3>1, <1>1, <2>1 DEF ReportOk, FailsForAReason
  <2>7. EmitOk'
    BY <1>1, <2>1, EmitSame
  <2> QED BY <2>3, <2>4, <2>5, <2>6, <2>7
<1>4. CASE Readable(i)
  <2>1. /\ merged' = merged \cup {i} /\ unread' = unread \ {i}
        /\ \/ UNCHANGED <<phase, reason, loop>>
           \/ /\ args.mode = "resume"
              /\ phase' = "engine" /\ reason' = "target_ci_reached_from_cache"
              /\ loop' = Numbered(merged')
    BY <1>2, <1>4 DEF Replay
  <2>2. /\ merged' \in SUBSET (Nat \ {0}) /\ IsFiniteSet(merged') /\ lost' \subseteq merged'
        /\ merged' \subseteq Selected
    BY <1>1, <1>2, <2>1, FS_AddElement DEF RunTypes, ReplayOk
  <2>3. MergedOk'
    <3>1. Readable(i) /\ (args.scoped => stored[i] = "cur")
      BY <1>2, <1>4, SelectedMeans
    <3>2. /\ Files' = Files /\ \A j : Readable(j)' = Readable(j)
      BY <1>1, FilesSame
    <3> QED BY <3>1, <3>2, <1>1, <1>2, <2>1 DEF MergedOk
  <2>4. phase' \in {"read", "engine"} /\ ReportOk'
    BY <1>1, <2>1, ReportNone
  <2>5. EmitOk'
    BY <1>1, <2>4, EmitSame
  <2>6. BailOk'
    BY <1>1, <2>4, ArgumentsAssumption DEF BailOk
  <2>7. CASE UNCHANGED <<phase, reason, loop>>
    <3>1. RunTypes'
      BY <1>1, <2>1, <2>2, <2>7 DEF RunTypes, Files
    <3>2. ~PastReplay' /\ ~Resumed'
      BY <1>1, <2>7 DEF PastReplay, Resumed
    <3>3. PlaceOk'
      BY <1>1, <2>7, <3>2 DEF PlaceOk
    <3>4. ReplayOk'
      <4>1. Selected' = Selected
        BY <1>1, FilesSame
      <4> QED BY <4>1, <1>1, <1>2, <2>1, <2>7 DEF ReplayOk
    <3>5. AllCounted' /\ NumbersOk'
      BY <3>2 DEF AllCounted, NumbersOk
    <3> QED BY <2>3, <2>4, <2>5, <2>6, <3>1, <3>3, <3>4, <3>5
  <2>8. CASE /\ args.mode = "resume" /\ phase' = "engine" /\ reason' = "target_ci_reached_from_cache"
             /\ loop' = Numbered(merged')
    <3>1. RunTypes' /\ NumbersOk'
      BY <1>1, <2>2, <2>8, NumberingKeeps
    <3>2. PlaceOk' /\ ReplayOk' /\ AllCounted'
      BY <1>1, <2>8 DEF PlaceOk, ReplayOk, AllCounted
    <3> QED BY <2>3, <2>4, <2>5, <2>6, <3>1, <3>2
  <2> QED BY <2>1, <2>7, <2>8
<1> QED BY <1>3, <1>4

LEMMA ReplayDoneKeepsRun ==
    ASSUME RunInv, ReplayDone
    PROVE  RunInv'
<1> USE DEF RunInv
<1>1. /\ UNCHANGED <<args, stored, merged, unread, lost, flight, fails, chosen, emitted, report>>
      /\ phase = "read" /\ unread = {} /\ report.kind = "none" /\ args.mode \in {"cache", "resume"}
  BY ArgsTyped DEF ReplayDone, reportVars, ReportOk, RunTypes
<1>2. /\ phase' \in {"engine", "batch"} /\ merged \subseteq Selected
      /\ args.mode = "cache" => phase' = "engine" /\ reason' = "from_cache_complete" /\ loop' = loop
      /\ args.mode = "resume" => phase' = "batch" /\ reason' = reason /\ loop' = Numbered(merged) /\ merged = Selected
  BY <1>1 DEF ReplayDone, ReplayOk
<1>3. MergedOk' /\ ReportOk' /\ EmitOk'
  BY <1>1, <1>2, MergedSame, ReportNone, EmitSame
<1>4. BailOk'
  BY <1>1, <1>2 DEF BailOk
<1>5. PlaceOk' /\ ReplayOk'
  BY <1>1, <1>2 DEF PlaceOk, ReplayOk
<1>6. AllCounted'
  <2>1. \A j \in Files : (IF args.scoped THEN stored[j] = "cur" ELSE Readable(j)) => j \in Selected
    BY SelectedMeans
  <2>2. Files' = Files /\ \A j : Readable(j)' = Readable(j)
    BY <1>1, FilesSame
  <2> QED BY <1>1, <1>2, <2>1, <2>2 DEF AllCounted, Resumed
<1>7. RunTypes' /\ NumbersOk'
  <2>1. CASE args.mode = "cache"
    BY <1>1, <1>2, <2>1 DEF RunTypes, Files, NumbersOk, Resumed
  <2>2. CASE args.mode = "resume"
    <3>1. merged' = merged /\ merged \in SUBSET (Nat \ {0}) /\ IsFiniteSet(merged) /\ lost \subseteq merged
      BY <1>1 DEF RunTypes
    <3> QED BY <1>1, <1>2, <2>2, <3>1, NumberingKeeps
  <2> QED BY <2>1, <2>2, <1>1
<1> QED BY <1>3, <1>4, <1>5, <1>6, <1>7

(* What only moves the run, within the loop or out of it.                  *)
LEMMA MoveKeepsRun ==
    ASSUME RunInv, UNCHANGED <<args, stored, unread, merged, lost, flight, chosen, emitted, report>>,
           loop.first' = loop.first, loop.next' = loop.next, loop.max' = loop.max, RunTypes',
           fails.net' = fails.net, fails.machine' = fails.machine,
           \/ phase' = phase /\ reason' = reason
           \/ /\ phase \in {"batch", "fetch"} /\ flight = {} /\ phase' = "engine"
              /\ reason' # "target_ci_reached_from_cache"
              /\ reason' = "max_chunks_reached" => loop.next > loop.max
           \/ /\ phase = "fetch" /\ flight = {} /\ phase' = "batch" /\ reason' = reason
              /\ fails.net <= MaxNet /\ fails.machine <= MaxMachine
    PROVE  RunInv'
<1> USE DEF RunInv
<1>1. args.mode \in {"cache", "resume"}
  BY ArgsTyped DEF RunTypes
<1>2. phase \in {"batch", "fetch"} => args.mode = "resume" /\ reason = "max_chunks_reached"
  BY <1>1 DEF PlaceOk
<1>3. PastReplay' = PastReplay /\ Resumed' = Resumed
  BY DEF PastReplay, Resumed
<1>4. MergedOk' /\ AllCounted'
  BY <1>2, <1>3, MergedSame, CountedSame
<1>5. PlaceOk'
  BY <1>2, <1>3 DEF PlaceOk
<1>6. ReplayOk'
  BY FilesSame DEF ReplayOk
<1>7. NumbersOk'
  BY <1>2, <1>3, NumbersSame
<1>8. BailOk'
  BY DEF BailOk
<1>9. ReportOk'
  <2>1. CASE phase' = phase
    <3>1. /\ Files' = Files /\ EngineFiles' = EngineFiles
          /\ \A j : Readable(j)' = Readable(j)
      BY FilesSame, EngineFilesSame
    <3> QED BY <2>1, <3>1 DEF ReportOk, FailsForAReason
  <2>2. CASE phase' # phase
    BY <2>2, ReportNone DEF ReportOk
  <2> QED BY <2>1, <2>2
<1>10. EmitOk'
  BY EmitSame
<1> QED BY <1>4, <1>5, <1>6, <1>7, <1>8, <1>9, <1>10

LEMMA LoopMovesKeepRun ==
    ASSUME RunInv, AskToStop \/ BudgetSpent \/ StopBeforeBatch \/ UNCHANGED analyzerVars
    PROVE  RunInv'
<1> USE DEF AskToStop, BudgetSpent, StopBeforeBatch, Leave, analyzerVars, loopVars, reportVars
<1>1. UNCHANGED <<args, stored, unread, merged, lost, loop, flight, fails, chosen, emitted, report>>
  OBVIOUS
<1>2. RunTypes'
  BY <1>1 DEF RunInv, RunTypes, Files
<1>3. \/ phase' = phase /\ reason' = reason
      \/ /\ phase = "batch" /\ phase' = "engine"
         /\ (reason' = reason /\ loop.next > loop.max) \/ reason' \in {"user_stop", "disk_low"}
  OBVIOUS
<1>4. phase = "batch" => flight = {} /\ reason = "max_chunks_reached"
  BY DEF RunInv, PlaceOk
<1> QED BY <1>1, <1>2, <1>3, <1>4, MoveKeepsRun

LEMMA SubmitKeepsRun ==
    ASSUME RunInv, Submit
    PROVE  RunInv'
<1> USE DEF RunInv
<1> DEFINE sent == loop.next .. (loop.next + BatchSize - 1)
<1>1. /\ UNCHANGED <<args, stored, unread, merged, lost, fails, reason, chosen, emitted, report>>
      /\ phase = "batch" /\ phase' = "fetch" /\ loop.next <= loop.max /\ BatchSize > 0
      /\ flight' = sent /\ loop' = [loop EXCEPT !.next = @ + BatchSize]
  BY DEF Submit, reportVars
<1>2. /\ args.mode = "resume" /\ flight = {} /\ args.max \in Nat \ {0} /\ args.conc \in Nat \ {0}
      /\ Resumed /\ Resumed' /\ report.kind = "none" /\ reason = "max_chunks_reached"
  BY <1>1, ArgsTyped DEF RunTypes, PlaceOk, Resumed, PastReplay, ReportOk
<1>3. /\ loop.first \in Nat \ {0} /\ loop.next \in Nat /\ loop.max \in Nat /\ loop.conc \in 1 .. args.conc
      /\ DOMAIN loop = {"first", "next", "max", "conc", "spins"}
      /\ fails.net \in Nat /\ fails.machine \in Nat
      /\ Cardinality(merged) \in Nat /\ Cardinality(Sampled) \in Nat
  BY Counts, FS_CardinalityType DEF RunTypes
<1>4. /\ BatchSize \in Nat \ {0} /\ BatchSize <= loop.conc /\ BatchSize <= loop.max - Cardinality(merged)
      /\ BatchSize <= args.conc
  BY <1>1, <1>2, <1>3 DEF BatchSize, Lesser
<1>5. IsFiniteSet(sent) /\ Cardinality(sent) = BatchSize /\ sent \in SUBSET Nat
  <2>1. PICK a \in Int, b \in Int : a = loop.next /\ b = loop.next + BatchSize - 1
    BY <1>3, <1>4
  <2>2. IsFiniteSet(a .. b) /\ Cardinality(a .. b) = IF a > b THEN 0 ELSE b - a + 1
    BY FS_Interval
  <2> QED BY <1>3, <1>4, <2>1, <2>2
<1>6. /\ DOMAIN loop' = DOMAIN loop /\ loop'.first = loop.first /\ loop'.max = loop.max
      /\ loop'.conc = loop.conc /\ loop'.next = loop.next + BatchSize
  BY <1>1, <1>3
<1> HIDE DEF sent
<1>7. RunTypes'
  BY <1>1, <1>3, <1>4, <1>5, <1>6 DEF RunTypes, Files
<1>8. PlaceOk' /\ ReplayOk'
  BY <1>1, <1>2 DEF PlaceOk, ReplayOk
<1>9. MergedOk' /\ AllCounted' /\ ReportOk' /\ EmitOk'
  BY <1>1, <1>2, MergedSame, CountedSame, ReportNone, EmitSame
<1>10. NumbersOk'
  <2>1. Sampled' = Sampled /\ Replayed' = Replayed /\ Left' = Left /\ Dense' = Dense
    BY <1>1, <1>6, SamplesSame
  <2>2. Cardinality(flight) = 0
    BY <1>2, FS_EmptySet
  <2>3. /\ loop.max = IF loop.first > args.max THEN loop.first - 1 + Left ELSE args.max
        /\ Sampled \subseteq loop.first .. (loop.next - 1) /\ loop.first <= loop.next
        /\ Cardinality(Sampled) + fails.net + fails.machine = loop.next - loop.first
    BY <1>2, <1>3, <2>2 DEF NumbersOk
  <2>4. Sampled' \cup flight' \subseteq loop'.first .. (loop'.next - 1) /\ Sampled' \cap flight' = {}
    BY <1>1, <1>3, <1>4, <1>6, <2>1, <2>3 DEF sent
  <2>5. Cardinality(Sampled') + Cardinality(flight') + fails'.net + fails'.machine = loop'.next - loop'.first
    BY <1>1, <1>3, <1>4, <1>5, <1>6, <2>1, <2>3
  <2>6. Cardinality(merged') + Cardinality(flight') <= loop'.max
    BY <1>1, <1>3, <1>4, <1>5, <1>6
  <2>7. loop'.first <= loop'.next /\ loop'.next <= loop'.max + args'.conc
    BY <1>1, <1>2, <1>3, <1>4, <1>6, <2>3
  <2>8. loop'.max = IF loop'.first > args'.max THEN loop'.first - 1 + Left' ELSE args'.max
    BY <1>1, <1>6, <2>1, <2>3
  <2> QED BY <1>1, <2>4, <2>5, <2>6, <2>7, <2>8 DEF NumbersOk
<1>11. BailOk'
  <2>1. fails.net <= MaxNet /\ fails.machine <= MaxMachine
    BY <1>1 DEF BailOk
  <2> QED BY <1>1, <1>2, <1>3, <1>4, <1>5, <2>1, ArgumentsAssumption DEF BailOk
<1> QED BY <1>7, <1>8, <1>9, <1>10, <1>11

LEMMA AnswerKeepsRun ==
    ASSUME RunInv, NEW i \in flight, Answer(i)
    PROVE  RunInv'
<1> USE DEF RunInv
<1>1. /\ UNCHANGED <<args, unread, phase, loop, reason, chosen, emitted, report>>
      /\ phase = "fetch" /\ flight' = flight \ {i}
  BY DEF Answer, reportVars
<1>2. \/ stored' = [j \in Files \cup {i} |-> IF j = i THEN "cur" ELSE stored[j]] /\ lost' = lost /\ Merge(i)
      \/ stored' = stored /\ lost' = lost \cup {i} /\ Merge(i)
      \/ /\ stored' = [j \in Files \cup {i} |-> IF j = i THEN "rejected" ELSE stored[j]] /\ lost' = lost
         /\ Fail("machine")
      \/ stored' = stored /\ lost' = lost /\ (Fail("net") \/ Fail("machine"))
  BY DEF Answer, Save
<1>3. /\ args.mode = "resume" /\ Resumed /\ Resumed' /\ report.kind = "none"
      /\ reason = "max_chunks_reached" /\ args.conc \in Nat \ {0}
  BY <1>1, ArgsTyped DEF RunTypes, PlaceOk, Resumed, PastReplay, ReportOk
<1>4. /\ loop.first \in Nat \ {0} /\ loop.next \in Nat /\ loop.max \in Nat
      /\ fails.net \in Nat /\ fails.machine \in Nat
      /\ DOMAIN fails = {"net", "machine", "batches", "band"}
      /\ Cardinality(merged) \in Nat /\ Cardinality(Sampled) \in Nat /\ Cardinality(flight) \in Nat
      /\ IsFiniteSet(merged) /\ IsFiniteSet(Sampled) /\ IsFiniteSet(flight)
  BY Counts, FS_CardinalityType DEF RunTypes
<1>5. /\ Sampled \cup flight \subseteq loop.first .. (loop.next - 1) /\ Sampled \cap flight = {}
      /\ Cardinality(Sampled) + Cardinality(flight) + fails.net + fails.machine = loop.next - loop.first
      /\ loop.max = IF loop.first > args.max THEN loop.first - 1 + Left ELSE args.max
      /\ loop.first <= loop.next /\ loop.next <= loop.max + args.conc
      /\ Dense => Cardinality(merged) + Cardinality(flight) <= loop.max
  BY <1>3 DEF NumbersOk
<1>6. i \in Nat \ {0} /\ i >= loop.first /\ i \notin merged
  BY <1>4, <1>5 DEF Sampled, RunTypes
<1>7. IsFiniteSet(flight') /\ Cardinality(flight') = Cardinality(flight) - 1
  BY <1>1, <1>4, FS_RemoveElement
<1>8. \/ merged' = merged \cup {i} /\ fails' = fails
      \/ /\ merged' = merged /\ DOMAIN fails' = DOMAIN fails
         /\ \/ fails'.net = fails.net + 1 /\ fails'.machine = fails.machine
            \/ fails'.net = fails.net /\ fails'.machine = fails.machine + 1
  BY <1>2, <1>4 DEF Merge, Fail
<1>9. IsFiniteSet(merged') /\ (merged' = merged \cup {i} => Cardinality(merged') = Cardinality(merged) + 1)
  BY <1>4, <1>6, <1>8, FS_AddElement
<1>10. stored' = [j \in Files' |-> stored'[j]] /\ Files' \in {Files, Files \cup {i}}
  BY <1>2 DEF RunTypes, Files
<1>11. RunTypes'
  <2>1. Files' \subseteq Nat \ {0} /\ IsFiniteSet(Files')
    BY <1>6, <1>10, FS_AddElement DEF RunTypes
  <2>2. lost' \subseteq merged' /\ merged' \subseteq Nat \ {0}
    BY <1>2, <1>6, <1>8 DEF RunTypes, Merge, Fail
  <2>3. fails'.net \in Nat /\ fails'.machine \in Nat /\ DOMAIN fails' = DOMAIN fails
    BY <1>4, <1>8
  <2>4. flight' \subseteq Nat
    BY <1>1 DEF RunTypes
  <2> QED BY <1>1, <1>7, <1>9, <1>10, <2>1, <2>2, <2>3, <2>4 DEF RunTypes
<1>12. PlaceOk' /\ ReplayOk'
  BY <1>1, <1>3 DEF PlaceOk, ReplayOk
<1>13. \A j \in merged : (j \in Files' <=> j \in Files) /\ (j \in Files => stored'[j] = stored[j])
  BY <1>2, <1>6 DEF Files, RunTypes
<1>14. MergedOk'
  BY <1>1, <1>2, <1>6, <1>13 DEF MergedOk, Merge, Fail, Readable, Files
<1>15. AllCounted'
  <2>1. \A j \in Files : (IF args.scoped THEN stored[j] = "cur" ELSE Readable(j)) => j \in merged
    BY <1>3 DEF AllCounted
  <2>2. \A j \in Files' : \/ j \in Files /\ stored'[j] = stored[j]
                          \/ j = i /\ (i \in merged' \/ stored'[j] = "rejected")
    BY <1>2, <1>10 DEF Merge, Files
  <2>3. merged \subseteq merged'
    BY <1>8
  <2> QED BY <1>1, <2>1, <2>2, <2>3 DEF AllCounted, Readable
<1>16. NumbersOk'
  <2>1. Replayed' = Replayed
    BY <1>1, <1>4, <1>6, <1>8 DEF Replayed, Sampled, RunTypes
  <2>2. Left' = Left /\ Dense' = Dense
    BY <1>1, <2>1 DEF Left, Dense
  <2>3. \/ /\ Sampled' = Sampled \cup {i} /\ Cardinality(Sampled') = Cardinality(Sampled) + 1
           /\ fails' = fails /\ Cardinality(merged') = Cardinality(merged) + 1
        \/ /\ Sampled' = Sampled /\ merged' = merged
           /\ fails'.net + fails'.machine = fails.net + fails.machine + 1
           /\ fails'.net \in Nat /\ fails'.machine \in Nat
    <3>1. CASE merged' = merged \cup {i} /\ fails' = fails
      <4>1. Sampled' = Sampled \cup {i} /\ i \notin Sampled
        BY <1>1, <1>6, <3>1 DEF Sampled
      <4>2. Cardinality(Sampled') = Cardinality(Sampled) + 1
        BY <1>4, <4>1, FS_AddElement
      <4> QED BY <1>9, <3>1, <4>1, <4>2
    <3>2. CASE merged' # merged \cup {i}
      BY <1>1, <1>4, <1>8, <3>2 DEF Sampled
    <3>3. CASE merged' = merged
      BY <1>6, <3>1, <3>2, <3>3
    <3> QED BY <1>8, <3>1, <3>2, <3>3
  <2>4. Sampled' \cup flight' \subseteq loop'.first .. (loop'.next - 1) /\ Sampled' \cap flight' = {}
    BY <1>1, <1>5, <2>3
  <2>5. Cardinality(Sampled') + Cardinality(flight') + fails'.net + fails'.machine = loop'.next - loop'.first
    BY <1>1, <1>4, <1>5, <1>7, <2>3
  <2>6. Dense' => Cardinality(merged') + Cardinality(flight') <= loop'.max
    BY <1>1, <1>4, <1>5, <1>7, <2>2, <2>3
  <2> QED BY <1>1, <1>5, <2>2, <2>4, <2>5, <2>6 DEF NumbersOk
<1>17. BailOk'
  <2>1. fails.net + Cardinality(flight) <= MaxNet + args.conc
    BY DEF BailOk
  <2>2. fails.machine + Cardinality(flight) <= MaxMachine + args.conc
    BY DEF BailOk
  <2> QED BY <1>1, <1>3, <1>4, <1>7, <1>8, <2>1, <2>2, ArgumentsAssumption DEF BailOk
<1>18. ReportOk' /\ EmitOk'
  BY <1>1, <1>3, ReportNone, EmitSame
<1> QED BY <1>11, <1>12, <1>14, <1>15, <1>16, <1>17, <1>18

LEMMA TunedKeeps ==
    ASSUME RunTypes, NEW halve \in BOOLEAN
    PROVE  /\ DOMAIN Tuned(halve) = DOMAIN loop /\ Tuned(halve).first = loop.first
           /\ Tuned(halve).next = loop.next /\ Tuned(halve).max = loop.max
           /\ Tuned(halve).conc \in 1 .. args.conc
<1>1. args.conc \in Nat \ {0} /\ loop.conc \in 1 .. args.conc
  BY ArgsTyped DEF RunTypes
<1>2. Greater(1, loop.conc \div 2) \in 1 .. args.conc
  <2>1. loop.conc \div 2 \in Int /\ loop.conc \div 2 <= loop.conc
    BY <1>1
  <2> QED BY <1>1, <2>1 DEF Greater
<1>3. Lesser(args.conc, loop.conc + 1) \in 1 .. args.conc
  BY <1>1 DEF Lesser
<1> QED BY <1>2, <1>3 DEF Tuned, RunTypes

LEMMA BatchDoneKeepsRun ==
    ASSUME RunInv, BatchDone
    PROVE  RunInv'
<1> USE DEF RunInv
<1>1. /\ UNCHANGED <<args, stored, unread, merged, lost, flight, chosen, emitted, report>>
      /\ phase = "fetch" /\ flight = {}
  BY DEF BatchDone, reportVars
<1>2. /\ \E b, d : fails' = [fails EXCEPT !.batches = b, !.band = d]
      /\ \E halve \in BOOLEAN : loop' = Tuned(halve)
      /\ \/ phase' = "engine" /\ reason' \in {"machine_bug", "upstream_unstable", "target_ci_reached",
                                             "non_convergence_abort"}
         \/ /\ phase' = "batch" /\ reason' = reason
            /\ ~(fails.machine >= MaxMachine) /\ ~(fails.net >= MaxNet)
  BY DEF BatchDone, Leave
<1>3. fails'.net = fails.net /\ fails'.machine = fails.machine /\ DOMAIN fails' = DOMAIN fails
  BY <1>2 DEF RunTypes
<1>4. /\ DOMAIN loop' = DOMAIN loop /\ loop'.first = loop.first
      /\ loop'.next = loop.next /\ loop'.max = loop.max
      /\ loop'.conc \in 1 .. args.conc
  BY <1>2, TunedKeeps
<1>5. RunTypes'
  BY <1>1, <1>2, <1>3, <1>4 DEF RunTypes, Files
<1>6. phase' = "batch" => fails.net <= MaxNet /\ fails.machine <= MaxMachine
  BY <1>2, ArgumentsAssumption DEF RunTypes
<1> QED BY <1>1, <1>2, <1>3, <1>4, <1>5, <1>6, MoveKeepsRun

-----------------------------------------------------------------------------
(* The report.                                                             *)
LEMMA AnalyseKeepsRun ==
    ASSUME RunInv, Analyse
    PROVE  RunInv'
<1> USE DEF RunInv
<1>1. /\ UNCHANGED <<args, stored, unread, merged, lost, loop, flight, fails, reason, emitted>>
      /\ phase = "engine" /\ report.kind = "none" /\ emitted = << >>
  BY DEF Analyse, loopVars, ReportOk, EmitOk
<1>2. /\ Files' = Files /\ EngineFiles' = EngineFiles
      /\ \A j : Readable(j)' = Readable(j)
  BY <1>1, FilesSame, EngineFilesSame
<1>3. /\ chosen' \in SUBSET DOMAIN Requires /\ DOMAIN report' = DOMAIN report
      /\ \/ phase' = "ended" /\ report'.kind = "empty" /\ merged = {}
         \/ /\ phase' = "ended" /\ report'.kind = "failed" /\ merged # {}
            /\ ~args.registered \/ EngineFiles = {} \/ \E j \in EngineFiles : ~Readable(j)
         \/ /\ phase' = "sort" /\ report'.kind = "none" /\ report'.covers = EngineFiles
            /\ merged # {} /\ \A j \in EngineFiles : Readable(j)
  <2>1. chosen \in SUBSET DOMAIN Requires /\ DOMAIN report = {"kind", "covers"}
    BY DEF RunTypes
  <2> QED BY <1>1, <2>1 DEF Analyse
<1>4. PastReplay' = PastReplay /\ Resumed' = Resumed
  BY <1>1, <1>3 DEF PastReplay, Resumed
<1>5. RunTypes'
  BY <1>1, <1>2, <1>3 DEF RunTypes
<1>6. PlaceOk' /\ ReplayOk'
  BY <1>1, <1>3, <1>4 DEF PlaceOk, ReplayOk
<1>7. MergedOk' /\ AllCounted'
  BY <1>1, <1>4, MergedSame, CountedSame
<1>8. NumbersOk'
  BY <1>1, <1>4, NumbersSame
<1>9. BailOk'
  BY <1>1, <1>3 DEF BailOk
<1>10. ReportOk'
  <2>1. FailsForAReason'
    <3>1. CASE report'.kind = "failed"
      <4>1. ASSUME args.registered, lost = {}
            PROVE  \E j \in Files : ~Readable(j)
        <5>1. EngineFiles \subseteq Files /\ EngineFiles # {}
          <6>1. Files # {} /\ Matching \subseteq Files
            BY <1>3, <3>1, <4>1 DEF MergedOk, Matching
          <6> QED BY <6>1 DEF EngineFiles
        <5> QED BY <1>3, <3>1, <4>1, <5>1
      <4> QED BY <1>1, <1>2, <4>1 DEF FailsForAReason
    <3>2. CASE report'.kind # "failed"
      BY <1>1, <1>3, <3>2 DEF FailsForAReason
    <3> QED BY <3>1, <3>2
  <2>2. \/ report'.covers = EngineFiles' /\ merged' # {} /\ \A j \in EngineFiles' : Readable(j)'
        \/ phase' = "ended" /\ report'.kind # "full"
    BY <1>1, <1>2, <1>3
  <2> QED BY <1>3, <2>1, <2>2 DEF ReportOk
<1>11. EmitOk'
  <2>1. EmitOrder' \in Seq(chosen')
    BY <1>3, SortRight DEF EmitOrder, InOrder
  <2>2. DOMAIN emitted' = {} /\ Len(emitted') = 0 /\ emitted' \in Seq(chosen')
    BY <1>1
  <2> QED BY <1>1, <1>3, <2>1, <2>2 DEF EmitOk
<1> QED BY <1>5, <1>6, <1>7, <1>8, <1>9, <1>10, <1>11

(* What the sort and the emits leave alone.                                *)
LEMMA EmittingKeeps ==
    ASSUME RunInv, UNCHANGED <<args, stored, unread, merged, lost, loop, flight, fails, reason, chosen>>,
           phase \in {"sort", "emit"}, phase' \in {"emit", "ended"},
           DOMAIN report' = DOMAIN report, report'.covers = report.covers,
           phase' = "emit" => report'.kind = report.kind,
           phase' = "ended" => report'.kind \in {"init_error", "full"}
    PROVE  /\ RunTypes' /\ PlaceOk' /\ ReplayOk' /\ MergedOk' /\ AllCounted' /\ NumbersOk' /\ BailOk'
           /\ FailsForAReason' => ReportOk'
<1> USE DEF RunInv
<1>1. PastReplay' = PastReplay /\ Resumed' = Resumed
  BY DEF PastReplay, Resumed
<1>2. RunTypes'
  BY DEF RunTypes, Files
<1>3. PlaceOk' /\ ReplayOk'
  BY <1>1 DEF PlaceOk, ReplayOk
<1>4. MergedOk' /\ AllCounted' /\ NumbersOk'
  BY <1>1, MergedSame, CountedSame, NumbersSame
<1>5. BailOk'
  BY DEF BailOk
<1>6. EngineFiles' = EngineFiles /\ \A j : Readable(j)' = Readable(j)
  BY FilesSame, EngineFilesSame
<1>7. FailsForAReason' => ReportOk'
  BY <1>6 DEF ReportOk
<1> QED BY <1>2, <1>3, <1>4, <1>5, <1>7

LEMMA SortKeepsRun ==
    ASSUME RunInv, Sort
    PROVE  RunInv'
<1> USE DEF RunInv
<1>1. /\ UNCHANGED <<args, stored, unread, merged, lost, loop, flight, fails, reason, chosen, emitted>>
      /\ phase = "sort" /\ report.kind = "none" /\ emitted = << >>
      /\ chosen \in SUBSET DOMAIN Requires /\ DOMAIN report = {"kind", "covers"}
  BY DEF Sort, loopVars, ReportOk, EmitOk, RunTypes
<1>2. \/ /\ phase' = "ended" /\ report' = [report EXCEPT !.kind = "init_error"]
         /\ (\E f \in chosen : ~(Requires[f] \subseteq chosen)) \/ Len(EmitOrder) < Cardinality(chosen)
      \/ /\ phase' = "emit" /\ report' = report
         /\ ~(Len(EmitOrder) < Cardinality(chosen))
  BY <1>1 DEF Sort, InitError
<1>3. /\ EmitOrder \in Seq(chosen) /\ Len(EmitOrder) <= Cardinality(chosen)
      /\ (\A f \in chosen : Requires[f] \subseteq chosen) => Len(EmitOrder) = Cardinality(chosen)
  BY <1>1, SortRight, SortWhole DEF EmitOrder, InOrder
<1>4. Cardinality(chosen) \in Nat /\ Len(EmitOrder) \in Nat
  BY <1>1, <1>3, RequiresAssumption, FS_Subset, FS_CardinalityType
<1>5. FailsForAReason'
  BY <1>1, <1>2, <1>3, <1>4 DEF FailsForAReason
<1>6. EmitOk'
  BY <1>1, <1>2, <1>3, <1>4, EmitSame
<1> QED BY <1>1, <1>2, <1>5, <1>6, EmittingKeeps

LEMMA EmitKeepsRun ==
    ASSUME RunInv, Emit
    PROVE  RunInv'
<1> USE DEF RunInv
<1>1. /\ UNCHANGED <<args, stored, unread, merged, lost, loop, flight, fails, reason, chosen, phase, report>>
      /\ phase = "emit" /\ Len(emitted) < Cardinality(chosen)
      /\ emitted' = Append(emitted, EmitOrder[Len(emitted) + 1])
      /\ report.kind = "none" /\ chosen \in SUBSET DOMAIN Requires
  BY DEF Emit, loopVars, ReportOk, RunTypes
<1>2. /\ EmitOrder \in Seq(chosen) /\ EmitOrder' = EmitOrder /\ Len(EmitOrder) = Cardinality(chosen)
      /\ emitted \in Seq(chosen) /\ \A k \in DOMAIN emitted : emitted[k] = EmitOrder[k]
  BY <1>1, SortRight DEF EmitOrder, InOrder, EmitOk
<1>3. Len(emitted) + 1 \in 1 .. Len(EmitOrder)
  BY <1>1, <1>2
<1>4. EmitOrder[Len(emitted) + 1] \in chosen
  BY <1>2, <1>3
<1>5. /\ emitted' \in Seq(chosen') /\ Len(emitted') = Len(emitted) + 1
      /\ \A k \in DOMAIN emitted' : emitted'[k] = EmitOrder[k]
  BY <1>1, <1>2, <1>4
<1>6. EmitOk'
  BY <1>1, <1>2, <1>3, <1>5 DEF EmitOk
<1>7. FailsForAReason'
  BY <1>1 DEF FailsForAReason
<1> QED BY <1>1, <1>6, <1>7, EmittingKeeps

LEMMA WriteSummaryKeepsRun ==
    ASSUME RunInv, WriteSummary
    PROVE  RunInv'
<1> USE DEF RunInv
<1>1. /\ UNCHANGED <<args, stored, unread, merged, lost, loop, flight, fails, reason, chosen, emitted>>
      /\ phase = "emit" /\ Len(emitted) = Cardinality(chosen) /\ phase' = "ended"
      /\ report' = [report EXCEPT !.kind = "full"] /\ DOMAIN report = {"kind", "covers"}
  BY DEF WriteSummary, loopVars, RunTypes
<1>2. EmitOk'
  BY <1>1, EmitSame
<1>3. FailsForAReason'
  BY <1>1 DEF FailsForAReason
<1> QED BY <1>1, <1>2, <1>3, EmittingKeeps

LEMMA AnalyzerStepKeeps ==
    ASSUME RunInv, [AnalyzerNext]_analyzerVars
    PROVE  RunInv'
<1>1. CASE \E i \in flight : Answer(i)
  BY <1>1, AnswerKeepsRun
<1>2. CASE Exited
  BY <1>2, LoopMovesKeepRun DEF Exited
<1> QED BY <1>1, <1>2, BeginKeepsRun, ReplayKeepsRun, ReplayDoneKeepsRun, LoopMovesKeepRun, SubmitKeepsRun,
           BatchDoneKeepsRun, AnalyseKeepsRun, SortKeepsRun, EmitKeepsRun, WriteSummaryKeepsRun
        DEF AnalyzerNext

(* The analyzer's inductive invariant, of every reachable state.           *)
THEOREM RunsSound == AnalyzerSpec => []RunInv
<1>1. AnalyzerInit => RunInv
  BY AnalyzerStarts
<1>2. RunInv /\ [AnalyzerNext]_analyzerVars => RunInv'
  BY AnalyzerStepKeeps
<1> QED BY <1>1, <1>2, PTL DEF AnalyzerSpec

(* Its variables stay in their types: above all, a batch overshoots the    *)
(* bail-out limits by no more than its own size.                           *)
THEOREM RunsTyped == AnalyzerSpec => []AnalyzerTypeOK
<1>1. RunInv => AnalyzerTypeOK
  <2> SUFFICES ASSUME RunInv PROVE AnalyzerTypeOK
    OBVIOUS
  <2>1. RunTypes /\ BailOk /\ Cardinality(flight) \in Nat
    BY Counts DEF RunInv
  <2>2. args.conc \in Nat \ {0}
    BY <2>1, ArgsTyped DEF RunTypes
  <2> QED BY <2>1, <2>2, ArgumentsAssumption DEF RunTypes, BailOk, AnalyzerTypeOK, Files
<1> QED BY <1>1, RunsSound, PTL

(* A report is made from the chunks that were counted, is missing only for *)
(* a reason, and shows each plugin once, after all it requires.            *)
THEOREM ReportsAreFaithful == AnalyzerSpec => []ReportFaithful
<1>1. RunInv => ReportFaithful
  <2> SUFFICES ASSUME RunInv PROVE ReportFaithful
    OBVIOUS
  <2> USE DEF RunInv
  <2>1. CoversWhatWasCounted
    <3> SUFFICES ASSUME report.kind = "full", lost = {}
                 PROVE  /\ args.scoped => report.covers \subseteq Matching
                        /\ merged \subseteq report.covers
                        /\ \/ merged = report.covers
                           \/ reason \in {"target_ci_reached_from_cache", "from_cache_complete"}
      BY DEF CoversWhatWasCounted
    <3>1. /\ report.covers = EngineFiles /\ merged # {} /\ \A i \in EngineFiles : Readable(i)
          /\ phase = "ended" /\ PastReplay
      BY DEF ReportOk, PastReplay
    <3>2. /\ \A i \in merged : i \in Files /\ Readable(i) /\ (args.scoped => stored[i] = "cur")
      BY DEF MergedOk
    <3>3. args.scoped \in BOOLEAN /\ args.mode \in {"cache", "resume"}
      BY ArgsTyped DEF RunTypes
    <3>4. args.scoped => EngineFiles = Matching /\ merged \subseteq Matching
      <4> SUFFICES ASSUME args.scoped PROVE EngineFiles = Matching /\ merged \subseteq Matching
        OBVIOUS
      <4>1. merged \subseteq Matching /\ Matching # {} /\ Matching \subseteq Files
        BY <3>1, <3>2 DEF Matching
      <4>2. CASE Cardinality(Files) = Cardinality(merged)
        <5>1. merged = Files
          BY <3>2, <4>2, FS_Subset DEF RunTypes
        <5> QED BY <4>1, <4>2, <5>1 DEF EngineFiles
      <4>3. CASE Cardinality(Files) # Cardinality(merged)
        BY <4>1, <4>3 DEF EngineFiles
      <4> QED BY <4>1, <4>2, <4>3
    <3>5. ~args.scoped => EngineFiles = Files
      BY DEF EngineFiles
    <3>6. CASE args.mode = "cache"
      BY <3>1, <3>2, <3>3, <3>4, <3>5, <3>6 DEF PlaceOk
    <3>7. CASE args.mode = "resume" /\ reason # "target_ci_reached_from_cache"
      <4>1. \A i \in Files : (IF args.scoped THEN stored[i] = "cur" ELSE Readable(i)) => i \in merged
        BY <3>1, <3>7 DEF AllCounted, Resumed
      <4>2. EngineFiles \subseteq merged
        <5> SUFFICES ASSUME NEW i \in EngineFiles PROVE i \in merged
          OBVIOUS
        <5>1. CASE args.scoped
          <6>1. i \in Files /\ stored[i] = "cur"
            BY <3>1, <3>4, <5>1 DEF Matching, Readable
          <6> QED BY <4>1, <5>1, <6>1
        <5>2. CASE ~args.scoped
          BY <3>1, <3>5, <4>1, <5>2
        <5> QED BY <5>1, <5>2
      <4> QED BY <3>1, <3>2, <3>3, <3>4, <3>5, <4>2
    <3> QED BY <3>1, <3>2, <3>3, <3>4, <3>5, <3>6, <3>7
  <2>2. FailsForAReason
    BY DEF ReportOk
  <2>3. EmittedInOrder
    <3>1. /\ InOrder(chosen, EmitOrder) /\ Len(EmitOrder) <= Cardinality(chosen)
          /\ chosen \in SUBSET DOMAIN Requires
      BY SortRight DEF EmitOrder, RunTypes
    <3>2. /\ EmitOrder \in Seq(chosen) /\ emitted \in Seq(chosen) /\ Len(emitted) <= Len(EmitOrder)
          /\ \A k \in DOMAIN emitted : emitted[k] = EmitOrder[k]
      BY <3>1 DEF EmitOk, InOrder
    <3>3. ASSUME NEW k \in DOMAIN emitted
          PROVE  Requires[emitted[k]] \subseteq {emitted[j] : j \in 1 .. (k - 1)}
      <4>1. k \in DOMAIN EmitOrder /\ \A j \in 1 .. (k - 1) : j \in DOMAIN emitted
        BY <3>2, <3>3
      <4>2. Requires[EmitOrder[k]] \subseteq {EmitOrder[j] : j \in 1 .. (k - 1)}
        BY <3>1, <4>1 DEF InOrder
      <4> QED BY <3>2, <4>1, <4>2
    <3>4. ASSUME report.kind = "full"
          PROVE  Range(emitted) = chosen /\ Len(emitted) = Cardinality(chosen)
      <4>1. Len(emitted) = Cardinality(chosen)
        BY <3>4 DEF EmitOk
      <4>2. IsFiniteSet(chosen) /\ Cardinality(chosen) \in Nat
        BY <3>1, RequiresAssumption, FS_Subset, FS_CardinalityType
      <4>3. Len(EmitOrder) = Cardinality(chosen)
        BY <3>1, <3>2, <4>1, <4>2
      <4>4. Range(emitted) = Range(EmitOrder)
        BY <3>2, <4>1, <4>3 DEF Range
      <4>5. Range(EmitOrder) \subseteq chosen /\ Cardinality(Range(EmitOrder)) = Cardinality(chosen)
        BY <3>1, <3>2, <4>3 DEF InOrder, Range
      <4> QED BY <4>1, <4>2, <4>4, <4>5, FS_Subset
    <3> QED BY <3>3, <3>4 DEF EmittedInOrder
  <2> QED BY <2>1, <2>2, <2>3 DEF ReportFaithful
<1> QED BY <1>1, RunsSound, PTL

(* A resumed run keeps to its budget, and spends it before it ends for it. *)
THEOREM BudgetIsKept == AnalyzerSpec => []BudgetKept
<1>1. RunInv => BudgetKept
  <2> SUFFICES ASSUME RunInv, Resumed
               PROVE  /\ Cardinality(Sampled) <= Left + IF Dense THEN 0 ELSE args.conc - 1
                      /\ phase = "ended" /\ reason = "max_chunks_reached" /\ Dense =>
                           Cardinality(Sampled) + fails.net + fails.machine >= Left
    BY DEF BudgetKept, Resumed, Sampled, Replayed, Left, Dense
  <2>1. /\ loop.max = IF loop.first > args.max THEN loop.first - 1 + Left ELSE args.max
        /\ loop.first <= loop.next /\ loop.next <= loop.max + args.conc
        /\ Cardinality(Sampled) + Cardinality(flight) + fails.net + fails.machine = loop.next - loop.first
        /\ Dense => Cardinality(merged) + Cardinality(flight) <= loop.max
        /\ phase \notin {"batch", "fetch"} /\ reason = "max_chunks_reached" => loop.next > loop.max
    BY DEF NumbersOk, RunInv
  <2>2. /\ Cardinality(Sampled) \in Nat /\ Cardinality(Replayed) \in Nat /\ Cardinality(flight) \in Nat
        /\ Cardinality(merged) = Cardinality(Sampled) + Cardinality(Replayed)
        /\ Left \in Nat /\ Left >= 1 /\ Left >= args.max - Cardinality(Replayed)
        /\ Cardinality(Replayed) < loop.first
    BY Counts DEF RunInv
  <2>3. /\ loop.first \in Nat \ {0} /\ loop.next \in Nat /\ loop.max \in Nat
        /\ fails.net \in Nat /\ fails.machine \in Nat
        /\ args.max \in Nat \ {0} /\ args.conc \in Nat \ {0}
    BY ArgsTyped DEF RunInv, RunTypes
  <2>4. CASE Dense
    <3>1. loop.first = Cardinality(Replayed) + 1
      BY <2>4 DEF Dense
    <3>2. loop.max = Cardinality(Replayed) + Left
      <4>1. Left = IF 1 < args.max - Cardinality(Replayed) THEN args.max - Cardinality(Replayed) ELSE 1
        BY DEF Left, Greater
      <4>2. CASE loop.first > args.max
        BY <2>1, <2>2, <2>3, <3>1, <4>1, <4>2
      <4>3. CASE ~(loop.first > args.max)
        <5>1. loop.max = args.max
          BY <2>1, <4>3
        <5>2. Left = args.max - Cardinality(Replayed)
          BY <2>2, <2>3, <3>1, <4>1, <4>3
        <5> QED BY <2>2, <2>3, <5>1, <5>2
      <4> QED BY <4>2, <4>3
    <3>3. phase = "ended" => flight = {}
      BY DEF RunInv, PlaceOk
    <3>4. Cardinality({}) = 0
      BY FS_EmptySet
    <3> QED BY <2>1, <2>2, <2>3, <2>4, <3>1, <3>2, <3>3, <3>4
  <2>5. CASE ~Dense
    BY <2>1, <2>2, <2>3, <2>5
  <2> QED BY <2>4, <2>5
<1> QED BY <1>1, RunsSound, PTL
=============================================================================
