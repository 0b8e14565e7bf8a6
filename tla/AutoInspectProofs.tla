--------------------------- MODULE AutoInspectProofs ---------------------------
(***************************************************************************)
(* For any items, workers and cells, and any number of versions, cancels,  *)
(* errors and restarts: AutoInspect's types, its lock discipline, what an  *)
(* ended sweep leaves, and the verdicts it writes.                         *)
(***************************************************************************)
EXTENDS AutoInspect, FiniteSetTheorems, TLAPS

(* Where a worker has an item to work on, where it has written the item's  *)
(* status and not yet counted it, and where it has no claim on an item.    *)
Busy == {"wait", "try", "start", "note", "sampling", "dispatch", "noteGen", "generating", "mark"}
Counting == {"select", "update", "window"}
Free == {"loop", "trip", "claim"}
UnderLock == {"start", "note", "sampling", "dispatch", "noteGen", "generating", "release"}
Places == {"gone", "release"} \cup Free \cup Busy \cup Counting

Counts == {"completed", "failed", "skipped"}
Threads == [at : Places, i : Items \cup {NoOne}, mark : ItemOver,
            seen : {NoOne} \cup [Counts -> Nat]]

TypeInv ==
    /\ sweep \in {"none", "scanning", "sampling"} \cup Over
    /\ item \in [Items -> {"absent", "pending"} \cup InWork \cup ItemOver]
    /\ count \in [Counts -> Nat]
    /\ roster \in Versions /\ enq \in [Items -> {0} \cup Versions]
    /\ raw \in [Items -> [Versions -> {"none", "thin", "ample"}]]
    /\ report \in [Items -> [Versions -> {"none", "wide", "narrow"}]]
    /\ smpRun \in [Items -> {"none", "running", "wide", "narrow", "failed"}]
    /\ genRun \in [Items -> {"none", "running", "completed", "failed"}]
    /\ event \in {"none", "clear", "set"}
    /\ fails \in Nat
    /\ worker \in [Workers -> Threads]
    /\ lock \in [Items -> Workers \cup {NoOne, "other"}]
    /\ starter \in {"idle", "scan", "insert", "arm"}
    /\ dispatch \in {"none", "join"}
    /\ resume \in {"none", "running", "generating", "claimed", "check", "arm"}
    /\ client \in {"idle", "commit"}
    /\ budget \in [{"busy", "cancel", "fault", "crash", "any"} -> Nat]

(* The request that starts a sweep, the workers with their dispatcher, and *)
(* the thread that resumes it never overlap.                               *)
ThreadInv ==
    /\ starter # "idle" => resume = "none" /\ dispatch = "none" /\ event = "none"
                           /\ sweep \in {"scanning", "sampling", "cancelled"}
    /\ starter \in {"scan", "insert"} => \A i \in Items : item[i] = "absent"
    /\ resume # "none" => dispatch = "none" /\ event = "none"
                          /\ sweep \in {"scanning", "sampling", "cancelled"}
    /\ dispatch = "none" => \A w \in Workers : worker[w].at = "gone"
    /\ dispatch = "join" => event # "none"
    /\ sweep = "none" => /\ starter = "idle" /\ resume = "none" /\ dispatch = "none"
                         /\ event = "none" /\ client = "idle" /\ fails = 0
                         /\ \A i \in Items : item[i] = "absent"
    /\ sweep = "completed" => starter = "idle" /\ resume = "none" /\ dispatch = "none"
    /\ \A w \in Workers : worker[w].at = "gone" => worker[w] = Gone

(* A worker, its item and its lock: it has an item while it works on one,  *)
(* alone, and under its own lock from the run on; it holds no lock of      *)
(* another item and none where it has no claim.                            *)
WorkerOk(w) ==
    /\ worker[w].at \in Busy \cup Counting \cup {"release"} => worker[w].i # NoOne
    /\ worker[w].at \in Busy => item[worker[w].i] \in InWork
    /\ worker[w].at \in Counting => item[worker[w].i] = worker[w].mark
    /\ worker[w].at \in Free \cup {"release"} /\ worker[w].i # NoOne
          => item[worker[w].i] \in ItemOver
    /\ worker[w].at \in UnderLock => lock[worker[w].i] = w
    /\ \A i \in Items : lock[i] = w => worker[w].i = i /\ worker[w].at \notin Free
    /\ \A v \in Workers \ {w} : worker[v].i # NoOne => worker[v].i # worker[w].i

LockInv == \A w \in Workers : WorkerOk(w)

(* The strengthening of EndedSweepSettled.                                 *)
SettledInv ==
    /\ sweep = "completed" => \A i \in Items : item[i] \in ItemOver \cup {"absent"}
    /\ sweep \in {"cancelled", "failed"} /\ (event # "none" \/ resume = "arm" \/ starter = "arm")
           => \A i \in Items : item[i] # "pending"

(* A cell's report of the item's version is made from its rawdata.         *)
Reported(i) ==
    /\ enq[i] # 0
    /\ raw[i][enq[i]] # "none" /\ report[i][enq[i]] # "none"
    /\ report[i][enq[i]] = "narrow" <=> raw[i][enq[i]] = "ample"

(* A worker's place is that of its item, and from the end of the sample    *)
(* run on nothing but the generate run writes the report.                  *)
JudgeOk(w) ==
    /\ worker[w].at \in {"wait", "try", "start", "note"} => item[worker[w].i] = "claimed"
    /\ worker[w].at \in {"sampling", "dispatch", "noteGen"} => item[worker[w].i] = "running"
    /\ worker[w].at = "generating" => item[worker[w].i] = "generating"
    /\ worker[w].at \in {"dispatch", "noteGen", "generating"} => smpRun[worker[w].i] # "running"
    /\ worker[w].at \in {"noteGen", "generating"} /\ genRun[worker[w].i] = "completed"
          => Reported(worker[w].i)
    /\ worker[w].at = "mark" /\ worker[w].mark = "completed"
          => smpRun[worker[w].i] # "running" /\ Reported(worker[w].i)

ReportOk(i) ==
    /\ item[i] # "absent" => enq[i] # 0
    /\ genRun[i] # "none" => item[i] # "absent"
    /\ item[i] \in {"generating", "completed"} => smpRun[i] # "running"
    /\ item[i] = "completed" => Reported(i)
    /\ item[i] = "generating" /\ genRun[i] = "completed" => Reported(i)

ReportInv ==
    /\ \A i \in Items : ReportOk(i)
    /\ \A w \in Workers : JudgeOk(w)

(* The failed items that the window has counted.                           *)
InWindow == {i \in Items : /\ item[i] = "failed"
                           /\ \A w \in Workers : worker[w].i = i => worker[w].at \notin Counting}

FailedItems == {i \in Items : item[i] = "failed"}

TripInv ==
    /\ fails <= Cardinality(InWindow)
    /\ \A w \in Workers : worker[w].at = "trip" => fails >= MaxFailures
    /\ sweep = "failed" => \/ \A i \in Items : item[i] = "absent"
                           \/ Cardinality(FailedItems) >= MaxFailures
    /\ \A i \in Structural : item[i] # "failed"
    /\ \A w \in Workers : worker[w].at \in Busy /\ worker[w].i \in Structural
                             => worker[w].at = "mark" /\ worker[w].mark # "failed"

CountInv ==
    /\ \A c \in Counts : count[c] <= Tally[c]
    /\ \A w \in Workers : worker[w].at = "update" =>
          worker[w].seen \in [Counts -> Nat] /\ \A c \in Counts : worker[w].seen[c] <= Tally[c]

IInv == TypeInv /\ ThreadInv /\ LockInv /\ SettledInv /\ ReportInv
        /\ TripInv /\ CountInv
-----------------------------------------------------------------------------
(* What Move, ToMark and a reset do to the records of the workers.         *)
LEMMA GoneIsThread ==
    /\ Gone \in Threads /\ [Gone EXCEPT !.at = "loop"] \in Threads
    /\ Gone.at = "gone" /\ Gone.i = NoOne
    /\ [Gone EXCEPT !.at = "loop"].at = "loop" /\ [Gone EXCEPT !.at = "loop"].i = NoOne
BY DEF Gone, Threads, Places, Free, ItemOver

LEMMA MoveEdits ==
    ASSUME NEW w \in Workers, worker \in [Workers -> Threads], NEW l \in Places, Move(w, l)
    PROVE  /\ worker' \in [Workers -> Threads]
           /\ worker'[w].at = l /\ worker'[w].i = worker[w].i /\ worker'[w].mark = worker[w].mark
           /\ worker'[w].seen = worker[w].seen
           /\ \A v \in Workers \ {w} : worker'[v] = worker[v]
BY DEF Move, Threads

LEMMA MarkEdits ==
    ASSUME NEW w \in Workers, worker \in [Workers -> Threads], NEW s \in ItemOver, ToMark(w, s)
    PROVE  /\ worker' \in [Workers -> Threads]
           /\ worker'[w].at = "mark" /\ worker'[w].i = worker[w].i /\ worker'[w].mark = s
           /\ worker'[w].seen = worker[w].seen
           /\ \A v \in Workers \ {w} : worker'[v] = worker[v]
BY DEF ToMark, Threads, Places, Busy

LEMMA ClaimEdits ==
    ASSUME NEW w \in Workers, worker \in [Workers -> Threads], NEW i \in Items,
           worker' = [worker EXCEPT ![w].i = i, ![w].mark = "skipped",
                         ![w].at = IF i \in Structural THEN "mark" ELSE "wait"]
    PROVE  /\ worker' \in [Workers -> Threads]
           /\ worker'[w].at = IF i \in Structural THEN "mark" ELSE "wait"
           /\ worker'[w].i = i /\ worker'[w].mark = "skipped"
           /\ worker'[w].seen = worker[w].seen
           /\ \A v \in Workers \ {w} : worker'[v] = worker[v]
BY DEF Threads, Places, Busy, ItemOver, Skips

LEMMA CountEdits ==
    ASSUME NEW w \in Workers, worker \in [Workers -> Threads], NEW l \in Places,
           NEW t \in {NoOne} \cup [Counts -> Nat],
           worker' = [worker EXCEPT ![w].at = l, ![w].seen = t]
    PROVE  /\ worker' \in [Workers -> Threads]
           /\ worker'[w].at = l /\ worker'[w].i = worker[w].i /\ worker'[w].mark = worker[w].mark
           /\ worker'[w].seen = t
           /\ \A v \in Workers \ {w} : worker'[v] = worker[v]
BY DEF Threads

LEMMA SpendType ==
    ASSUME budget \in [{"busy", "cancel", "fault", "crash", "any"} -> Nat],
           NEW b \in {"busy", "cancel", "fault", "crash"}, Spend(b)
    PROVE  budget' \in [{"busy", "cancel", "fault", "crash", "any"} -> Nat]
BY DEF Spend

LEMMA ReportEdits ==
    ASSUME NEW i \in Items, NEW v \in {0} \cup Versions, NEW r \in {"none", "wide", "narrow"},
           report \in [Items -> [Versions -> {"none", "wide", "narrow"}]],
           report' = [report EXCEPT ![i][v] = r]
    PROVE  /\ report' \in [Items -> [Versions -> {"none", "wide", "narrow"}]]
           /\ v \in Versions => report'[i][v] = r
           /\ \A u \in Versions \ {v} : report'[i][u] = report[i][u]
           /\ \A j \in Items \ {i} : report'[j] = report[j]
OBVIOUS

LEMMA RawEdits ==
    ASSUME NEW i \in Items, NEW v \in {0} \cup Versions, NEW r \in {"none", "thin", "ample"},
           raw \in [Items -> [Versions -> {"none", "thin", "ample"}]],
           raw' = [raw EXCEPT ![i][v] = r]
    PROVE  /\ raw' \in [Items -> [Versions -> {"none", "thin", "ample"}]]
           /\ v \in Versions => raw'[i][v] = r
           /\ \A u \in Versions \ {v} : raw'[i][u] = raw[i][u]
           /\ \A j \in Items \ {i} : raw'[j] = raw[j]
OBVIOUS

LEMMA PlacesListed ==
    /\ Places = {"gone", "release", "loop", "trip", "claim", "wait", "try", "start", "note",
                 "sampling", "dispatch", "noteGen", "generating", "mark", "select", "update", "window"}
    /\ ItemOver = {"completed", "failed", "skipped", "cancelled"}
BY DEF Places, Busy, Counting, Free, ItemOver, Skips

LEMMA TallyType == Tally \in [Counts -> Nat] /\ Tally' \in [Counts -> Nat]
<1>1. \A S \in SUBSET Items : Cardinality(S) \in Nat
  BY SweepAssumption, FS_Subset, FS_CardinalityType
<1>2. /\ Cardinality({i \in Items : item[i] = "completed"}) \in Nat
      /\ Cardinality({i \in Items : item[i] = "failed"}) \in Nat
      /\ Cardinality({i \in Items : item[i] \in Skips}) \in Nat
  BY <1>1
<1>3. /\ Cardinality({i \in Items : item'[i] = "completed"}) \in Nat
      /\ Cardinality({i \in Items : item'[i] = "failed"}) \in Nat
      /\ Cardinality({i \in Items : item'[i] \in Skips}) \in Nat
  BY <1>1
<1> QED
  BY <1>2, <1>3 DEF Tally, Counts

(* The types: every step writes values of the declared kinds.              *)
LEMMA TypeStep ==
    ASSUME TypeInv, CountInv, [Next]_vars
    PROVE  TypeInv'
<1> USE DEF TypeInv
<1>1. CASE StartSweep
  BY <1>1 DEF StartSweep, cells, runs
<1>2. CASE ScanCells
  BY <1>2 DEF ScanCells, runs, Over
<1>3. CASE InsertItems
  BY <1>3 DEF InsertItems, cells, runs
<1>4. CASE ArmSweep
  BY <1>4, GoneIsThread DEF ArmSweep, Launch, rows, cells, runs
<1>5. CASE CancelLook
  BY <1>5 DEF CancelLook, Spend, rows, cells, runs
<1>6. CASE CancelCommit
  BY <1>6, PlacesListed DEF CancelCommit, CancelPending, cells, runs, Over
<1>7. ASSUME NEW w \in Workers, Worker(w) PROVE TypeInv'
  <2>1. CASE Loop(w)
    BY <2>1, GoneIsThread, MoveEdits, PlacesListed DEF Loop, rows, cells, runs, threads
  <2>2. CASE Trip(w)
    BY <2>2, GoneIsThread, PlacesListed DEF Trip, CancelPending, cells, runs, threads, Over
  <2>3. CASE Claim(w)
    <3>1. CASE Claimable = {}
      BY <2>3, <3>1, GoneIsThread DEF Claim, cells, runs, threads
    <3>2. ASSUME NEW i \in Claimable, item' = [item EXCEPT ![i] = "claimed"],
                 worker' = [worker EXCEPT ![w].i = i, ![w].mark = "skipped",
                             ![w].at = IF i \in Structural THEN "mark" ELSE "wait"]
          PROVE  TypeInv'
      <4>1. worker' \in [Workers -> Threads]
        BY <3>2, ClaimEdits, PlacesListed DEF Claimable
      <4> QED
        BY <2>3, <3>2, <4>1 DEF Claim, cells, runs, threads, InWork
    <3> QED
      BY <2>3, <3>1, <3>2 DEF Claim
  <2>4. CASE Wait(w)
    BY <2>4, MoveEdits, MarkEdits, PlacesListed DEF Wait, NoRows, rows, cells, runs, threads
  <2>5. CASE Try(w)
    <3>1. worker' \in [Workers -> Threads]
      BY <2>5, MoveEdits, MarkEdits, PlacesListed DEF Try
    <3>2. lock' \in [Items -> Workers \cup {NoOne, "other"}]
      BY <2>5 DEF Try
    <3> QED
      BY <2>5, <3>1, <3>2 DEF Try, rows, cells, runs, threads
  <2>6. CASE StartRun(w)
    <3>1. worker' \in [Workers -> Threads]
      BY <2>6, MoveEdits, MarkEdits, PlacesListed DEF StartRun
    <3> QED
      BY <2>6, <3>1 DEF StartRun, cells, threads
  <2>7. CASE NoteRunning(w)
    BY <2>7, MoveEdits, PlacesListed DEF NoteRunning, cells, runs, threads, InWork
  <2>8. CASE Sampling(w)
    BY <2>8, MoveEdits, MarkEdits, PlacesListed DEF Sampling, NoRows, rows, cells, runs, threads
  <2>9. CASE DispatchGenerate(w)
    BY <2>9, MoveEdits, MarkEdits, PlacesListed DEF DispatchGenerate, cells, threads
  <2>10. CASE NoteGenerating(w)
    BY <2>10, MoveEdits, PlacesListed DEF NoteGenerating, cells, runs, threads, InWork
  <2>11. CASE Generating(w)
    BY <2>11, MarkEdits, PlacesListed DEF Generating, Verdict, NoRows, rows, cells, runs, threads
  <2>12. CASE MarkItem(w)
    <3>1. worker[w].mark \in ItemOver
      BY DEF Threads
    <3> QED
      BY <2>12, <3>1, MoveEdits, PlacesListed DEF MarkItem, cells, threads
  <2>13. CASE SelectCounts(w)
    <3>1. worker' \in [Workers -> Threads]
      BY <2>13, TallyType, CountEdits, PlacesListed DEF SelectCounts
    <3> QED
      BY <2>13, <3>1 DEF SelectCounts, NoRows, rows, cells, runs, threads
  <2>14. CASE UpdateCounts(w)
    <3>1. worker' \in [Workers -> Threads]
      BY <2>14, CountEdits, PlacesListed DEF UpdateCounts
    <3>2. count' \in [Counts -> Nat]
      BY <2>14 DEF UpdateCounts, CountInv, Threads
    <3> QED
      BY <2>14, <3>1, <3>2 DEF UpdateCounts, cells, runs, threads
  <2>15. CASE RecordWindow(w)
    BY <2>15, MoveEdits, PlacesListed DEF RecordWindow, rows, cells, runs, threads
  <2>16. CASE Release(w)
    BY <2>16, GoneIsThread DEF Release, rows, cells, runs, threads
  <2> QED
    BY <1>7, <2>1, <2>2, <2>3, <2>4, <2>5, <2>6, <2>7, <2>8, <2>9, <2>10, <2>11, <2>12, <2>13,
       <2>14, <2>15, <2>16 DEF Worker
<1>8. ASSUME NEW w \in Workers, WorkerDies(w) PROVE TypeInv'
  BY <1>8, GoneIsThread DEF WorkerDies, Spend, rows, cells, runs, threads
<1>9. CASE FinalizeSweep
  BY <1>9 DEF FinalizeSweep, cells, runs, Over
<1>10. CASE ResumeRunning
  BY <1>10 DEF ResumeRunning, cells, runs
<1>11. CASE ResumeGenerating
  <2>1. count' \in [Counts -> Nat]
    BY <1>11, TallyType DEF ResumeGenerating
  <2> QED
    BY <1>11, <2>1, PlacesListed DEF ResumeGenerating, cells, InWork
<1>12. CASE ResumeClaimed \/ ResumeCheck
  BY <1>12 DEF ResumeClaimed, ResumeCheck, rows, cells, runs
<1>13. CASE ResumeArm
  BY <1>13, GoneIsThread DEF ResumeArm, Launch, rows, cells, runs
<1>14. CASE Restart
  <2>1. /\ worker' \in [Workers -> Threads] /\ lock' \in [Items -> Workers \cup {NoOne, "other"}]
        /\ smpRun' \in [Items -> {"none", "running", "wide", "narrow", "failed"}]
        /\ genRun' \in [Items -> {"none", "running", "completed", "failed"}]
        /\ budget' \in [{"busy", "cancel", "fault", "crash", "any"} -> Nat]
    BY <1>14, GoneIsThread DEF Restart, Spend
  <2> QED
    BY <1>14, <2>1 DEF Restart, cells
<1>15. CASE RefreshRoster
  <2>1. roster' \in Versions
    BY <1>15, SweepAssumption DEF RefreshRoster, Versions
  <2> QED
    <3>1. UNCHANGED <<sweep, item, count, enq, raw, report, runs, event, fails, worker, lock, threads>>
      BY <1>15 DEF RefreshRoster
    <3>2. budget' \in [{"busy", "cancel", "fault", "crash", "any"} -> Nat]
      BY <1>15 DEF RefreshRoster
    <3> QED
      BY <2>1, <3>1, <3>2 DEF runs, threads
<1>16. ASSUME NEW i \in Items, SampleEnds(i) PROVE TypeInv'
  BY <1>16 DEF SampleEnds, threads
<1>17. ASSUME NEW i \in Items, GenerateEnds(i) PROVE TypeInv'
  <2>1. report' \in [Items -> [Versions -> {"none", "wide", "narrow"}]]
    BY <1>17, ReportEdits DEF GenerateEnds
  <2> QED
    BY <1>17, <2>1 DEF GenerateEnds, threads
<1>18. ASSUME NEW i \in Items, OtherTakes(i) PROVE TypeInv'
  <2>1. /\ lock' \in [Items -> Workers \cup {NoOne, "other"}]
        /\ budget' \in [{"busy", "cancel", "fault", "crash", "any"} -> Nat]
    BY <1>18, SpendType DEF OtherTakes
  <2> QED
    BY <1>18, <2>1 DEF OtherTakes, rows, cells, runs, threads
<1>19. ASSUME NEW i \in Items, OtherFrees(i) PROVE TypeInv'
  <2>1. /\ lock' \in [Items -> Workers \cup {NoOne, "other"}]
        /\ raw' \in [Items -> [Versions -> {"none", "thin", "ample"}]]
        /\ report' \in [Items -> [Versions -> {"none", "wide", "narrow"}]]
    BY <1>19, RawEdits, ReportEdits DEF OtherFrees
  <2> QED
    BY <1>19, <2>1 DEF OtherFrees, runs, threads
<1>20. CASE UNCHANGED vars
  BY <1>20 DEF vars, rows, cells, runs, threads
<1> QED
  BY <1>1, <1>2, <1>3, <1>4, <1>5, <1>6, <1>7, <1>8, <1>9, <1>10, <1>11, <1>12, <1>13, <1>14,
     <1>15, <1>16, <1>17, <1>18, <1>19, <1>20 DEF Next, Starter, Resumer
-----------------------------------------------------------------------------
(* What the steps of a worker have in common.                              *)
LEMMA WorkerFrame ==
    ASSUME TypeInv, NEW w \in Workers, Worker(w) \/ WorkerDies(w)
    PROVE  /\ worker[w].at # "gone"
           /\ \A v \in Workers \ {w} : worker'[v] = worker[v]
           /\ worker'[w].at = "gone" => worker'[w] = Gone
           /\ UNCHANGED <<cells, threads>>
<1> USE DEF TypeInv
<1>1. CASE Loop(w)
  BY <1>1, GoneIsThread, MoveEdits, PlacesListed DEF Loop, rows
<1>2. CASE Trip(w)
  BY <1>2, GoneIsThread DEF Trip
<1>3. CASE Claim(w)
  <2>1. CASE worker' = [worker EXCEPT ![w] = Gone]
    BY <1>3, <2>1, GoneIsThread DEF Claim
  <2>2. ASSUME NEW i \in Claimable,
               worker' = [worker EXCEPT ![w].i = i, ![w].mark = "skipped",
                             ![w].at = IF i \in Structural THEN "mark" ELSE "wait"]
        PROVE  /\ \A v \in Workers \ {w} : worker'[v] = worker[v]
               /\ worker'[w].at # "gone"
    <3>1. i \in Items
      BY DEF Claimable
    <3>2. worker \in [Workers -> Threads]
      OBVIOUS
    <3> HIDE DEF TypeInv
    <3>3. worker'[w].at = IF i \in Structural THEN "mark" ELSE "wait"
      BY <2>2, <3>1, <3>2, ClaimEdits
    <3>4. \A v \in Workers \ {w} : worker'[v] = worker[v]
      BY <2>2, <3>1, <3>2
    <3> QED
      BY <3>3, <3>4
  <2> QED
    BY <1>3, <2>1, <2>2 DEF Claim
<1>4. CASE Wait(w)
  BY <1>4, MoveEdits, MarkEdits, PlacesListed DEF Wait, NoRows, rows
<1>5. CASE Try(w)
  BY <1>5, MoveEdits, MarkEdits, PlacesListed DEF Try, rows
<1>6. CASE StartRun(w)
  BY <1>6, MoveEdits, MarkEdits, PlacesListed DEF StartRun
<1>7. CASE NoteRunning(w)
  BY <1>7, MoveEdits, PlacesListed DEF NoteRunning
<1>8. CASE Sampling(w)
  BY <1>8, MoveEdits, MarkEdits, PlacesListed DEF Sampling, NoRows, rows
<1>9. CASE DispatchGenerate(w)
  BY <1>9, MoveEdits, MarkEdits, PlacesListed DEF DispatchGenerate
<1>10. CASE NoteGenerating(w)
  BY <1>10, MoveEdits, PlacesListed DEF NoteGenerating
<1>11. CASE Generating(w)
  BY <1>11, MarkEdits, PlacesListed DEF Generating, Verdict, NoRows, rows
<1>12. CASE MarkItem(w)
  BY <1>12, MoveEdits, PlacesListed DEF MarkItem
<1>13. CASE SelectCounts(w)
  BY <1>13, CountEdits, TallyType, PlacesListed DEF SelectCounts, NoRows, rows
<1>14. CASE UpdateCounts(w)
  BY <1>14, CountEdits, PlacesListed DEF UpdateCounts
<1>15. CASE RecordWindow(w)
  BY <1>15, MoveEdits, PlacesListed DEF RecordWindow, rows
<1>16. CASE Release(w)
  BY <1>16, GoneIsThread DEF Release, rows
<1>17. CASE WorkerDies(w)
  BY <1>17, GoneIsThread DEF WorkerDies, rows
<1> QED
  BY <1>1, <1>2, <1>3, <1>4, <1>5, <1>6, <1>7, <1>8, <1>9, <1>10, <1>11, <1>12, <1>13,
     <1>14, <1>15, <1>16, <1>17 DEF Worker

(* While a worker is not gone, no request starts and no thread resumes.    *)
LEMMA WorkersAlone ==
    ASSUME TypeInv, ThreadInv, NEW w \in Workers, worker[w].at # "gone"
    PROVE  /\ dispatch = "join" /\ starter = "idle" /\ resume = "none"
           /\ sweep \notin {"none", "completed"}
BY DEF ThreadInv, TypeInv

(* The threads of a sweep take turns.                                      *)
LEMMA ThreadStep ==
    ASSUME TypeInv, ThreadInv, [Next]_vars
    PROVE  ThreadInv'
<1> USE DEF TypeInv, ThreadInv
<1>1. CASE StartSweep
  BY <1>1 DEF StartSweep, cells, runs
<1>2. CASE ScanCells
  BY <1>2 DEF ScanCells, runs
<1>3. CASE InsertItems
  BY <1>3 DEF InsertItems, cells, runs
<1>4. CASE ArmSweep \/ ResumeArm
  BY <1>4, GoneIsThread DEF ArmSweep, ResumeArm, Launch, rows, cells, runs
<1>5. CASE CancelLook \/ CancelCommit
  BY <1>5 DEF CancelLook, CancelCommit, CancelPending, Spend, rows, cells, runs
<1>6. ASSUME NEW w \in Workers, Worker(w) \/ WorkerDies(w) PROVE ThreadInv'
  <2>4. /\ worker[w].at # "gone" /\ UNCHANGED threads
        /\ \A v \in Workers \ {w} : worker'[v] = worker[v]
        /\ worker'[w].at = "gone" => worker'[w] = Gone
    BY <1>6, WorkerFrame
  <2>1. /\ dispatch' = "join" /\ starter' = "idle" /\ resume' = "none"
        /\ \A v \in Workers : worker'[v].at = "gone" => worker'[v] = Gone
    BY <2>4 DEF threads
  <2>2. sweep' \in {sweep, "failed"} /\ event' \in {event, "set"}
    BY <1>6 DEF Worker, Loop, Trip, Claim, Wait, Try, StartRun, NoteRunning, Sampling,
        DispatchGenerate, NoteGenerating, Generating, MarkItem, SelectCounts, UpdateCounts,
        RecordWindow, Release, WorkerDies, NoRows, rows
  <2>3. sweep \notin {"none", "completed"} /\ event # "none"
    BY <2>4
  <2> QED
    BY <2>1, <2>2, <2>3
<1>7. CASE FinalizeSweep
  BY <1>7 DEF FinalizeSweep, cells, runs
<1>8. CASE ResumeRunning \/ ResumeGenerating
  BY <1>8 DEF ResumeRunning, ResumeGenerating, cells, runs
<1>9. CASE ResumeClaimed \/ ResumeCheck
  BY <1>9 DEF ResumeClaimed, ResumeCheck, rows, cells, runs
<1>10. CASE Restart
  BY <1>10, GoneIsThread DEF Restart, Spend, cells, runs
<1>11. CASE RefreshRoster
  BY <1>11 DEF RefreshRoster, runs, threads
<1>12. ASSUME NEW i \in Items, SampleEnds(i) \/ GenerateEnds(i) \/ OtherTakes(i) \/ OtherFrees(i)
       PROVE  ThreadInv'
  BY <1>12 DEF SampleEnds, GenerateEnds, OtherTakes, OtherFrees, rows, threads
<1>13. CASE UNCHANGED vars
  BY <1>13 DEF vars, rows, cells, runs, threads
<1> QED
  BY <1>1, <1>2, <1>3, <1>4, <1>5, <1>6, <1>7, <1>8, <1>9, <1>10, <1>11, <1>12, <1>13
     DEF Next, Starter, Resumer
-----------------------------------------------------------------------------
(* What a step of one worker leaves to the others.                         *)
Others(w) ==
    /\ \A v \in Workers \ {w} : worker'[v] = worker[v]
    /\ \A v \in Workers \ {w} : worker[v].i # NoOne =>
          item'[worker[v].i] = item[worker[v].i] /\ worker'[w].i # worker[v].i
    /\ \A v \in Workers \ {w}, i \in Items : lock'[i] = v <=> lock[i] = v

LEMMA OthersOk ==
    ASSUME TypeInv, LockInv, NEW w \in Workers, Others(w), WorkerOk(w)'
    PROVE  LockInv'
<1> SUFFICES ASSUME NEW v \in Workers \ {w} PROVE WorkerOk(v)'
  BY DEF LockInv
<1>1. WorkerOk(v) /\ worker'[v] = worker[v]
  BY DEF LockInv, Others
<1>2. worker[v].i # NoOne => item'[worker[v].i] = item[worker[v].i] /\ worker'[w].i # worker[v].i
  BY DEF Others
<1>3. worker[v] \in Threads
  BY DEF TypeInv
<1>4. \A i \in Items : lock'[i] = v <=> lock[i] = v
  BY DEF Others
<1>5. worker[v].i \in Items \cup {NoOne}
  BY <1>3 DEF Threads
<1>6. \A u \in Workers \ {v} : worker'[u].i # NoOne => worker'[u].i # worker[v].i
  BY <1>1, <1>2 DEF Others, WorkerOk
<1>7. worker[v].at \in Busy \cup Counting \cup {"release"} => worker[v].i # NoOne
  BY <1>1 DEF WorkerOk
<1>8. worker[v].at \in UnderLock => lock'[worker[v].i] = v
  BY <1>1, <1>4, <1>5, <1>7 DEF WorkerOk, UnderLock, Busy
<1> QED
  BY <1>1, <1>2, <1>4, <1>6, <1>7, <1>8 DEF WorkerOk

LEMMA StayOthers ==
    ASSUME TypeInv, LockInv, NEW w \in Workers, UNCHANGED <<item, lock>>,
           worker'[w].i \in {worker[w].i, NoOne},
           \A v \in Workers \ {w} : worker'[v] = worker[v]
    PROVE  Others(w)
<1>1. \A v \in Workers \ {w} : worker[v].i # NoOne => worker'[w].i # worker[v].i
  BY DEF LockInv, WorkerOk
<1> QED
  BY <1>1 DEF Others

(* A worker's item is in work or has ended.                                *)
LEMMA ItemOfWorker ==
    ASSUME TypeInv, ThreadInv, LockInv, NEW v \in Workers, worker[v].i # NoOne
    PROVE  /\ worker[v].i \in Items
           /\ item[worker[v].i] \in InWork \cup ItemOver
           /\ item[worker[v].i] # "pending"
<1>1. worker[v].at \in Places /\ worker[v].i \in Items \cup {NoOne} /\ worker[v].mark \in ItemOver
  BY DEF TypeInv, Threads
<1>2. WorkerOk(v)
  BY DEF LockInv
<1>3. worker[v].at # "gone"
  BY GoneIsThread DEF ThreadInv
<1>4. item[worker[v].i] \in InWork \cup ItemOver
  BY <1>1, <1>2, <1>3 DEF WorkerOk, Places
<1> QED
  BY <1>1, <1>4 DEF InWork, ItemOver, Skips

(* Locks, claims and the items of the workers.                             *)
LEMMA LockStep ==
    ASSUME TypeInv, ThreadInv, LockInv, [Next]_vars
    PROVE  LockInv'
<1>1. ASSUME NEW w \in Workers, Worker(w) \/ WorkerDies(w) PROVE LockInv'
  <2> USE DEF WorkerOk, Busy, Counting, Free, UnderLock
  <2>1. /\ worker \in [Workers -> Threads] /\ WorkerOk(w)
        /\ item \in [Items -> {"absent", "pending"} \cup InWork \cup ItemOver]
        /\ lock \in [Items -> Workers \cup {NoOne, "other"}]
    BY DEF LockInv, TypeInv
  <2>2. \A v \in Workers \ {w} : worker'[v] = worker[v]
    BY <1>1, WorkerFrame
  <2>3. worker[w].i \in Items \cup {NoOne} /\ worker[w].mark \in ItemOver
    BY <2>1 DEF Threads
  <2>4. \A v \in Workers : worker[v].i # NoOne =>
           worker[v].i \in Items /\ item[worker[v].i] # "pending"
    BY ItemOfWorker
  <2>5. CASE Loop(w)
    BY <2>1, <2>2, <2>5, GoneIsThread, MoveEdits, PlacesListed, StayOthers, OthersOk DEF Loop, rows
  <2>6. CASE Trip(w)
    <3>1. worker'[w] = Gone /\ \A i \in Items : item'[i] = item[i] \/ item[i] = "pending"
      BY <2>1, <2>6, GoneIsThread DEF Trip, CancelPending
    <3>2. Others(w)
      BY <2>2, <2>4, <2>6, <3>1, GoneIsThread DEF Trip, Others
    <3>3. WorkerOk(w)'
      BY <2>1, <2>2, <2>6, <3>1, GoneIsThread DEF Trip
    <3> QED
      BY <3>2, <3>3, OthersOk
  <2>7. CASE Claim(w)
    <3>1. CASE worker' = [worker EXCEPT ![w] = Gone] /\ UNCHANGED item
      BY <2>1, <2>2, <2>7, <3>1, GoneIsThread, StayOthers, OthersOk DEF Claim
    <3>2. ASSUME NEW i \in Claimable, item' = [item EXCEPT ![i] = "claimed"],
                 worker' = [worker EXCEPT ![w].i = i, ![w].mark = "skipped",
                             ![w].at = IF i \in Structural THEN "mark" ELSE "wait"]
          PROVE  LockInv'
      <4>0. i \in Items /\ i # NoOne /\ item[i] = "pending"
        BY SweepAssumption DEF Claimable
      <4>1. worker'[w].i = i /\ worker'[w].at \in {"mark", "wait"}
        BY <2>1, <3>2, <4>0, ClaimEdits, PlacesListed
      <4>2. \A v \in Workers : worker[v].i # i
        BY <2>4, <4>0
      <4>3. /\ worker[w].at = "claim" /\ UNCHANGED lock
            /\ item'[i] = "claimed" /\ \A j \in Items \ {i} : item'[j] = item[j]
        BY <2>1, <2>7, <3>2, <4>0 DEF Claim
      <4>4. Others(w)
        BY <2>2, <2>4, <4>1, <4>2, <4>3 DEF Others
      <4>5. WorkerOk(w)'
        BY <2>1, <2>2, <4>0, <4>1, <4>2, <4>3 DEF InWork
      <4> QED
        BY <4>4, <4>5, OthersOk
    <3> QED
      BY <2>7, <3>1, <3>2 DEF Claim
  <2>8. CASE Wait(w)
    BY <2>1, <2>2, <2>8, MoveEdits, MarkEdits, PlacesListed, StayOthers, OthersOk DEF Wait, NoRows, rows
  <2>9. CASE Try(w)
    <3>1. CASE UNCHANGED lock /\ (Move(w, "wait") \/ ToMark(w, "skipped"))
      BY <2>1, <2>2, <2>9, <3>1, MoveEdits, MarkEdits, PlacesListed, StayOthers, OthersOk DEF Try, rows
    <3>2. CASE lock[worker[w].i] = NoOne /\ lock' = [lock EXCEPT ![worker[w].i] = w] /\ Move(w, "start")
      <4>1. worker'[w].i = worker[w].i /\ worker'[w].at = "start"
        BY <2>1, <3>2, MoveEdits, PlacesListed
      <4>2. Others(w)
        BY <2>1, <2>2, <2>9, <3>2, <4>1, SweepAssumption DEF Try, Others, rows, LockInv
      <4>3. WorkerOk(w)'
        BY <2>1, <2>2, <2>3, <2>9, <3>2, <4>1 DEF Try, rows
      <4> QED
        BY <4>2, <4>3, OthersOk
    <3> QED
      BY <2>9, <3>1, <3>2 DEF Try
  <2>10. CASE StartRun(w)
    BY <2>1, <2>2, <2>10, MoveEdits, MarkEdits, PlacesListed, StayOthers, OthersOk DEF StartRun
  <2>11. CASE NoteRunning(w) \/ NoteGenerating(w)
    <3>1. /\ worker'[w].i = worker[w].i /\ worker'[w].at \in {"sampling", "generating"}
          /\ item'[worker[w].i] \in InWork /\ UNCHANGED lock
          /\ \A j \in Items \ {worker[w].i} : item'[j] = item[j]
      BY <2>1, <2>3, <2>11, MoveEdits, PlacesListed DEF NoteRunning, NoteGenerating, InWork
    <3>2. Others(w)
      BY <2>1, <2>2, <3>1 DEF Others, LockInv, TypeInv, Threads
    <3>3. WorkerOk(w)'
      BY <2>1, <2>2, <2>11, <3>1 DEF NoteRunning, NoteGenerating
    <3> QED
      BY <3>2, <3>3, OthersOk
  <2>12. CASE Sampling(w) \/ Generating(w)
    BY <2>1, <2>2, <2>12, MoveEdits, MarkEdits, PlacesListed, StayOthers, OthersOk
       DEF Sampling, Generating, Verdict, NoRows, rows
  <2>13. CASE DispatchGenerate(w)
    BY <2>1, <2>2, <2>13, MoveEdits, MarkEdits, PlacesListed, StayOthers, OthersOk DEF DispatchGenerate
  <2>14. CASE MarkItem(w)
    <3>1. /\ worker'[w].i = worker[w].i /\ worker'[w].at = "select"
          /\ worker'[w].mark = worker[w].mark
          /\ item'[worker[w].i] = worker[w].mark /\ UNCHANGED lock
          /\ \A j \in Items \ {worker[w].i} : item'[j] = item[j]
      BY <2>1, <2>3, <2>14, MoveEdits, PlacesListed DEF MarkItem
    <3>2. Others(w)
      BY <2>1, <2>2, <3>1 DEF Others, LockInv, TypeInv, Threads
    <3>3. WorkerOk(w)'
      BY <2>1, <2>2, <2>14, <3>1 DEF MarkItem
    <3> QED
      BY <3>2, <3>3, OthersOk
  <2>15. CASE SelectCounts(w) \/ UpdateCounts(w)
    <3>1. /\ worker'[w].i = worker[w].i /\ worker'[w].at \in {"update", "window"}
          /\ worker'[w].mark = worker[w].mark
      BY <2>1, <2>15, CountEdits, TallyType, PlacesListed DEF SelectCounts, UpdateCounts
    <3> QED
      BY <2>1, <2>2, <2>15, <3>1, StayOthers, OthersOk DEF SelectCounts, UpdateCounts, NoRows, rows
  <2>16. CASE RecordWindow(w)
    BY <2>1, <2>2, <2>3, <2>16, MoveEdits, PlacesListed, StayOthers, OthersOk DEF RecordWindow, rows
  <2>17. CASE Release(w) \/ WorkerDies(w)
    <3>1. /\ worker'[w].i = NoOne /\ worker'[w].at \in {"loop", "gone"} /\ UNCHANGED item
          /\ \A i \in Items : lock'[i] = IF lock[i] = w THEN NoOne ELSE lock[i]
      BY <2>1, <2>3, <2>17, GoneIsThread DEF Release, WorkerDies, rows
    <3>2. Others(w)
      BY <2>1, <2>2, <3>1, SweepAssumption DEF Others
    <3>3. WorkerOk(w)'
      BY <2>1, <2>2, <3>1, SweepAssumption
    <3> QED
      BY <3>2, <3>3, OthersOk
  <2> QED
    BY <1>1, <2>5, <2>6, <2>7, <2>8, <2>9, <2>10, <2>11, <2>12, <2>13, <2>14, <2>15, <2>16, <2>17
       DEF Worker
<1>2. CASE /\ \A w \in Workers : worker'[w].at \in {"gone", "loop"} /\ worker'[w].i = NoOne
           /\ \A i \in Items : lock'[i] \notin Workers
  BY <1>2 DEF LockInv, WorkerOk, Busy, Counting, Free, UnderLock
<1>3. CASE dispatch = "none" /\ UNCHANGED <<worker, lock>>
  <2>1. \A w \in Workers : worker[w] = Gone
    BY <1>3 DEF ThreadInv
  <2> QED
    BY <1>3, <2>1, GoneIsThread DEF LockInv, WorkerOk, Busy, Counting, Free, UnderLock
<1>7. dispatch = "none" => \A i \in Items : lock[i] \notin Workers
  BY GoneIsThread, SweepAssumption DEF ThreadInv, LockInv, WorkerOk
<1>4. CASE StartSweep \/ ScanCells \/ InsertItems \/ ResumeRunning \/ ResumeGenerating
           \/ ResumeClaimed \/ ResumeCheck
  BY <1>3, <1>4 DEF StartSweep, ScanCells, InsertItems, ResumeRunning, ResumeGenerating,
     ResumeClaimed, ResumeCheck, rows, ThreadInv
<1>5. CASE ArmSweep \/ ResumeArm
  <2>1. \A w \in Workers : worker'[w].at = "loop" /\ worker'[w].i = NoOne
    BY <1>5, GoneIsThread DEF ArmSweep, ResumeArm, Launch
  <2>2. \A i \in Items : lock'[i] = lock[i]
    BY <1>5 DEF ArmSweep, ResumeArm
  <2>3. dispatch = "none"
    BY <1>5 DEF ArmSweep, ResumeArm, ThreadInv
  <2> QED
    BY <1>2, <1>7, <2>1, <2>2, <2>3
<1>6. CASE Restart
  BY <1>2, <1>6, GoneIsThread, SweepAssumption DEF Restart
<1>8. CASE CancelCommit
  <2>1. \A v \in Workers : worker[v].i # NoOne => item'[worker[v].i] = item[worker[v].i]
    BY <1>8, ItemOfWorker DEF CancelCommit, CancelPending, TypeInv
  <2>2. \A v \in Workers : WorkerOk(v)
    BY DEF LockInv
  <2> QED
    BY <1>8, <2>1, <2>2 DEF CancelCommit, LockInv, WorkerOk, Busy, Counting
<1>9. ASSUME NEW i \in Items, OtherTakes(i) \/ OtherFrees(i) PROVE LockInv'
  <2>1. /\ UNCHANGED <<worker, item>>
        /\ \A w \in Workers, j \in Items : lock'[j] = w <=> lock[j] = w
    BY <1>9, SweepAssumption DEF OtherTakes, OtherFrees, TypeInv, rows
  <2>2. \A w \in Workers : worker[w].at \in Busy \cup {"release"} => worker[w].i \in Items
    BY ItemOfWorker DEF LockInv, WorkerOk
  <2> QED
    BY <2>1, <2>2 DEF LockInv, WorkerOk, UnderLock, Busy
<1>10. CASE UNCHANGED <<worker, item, lock>>
  BY <1>10 DEF LockInv, WorkerOk
<1>11. CASE CancelLook \/ FinalizeSweep \/ RefreshRoster \/ UNCHANGED vars
           \/ \E i \in Items : SampleEnds(i) \/ GenerateEnds(i)
  BY <1>10, <1>11 DEF CancelLook, FinalizeSweep, RefreshRoster, SampleEnds, GenerateEnds, vars, rows
<1> QED
  BY <1>1, <1>4, <1>5, <1>6, <1>8, <1>9, <1>11 DEF Next, Starter, Resumer
-----------------------------------------------------------------------------
(* What the worker steps do to the sweep, the event and the queued items.  *)
LEMMA WorkerQueues ==
    ASSUME TypeInv, ThreadInv, LockInv, NEW w \in Workers, Worker(w) \/ WorkerDies(w)
    PROVE  /\ \A i \in Items : item'[i] = "pending" => item[i] = "pending"
           /\ \/ sweep' = sweep
              \/ sweep' = "failed" /\ (\A i \in Items : item'[i] # "pending") /\ worker[w].at = "trip"
           /\ event' = event \/ event' = "set"
<1>1. CASE Trip(w)
  BY <1>1 DEF Trip, CancelPending
<1>2. CASE Claim(w)
  BY <1>2 DEF Claim, TypeInv
<1>3. CASE NoteRunning(w) \/ NoteGenerating(w)
  BY <1>3 DEF NoteRunning, NoteGenerating, TypeInv
<1>4. CASE MarkItem(w)
  <2>1. worker[w].mark # "pending"
    BY PlacesListed DEF TypeInv, Threads
  <2> QED
    BY <1>4, <2>1 DEF MarkItem, TypeInv
<1>5. CASE Loop(w)
  BY <1>5 DEF Loop, rows
<1>6. CASE UNCHANGED <<item, sweep, event>>
  BY <1>6
<1> QED
  BY <1>1, <1>2, <1>3, <1>4, <1>5, <1>6 DEF Worker, Wait, Try, StartRun, Sampling,
     DispatchGenerate, Generating, SelectCounts, UpdateCounts, RecordWindow, Release,
     WorkerDies, NoRows, rows

(* What an ended sweep leaves.                                             *)
LEMMA SettledStep ==
    ASSUME TypeInv, ThreadInv, LockInv, SettledInv, [Next]_vars
    PROVE  SettledInv'
<1> USE DEF SettledInv
<1>1. ASSUME NEW w \in Workers, Worker(w) \/ WorkerDies(w) PROVE SettledInv'
  <2>1. /\ worker[w].at # "gone" /\ UNCHANGED threads
    BY <1>1, WorkerFrame
  <2>2. event # "none" /\ sweep # "completed"
    BY <2>1, WorkersAlone DEF ThreadInv
  <2> QED
    BY <1>1, <2>1, <2>2, WorkerQueues DEF threads
<1>2. CASE StartSweep \/ InsertItems
  BY <1>2 DEF StartSweep, InsertItems
<1>3. CASE ScanCells
  BY <1>3 DEF ScanCells, ThreadInv
<1>4. CASE ArmSweep \/ ResumeArm
  BY <1>4 DEF ArmSweep, ResumeArm, Launch, rows, ThreadInv
<1>5. CASE CancelLook
  BY <1>5 DEF CancelLook, rows
<1>6. CASE CancelCommit
  BY <1>6 DEF CancelCommit, CancelPending
<1>7. CASE FinalizeSweep
  BY <1>7, PlacesListed DEF FinalizeSweep, Unfinished, TypeInv
<1>8. CASE ResumeRunning \/ ResumeGenerating
  BY <1>8 DEF ResumeRunning, ResumeGenerating, ThreadInv, TypeInv
<1>9. CASE ResumeClaimed \/ ResumeCheck
  BY <1>9 DEF ResumeClaimed, ResumeCheck, rows, ThreadInv
<1>10. CASE Restart
  BY <1>10 DEF Restart
<1>11. CASE UNCHANGED <<sweep, item, event, resume, starter>>
  BY <1>11
<1> QED
  BY <1>1, <1>2, <1>3, <1>4, <1>5, <1>6, <1>7, <1>8, <1>9, <1>10, <1>11
     DEF Next, Starter, Resumer, RefreshRoster, SampleEnds, GenerateEnds, OtherTakes, OtherFrees,
         vars, rows, threads
-----------------------------------------------------------------------------
(* The reports the verdicts rest on.                                       *)
LEMMA JudgeOthers ==
    ASSUME TypeInv, ThreadInv, LockInv, ReportInv, NEW w \in Workers, NEW i \in Items,
           worker[w].i \in {i, NoOne}, worker'[w].i \in {i, NoOne},
           \A v \in Workers \ {w} : worker'[v] = worker[v] /\ worker[v].i # i,
           \A j \in Items \ {i} : item'[j] = item[j] /\ smpRun'[j] = smpRun[j] /\ genRun'[j] = genRun[j],
           UNCHANGED <<enq, raw, report>>,
           ReportOk(i)', JudgeOk(w)'
    PROVE  ReportInv'
<1>1. ASSUME NEW j \in Items \ {i} PROVE ReportOk(j)'
  BY DEF ReportInv, ReportOk, Reported
<1>2. ASSUME NEW v \in Workers \ {w} PROVE JudgeOk(v)'
  <2>1. JudgeOk(v) /\ WorkerOk(v) /\ worker'[v] = worker[v] /\ worker[v].i # i
    BY DEF ReportInv, LockInv
  <2>2. worker[v].at \in Busy => worker[v].i \in Items \ {i}
    BY <2>1, ItemOfWorker DEF WorkerOk
  <2> QED
    BY <2>1, <2>2 DEF JudgeOk, Reported, Busy
<1> QED
  BY <1>1, <1>2 DEF ReportInv

LEMMA JudgeStay ==
    ASSUME ReportInv, NEW w \in Workers, JudgeOk(w)',
           \A v \in Workers \ {w} : worker'[v] = worker[v],
           UNCHANGED <<item, smpRun, genRun, enq, raw, report>>
    PROVE  ReportInv'
<1>1. ASSUME NEW j \in Items PROVE ReportOk(j)'
  BY DEF ReportInv, ReportOk, Reported
<1>2. ASSUME NEW v \in Workers \ {w} PROVE JudgeOk(v)'
  BY DEF ReportInv, JudgeOk, Reported
<1> QED
  BY <1>1, <1>2 DEF ReportInv

LEMMA WorkerReports ==
    ASSUME TypeInv, ThreadInv, LockInv, ReportInv, NEW w \in Workers, Worker(w) \/ WorkerDies(w)
    PROVE  ReportInv'
<1> DEFINE i == worker[w].i
<1>1. /\ worker \in [Workers -> Threads]
      /\ item \in [Items -> {"absent", "pending"} \cup InWork \cup ItemOver]
      /\ smpRun \in [Items -> {"none", "running", "wide", "narrow", "failed"}]
      /\ genRun \in [Items -> {"none", "running", "completed", "failed"}]
  BY DEF TypeInv
<1>2. /\ \A v \in Workers \ {w} : worker'[v] = worker[v]
      /\ UNCHANGED <<enq, raw, report>>
  BY WorkerFrame DEF cells
<1>3. i \in Items \cup {NoOne} /\ worker[w].mark \in ItemOver
  BY <1>1 DEF Threads
<1>4. WorkerOk(w) /\ JudgeOk(w)
  BY DEF LockInv, ReportInv
<1>5. i # NoOne => /\ \A v \in Workers \ {w} : worker[v].i # i
                   /\ i \in Items /\ ReportOk(i)
  BY <1>3, <1>4 DEF LockInv, WorkerOk, ReportInv
<1>6. worker[w].at \in Busy => i # NoOne
  BY <1>4 DEF WorkerOk
<1>7. CASE Loop(w) \/ RecordWindow(w)
  <2>1. worker'[w].at \in {"gone", "trip", "claim", "release", "loop"}
    BY <1>1, <1>7, GoneIsThread, MoveEdits, PlacesListed DEF Loop, RecordWindow
  <2>2. JudgeOk(w)'
    BY <2>1 DEF JudgeOk
  <2> QED
    BY <1>2, <1>7, <2>2, JudgeStay DEF Loop, RecordWindow, rows, runs
<1>8. CASE Trip(w)
  <2>1. ASSUME NEW j \in Items PROVE ReportOk(j)'
    <3>1. item'[j] = IF item[j] = "pending" THEN "cancelled" ELSE item[j]
      BY <1>8 DEF Trip, CancelPending
    <3> QED
      BY <1>2, <1>8, <3>1 DEF Trip, runs, ReportInv, ReportOk, Reported
  <2>2. \A v \in Workers : worker[v].at \in Busy => worker[v].i \in Items /\ item'[worker[v].i] = item[worker[v].i]
    BY <1>8, ItemOfWorker DEF Trip, CancelPending, LockInv, WorkerOk
  <2>3. ASSUME NEW v \in Workers \ {w} PROVE JudgeOk(v)'
    BY <1>2, <1>8, <2>2 DEF Trip, runs, ReportInv, JudgeOk, Reported, Busy
  <2>4. worker'[w].at = "gone"
    BY <1>1, <1>8, GoneIsThread DEF Trip
  <2>5. JudgeOk(w)'
    BY <2>4 DEF JudgeOk
  <2> QED
    BY <2>1, <2>3, <2>5 DEF ReportInv
<1>9. CASE Claim(w)
  <2>1. CASE worker' = [worker EXCEPT ![w] = Gone] /\ UNCHANGED item
    <3>1. worker'[w].at = "gone"
      BY <1>1, <2>1, GoneIsThread
    <3>2. JudgeOk(w)'
      BY <3>1 DEF JudgeOk
    <3> QED
      BY <1>2, <1>9, <2>1, <3>2, JudgeStay DEF Claim, runs
  <2>2. ASSUME NEW k \in Claimable, item' = [item EXCEPT ![k] = "claimed"],
               worker' = [worker EXCEPT ![w].i = k, ![w].mark = "skipped",
                             ![w].at = IF k \in Structural THEN "mark" ELSE "wait"]
        PROVE  ReportInv'
    <3>1. k \in Items /\ item[k] = "pending"
      BY DEF Claimable
    <3>2. worker'[w].i = k /\ worker'[w].at \in {"mark", "wait"} /\ worker'[w].mark = "skipped"
      <4>1. /\ worker'[w].at = IF k \in Structural THEN "mark" ELSE "wait"
            /\ worker'[w].i = k /\ worker'[w].mark = "skipped"
        BY <1>1, <2>2, <3>1, ClaimEdits
      <4> QED
        BY <4>1
    <3>3. /\ item'[k] = "claimed" /\ \A j \in Items \ {k} : item'[j] = item[j]
          /\ UNCHANGED <<smpRun, genRun>> /\ worker[w].at = "claim"
      BY <1>1, <1>9, <2>2, <3>1 DEF Claim, runs
    <3>4. JudgeOk(w)'
      BY <3>2, <3>3 DEF JudgeOk
    <3>5. ASSUME NEW j \in Items PROVE ReportOk(j)'
      BY <1>2, <3>1, <3>3 DEF ReportInv, ReportOk, Reported
    <3>6. \A v \in Workers : worker[v].at \in Busy => worker[v].i \in Items \ {k}
      BY <3>1, ItemOfWorker DEF LockInv, WorkerOk
    <3>7. ASSUME NEW v \in Workers \ {w} PROVE JudgeOk(v)'
      BY <1>2, <3>3, <3>6 DEF ReportInv, JudgeOk, Reported, Busy
    <3> QED
      BY <3>4, <3>5, <3>7 DEF ReportInv
  <2> QED
    BY <1>9, <2>1, <2>2 DEF Claim
<1>10. CASE Wait(w) \/ Try(w)
  <2>1. JudgeOk(w)'
    BY <1>1, <1>4, <1>10, MoveEdits, MarkEdits, PlacesListed DEF Wait, Try, JudgeOk, NoRows, rows
  <2> QED
    BY <1>2, <1>10, <2>1, JudgeStay DEF Wait, Try, NoRows, rows, runs
<1>11. CASE Sampling(w) \/ Generating(w)
  <2>1. JudgeOk(w)'
    BY <1>1, <1>2, <1>4, <1>11, MoveEdits, MarkEdits, PlacesListed
       DEF Sampling, Generating, JudgeOk, NoRows, rows, runs, Verdict, Reported
  <2> QED
    BY <1>2, <1>11, <2>1, JudgeStay DEF Sampling, Generating, NoRows, rows, runs
<1>12. CASE SelectCounts(w) \/ UpdateCounts(w)
  <2>1. worker'[w].at \in {"update", "window"}
    BY <1>1, <1>12, CountEdits, TallyType, PlacesListed DEF SelectCounts, UpdateCounts
  <2>2. JudgeOk(w)'
    BY <2>1 DEF JudgeOk
  <2> QED
    BY <1>2, <1>12, <2>2, JudgeStay DEF SelectCounts, UpdateCounts, NoRows, rows, runs
<1>13. CASE Release(w) \/ WorkerDies(w)
  <2>1. worker'[w].at \in {"loop", "gone"}
    BY <1>1, <1>13, GoneIsThread DEF Release, WorkerDies
  <2>2. JudgeOk(w)'
    BY <2>1 DEF JudgeOk
  <2> QED
    BY <1>2, <1>13, <2>2, JudgeStay DEF Release, WorkerDies, rows, runs
<1>14. CASE StartRun(w)
  <2>1. worker[w].at = "start" /\ worker'[w].i = i /\ i \in Items /\ item[i] = "claimed"
    BY <1>1, <1>4, <1>5, <1>6, <1>14, MoveEdits, MarkEdits, PlacesListed DEF StartRun, JudgeOk, Busy
  <2>2. JudgeOk(w)'
    BY <1>1, <1>14, <2>1, MoveEdits, MarkEdits, PlacesListed DEF StartRun, JudgeOk
  <2>3. ReportOk(i)'
    BY <1>2, <1>5, <1>14, <2>1 DEF StartRun, ReportOk, ReportInv, Reported, InWork
  <2> QED
    BY <1>1, <1>2, <1>5, <1>6, <1>14, <2>1, <2>2, <2>3, JudgeOthers DEF StartRun, Busy
<1>15. CASE NoteRunning(w) \/ NoteGenerating(w)
  <2>1. /\ worker[w].at \in {"note", "noteGen"} /\ i \in Items /\ worker'[w].i = i
        /\ worker'[w].at = IF worker[w].at = "note" THEN "sampling" ELSE "generating"
        /\ item'[i] = IF worker[w].at = "note" THEN "running" ELSE "generating"
        /\ \A j \in Items \ {i} : item'[j] = item[j]
        /\ UNCHANGED <<smpRun, genRun>>
    BY <1>1, <1>5, <1>6, <1>15, MoveEdits, PlacesListed DEF NoteRunning, NoteGenerating, runs, Busy
  <2>2. JudgeOk(w)'
    BY <1>2, <1>4, <2>1 DEF JudgeOk, Reported
  <2>3. ReportOk(i)'
    BY <1>2, <1>4, <1>5, <1>6, <2>1 DEF JudgeOk, ReportOk, Reported, Busy, InWork
  <2> QED
    BY <1>2, <1>5, <1>6, <2>1, <2>2, <2>3, JudgeOthers DEF Busy
<1>16. CASE DispatchGenerate(w)
  <2>1. worker[w].at = "dispatch" /\ worker'[w].i = i /\ i \in Items /\ item[i] = "running"
    BY <1>1, <1>4, <1>5, <1>6, <1>16, MoveEdits, MarkEdits, PlacesListed DEF DispatchGenerate, JudgeOk, Busy
  <2>2. JudgeOk(w)'
    BY <1>1, <1>4, <1>16, <2>1, MoveEdits, MarkEdits, PlacesListed DEF DispatchGenerate, JudgeOk
  <2>3. ReportOk(i)'
    <3>1. UNCHANGED <<item, smpRun>>
      BY <1>16 DEF DispatchGenerate
    <3> QED
      BY <1>2, <1>5, <1>6, <2>1, <3>1 DEF ReportOk, Busy
  <2> QED
    BY <1>1, <1>2, <1>5, <1>6, <1>16, <2>1, <2>2, <2>3, JudgeOthers DEF DispatchGenerate, Busy
<1>17. CASE MarkItem(w)
  <2>1. /\ worker[w].at = "mark" /\ i \in Items /\ worker'[w].i = i /\ worker'[w].at = "select"
        /\ item'[i] = worker[w].mark
        /\ smpRun'[i] = IF smpRun[i] = "running" THEN "running" ELSE "none"
        /\ genRun'[i] = IF genRun[i] = "running" THEN "running" ELSE "none"
        /\ \A j \in Items \ {i} : item'[j] = item[j] /\ smpRun'[j] = smpRun[j] /\ genRun'[j] = genRun[j]
    BY <1>1, <1>5, <1>6, <1>17, MoveEdits, PlacesListed DEF MarkItem, Busy
  <2>2. JudgeOk(w)'
    BY <2>1 DEF JudgeOk
  <2>3. ReportOk(i)'
    BY <1>2, <1>3, <1>4, <1>5, <1>6, <2>1, PlacesListed DEF JudgeOk, ReportOk, WorkerOk, Reported, Busy, InWork
  <2> QED
    BY <1>2, <1>5, <1>6, <2>1, <2>2, <2>3, JudgeOthers DEF Busy
<1> QED
  BY <1>7, <1>8, <1>9, <1>10, <1>11, <1>12, <1>13, <1>14, <1>15, <1>16, <1>17 DEF Worker

(* The reports of the other steps: a run that ends writes its own item's,  *)
(* and a sample run that still runs belongs to an item with no verdict.    *)
LEMMA ReportStep ==
    ASSUME TypeInv, ThreadInv, LockInv, ReportInv, [Next]_vars
    PROVE  ReportInv'
<1>1. ASSUME NEW w \in Workers, Worker(w) \/ WorkerDies(w) PROVE ReportInv'
  BY <1>1, WorkerReports
<1>2. ASSUME \A w \in Workers : worker'[w].at \in {"gone", "loop"},
             \A i \in Items : ReportOk(i)'
      PROVE  ReportInv'
  BY <1>2 DEF ReportInv, JudgeOk
<1>3. dispatch = "none" => \A w \in Workers : worker[w].at = "gone"
  BY DEF ThreadInv
<1>4. \A i \in Items : ReportOk(i)
  BY DEF ReportInv
<1>5. CASE ScanCells \/ InsertItems
  <2>1. /\ \A w \in Workers : worker'[w].at = "gone"
        /\ \A i \in Items : item[i] = "absent"
        /\ UNCHANGED genRun
    BY <1>3, <1>5 DEF ScanCells, InsertItems, ThreadInv, runs
  <2>2. ASSUME NEW i \in Items PROVE ReportOk(i)'
    <3>1. \/ item'[i] = "absent"
          \/ item'[i] = "pending" /\ enq'[i] # 0
      BY <1>5, <2>1 DEF ScanCells, InsertItems, cells
    <3> QED
      BY <1>4, <2>1, <3>1 DEF ReportOk
  <2> QED
    BY <1>2, <2>1, <2>2
<1>6. CASE ArmSweep \/ ResumeArm
  <2>1. \A w \in Workers : worker'[w].at = "loop"
    BY <1>6, GoneIsThread DEF ArmSweep, ResumeArm, Launch
  <2>2. \A i \in Items : ReportOk(i)'
    BY <1>4, <1>6 DEF ArmSweep, ResumeArm, rows, cells, runs, ReportOk, Reported
  <2> QED
    BY <1>2, <2>1, <2>2
<1>7. CASE CancelCommit
  <2>1. \A i \in Items : item'[i] = IF item[i] = "pending" THEN "cancelled" ELSE item[i]
    BY <1>7 DEF CancelCommit, CancelPending
  <2>2. \A w \in Workers : worker[w].at \in Busy => worker[w].i \in Items
                                                  /\ item[worker[w].i] # "pending"
    BY ItemOfWorker DEF LockInv, WorkerOk
  <2>3. ASSUME NEW i \in Items PROVE ReportOk(i)'
    BY <1>4, <1>7, <2>1 DEF CancelCommit, cells, runs, ReportOk, Reported
  <2>4. ASSUME NEW w \in Workers PROVE JudgeOk(w)'
    BY <1>7, <2>1, <2>2 DEF CancelCommit, cells, runs, ReportInv, JudgeOk, Reported, Busy
  <2> QED
    BY <2>3, <2>4 DEF ReportInv
<1>8. CASE Restart
  <2>1. \A w \in Workers : worker'[w].at = "gone"
    BY <1>8, GoneIsThread DEF Restart
  <2>2. /\ UNCHANGED <<item, enq, raw, report>>
        /\ \A i \in Items : /\ smpRun'[i] = IF smpRun[i] = "running" THEN "failed" ELSE smpRun[i]
                            /\ genRun'[i] = IF genRun[i] = "running" THEN "failed" ELSE genRun[i]
    BY <1>8 DEF Restart, cells
  <2>3. ASSUME NEW i \in Items PROVE ReportOk(i)'
    BY <1>4, <2>2 DEF ReportOk, Reported
  <2> QED
    BY <1>2, <2>1, <2>3
<1>9. CASE ResumeRunning \/ ResumeGenerating \/ ResumeClaimed
  <2>1. /\ \A w \in Workers : worker'[w].at = "gone"
        /\ UNCHANGED <<enq, raw, report>>
    BY <1>3, <1>9 DEF ResumeRunning, ResumeGenerating, ResumeClaimed, ThreadInv, cells
  <2>2. ASSUME NEW i \in Items PROVE ReportOk(i)'
    <3>1. CASE ResumeClaimed
      <4>1. /\ item'[i] = IF item[i] = "claimed" THEN "pending" ELSE item[i]
            /\ UNCHANGED <<smpRun, genRun>>
        BY <3>1 DEF ResumeClaimed, runs
      <4> QED
        BY <1>4, <2>1, <4>1 DEF ReportOk, Reported
    <3>2. CASE ResumeRunning
      <4>1. /\ \/ item'[i] = item[i] /\ smpRun'[i] = smpRun[i]
               \/ item'[i] = "pending" /\ item[i] = "running"
            /\ UNCHANGED genRun
        BY <3>2 DEF ResumeRunning, TypeInv
      <4> QED
        BY <1>4, <2>1, <4>1 DEF ReportOk, Reported
    <3>3. CASE ResumeGenerating
      <4>1. /\ \/ item'[i] = item[i] /\ genRun'[i] = genRun[i]
               \/ item[i] = "generating" /\ item'[i] = "completed" /\ genRun[i] = "completed"
                  /\ genRun'[i] = genRun[i]
               \/ item[i] = "generating" /\ item'[i] = "running" /\ genRun'[i] = "none"
            /\ UNCHANGED smpRun
        BY <3>3 DEF ResumeGenerating, TypeInv
      <4> QED
        BY <1>4, <2>1, <4>1 DEF ReportOk, Reported
    <3> QED
      BY <1>9, <3>1, <3>2, <3>3
  <2> QED
    BY <1>2, <2>1, <2>2
<1>10. ASSUME NEW k \in Items, SampleEnds(k) \/ GenerateEnds(k) \/ OtherFrees(k)
       PROVE  ReportInv'
  <2>1. /\ UNCHANGED <<item, enq, worker>>
        /\ \A j \in Items \ {k} : /\ smpRun'[j] = smpRun[j] /\ genRun'[j] = genRun[j]
                                 /\ raw'[j] = raw[j] /\ report'[j] = report[j]
    BY <1>10 DEF SampleEnds, GenerateEnds, OtherFrees, runs, TypeInv
  <2>2. /\ smpRun'[k] = "running" => smpRun[k] = "running"
        /\ genRun'[k] # "none" <=> genRun[k] # "none"
        /\ enq[k] \in {0} \cup Versions
    BY <1>10 DEF SampleEnds, GenerateEnds, OtherFrees, runs, TypeInv
  <2>3. \/ smpRun[k] = "running" /\ genRun'[k] = genRun[k]
        \/ /\ Reported(k) => Reported(k)'
           /\ enq[k] # 0 /\ genRun'[k] = "completed" /\ genRun[k] # "completed" => Reported(k)'
    <3>1. CASE SampleEnds(k)
      BY <3>1 DEF SampleEnds
    <3>2. CASE GenerateEnds(k)
      <4>1. CASE genRun'[k] = "failed" /\ UNCHANGED report
        BY <3>2, <4>1 DEF GenerateEnds, Reported
      <4>2. CASE /\ raw[k][enq[k]] # "none"
                 /\ report' = [report EXCEPT ![k][enq[k]] =
                                  IF raw[k][enq[k]] = "ample" THEN "narrow" ELSE "wide"]
        <5>1. enq[k] \in Versions
                 => report'[k][enq[k]] = IF raw[k][enq[k]] = "ample" THEN "narrow" ELSE "wide"
          BY <2>2, <4>2, ReportEdits DEF TypeInv
        <5> QED
          BY <2>2, <3>2, <4>2, <5>1 DEF GenerateEnds, Reported
      <4> QED
        BY <3>2, <4>1, <4>2 DEF GenerateEnds, TypeInv
    <3>3. CASE OtherFrees(k)
      <4>1. CASE UNCHANGED <<raw, report>>
        BY <3>3, <4>1 DEF OtherFrees, Reported, runs
      <4>2. CASE /\ raw' = [raw EXCEPT ![k][roster] = "ample"]
                 /\ report' = [report EXCEPT ![k][roster] = "narrow"]
        <5>1. /\ roster \in Versions /\ raw'[k][roster] = "ample" /\ report'[k][roster] = "narrow"
              /\ \A u \in Versions \ {roster} : raw'[k][u] = raw[k][u] /\ report'[k][u] = report[k][u]
          BY <4>2, RawEdits, ReportEdits DEF TypeInv
        <5>2. Reported(k) => Reported(k)'
          BY <2>1, <2>2, <5>1 DEF Reported
        <5> QED
          BY <3>3, <5>2 DEF OtherFrees, runs
      <4> QED
        BY <3>3, <4>1, <4>2 DEF OtherFrees
    <3> QED
      BY <1>10, <3>1, <3>2, <3>3
  <2>4. ReportOk(k)'
    BY <1>4, <2>1, <2>2, <2>3 DEF ReportOk
  <2>5. \A j \in Items \ {k} : ReportOk(j)'
    BY <1>4, <2>1 DEF ReportOk, Reported
  <2>6. ASSUME NEW w \in Workers PROVE JudgeOk(w)'
    <3>1. JudgeOk(w) /\ (worker[w].at \in Busy => worker[w].i \in Items)
      BY ItemOfWorker DEF ReportInv, LockInv, WorkerOk
    <3>2. CASE worker[w].i = k
      <4>1. worker[w].at \in Busy => item[k] \in InWork
        BY <3>2 DEF LockInv, WorkerOk
      <4>2. worker[w].at \in Busy => enq[k] # 0
        BY <1>4, <4>1 DEF ReportOk, InWork
      <4> QED
        BY <2>1, <2>2, <2>3, <3>1, <3>2, <4>2 DEF JudgeOk, Busy
    <3>3. CASE worker[w].i # k
      BY <2>1, <3>1, <3>3 DEF JudgeOk, Reported, Busy
    <3> QED
      BY <3>2, <3>3
  <2> QED
    BY <2>4, <2>5, <2>6 DEF ReportInv
<1>11. CASE UNCHANGED <<item, worker, smpRun, genRun, enq, raw, report>>
  BY <1>11 DEF ReportInv, ReportOk, JudgeOk, Reported
<1> QED
  BY <1>1, <1>5, <1>6, <1>7, <1>8, <1>9, <1>10, <1>11
     DEF Next, Starter, Resumer, StartSweep, CancelLook, FinalizeSweep, ResumeCheck, OtherTakes,
         RefreshRoster, vars, rows, cells, runs
-----------------------------------------------------------------------------
(* An ended item keeps its status, whoever takes a step.                   *)
LEMMA EndedStay ==
    ASSUME TypeInv, ThreadInv, LockInv, [Next]_vars
    PROVE  \A i \in Items : item[i] \in ItemOver => item'[i] = item[i]
<1>1. ASSUME NEW w \in Workers, Worker(w) \/ WorkerDies(w),
             NEW i \in Items, item[i] \in ItemOver
      PROVE  item'[i] = item[i]
  <2>1. worker[w].at \in Busy => worker[w].i # i
    BY <1>1, PlacesListed DEF LockInv, WorkerOk, InWork
  <2>2. CASE Trip(w)
    BY <1>1, <2>2, PlacesListed DEF Trip, CancelPending
  <2>3. CASE Claim(w)
    BY <1>1, <2>3, PlacesListed DEF Claim, Claimable, TypeInv
  <2>4. CASE NoteRunning(w) \/ NoteGenerating(w) \/ MarkItem(w)
    BY <2>1, <2>4 DEF NoteRunning, NoteGenerating, MarkItem, TypeInv, Busy
  <2>5. CASE UNCHANGED item
    BY <2>5
  <2> QED
    BY <1>1, <2>2, <2>3, <2>4, <2>5 DEF Worker, Loop, Wait, Try, StartRun, Sampling,
       DispatchGenerate, Generating, SelectCounts, UpdateCounts, RecordWindow, Release,
       WorkerDies, NoRows, rows
<1>2. CASE InsertItems
  BY <1>2, PlacesListed DEF InsertItems, ThreadInv
<1>3. CASE CancelCommit \/ ResumeClaimed
  BY <1>3, PlacesListed DEF CancelCommit, CancelPending, ResumeClaimed
<1>4. CASE ResumeRunning \/ ResumeGenerating
  BY <1>4, PlacesListed DEF ResumeRunning, ResumeGenerating, TypeInv
<1>5. CASE UNCHANGED item
  BY <1>5
<1> QED
  BY <1>1, <1>2, <1>3, <1>4, <1>5 DEF Next, Starter, Resumer, StartSweep, ScanCells, ArmSweep,
     CancelLook, FinalizeSweep, ResumeCheck, ResumeArm, OtherTakes, OtherFrees, RefreshRoster,
     SampleEnds, GenerateEnds, Restart, vars, rows

(* A set of items is no smaller than a set of items it contains.           *)
LEMMA ItemCount ==
    ASSUME NEW S \in SUBSET Items, NEW T \in SUBSET Items, S \subseteq T
    PROVE  Cardinality(S) \in Nat /\ Cardinality(T) \in Nat /\ Cardinality(S) <= Cardinality(T)
BY SweepAssumption, FS_Subset, FS_CardinalityType

(* The items of each verdict only become more.                             *)
LEMMA TallyGrows ==
    ASSUME TypeInv, ThreadInv, LockInv, [Next]_vars
    PROVE  \A c \in Counts : Tally[c] <= Tally'[c]
<1>1. \A i \in Items : item[i] \in ItemOver => item'[i] = item[i]
  BY EndedStay
<1>2. Cardinality({i \in Items : item[i] = "completed"})
        <= Cardinality({i \in Items : item'[i] = "completed"})
  BY <1>1, ItemCount, PlacesListed
<1>3. Cardinality({i \in Items : item[i] = "failed"})
        <= Cardinality({i \in Items : item'[i] = "failed"})
  BY <1>1, ItemCount, PlacesListed
<1>4. Cardinality({i \in Items : item[i] \in Skips})
        <= Cardinality({i \in Items : item'[i] \in Skips})
  BY <1>1, ItemCount, PlacesListed DEF Skips
<1> QED
  BY <1>2, <1>3, <1>4 DEF Tally, Counts

(* Where a worker comes from, and what it does to the failure window.      *)
LEMMA WorkerMoves ==
    ASSUME TypeInv, NEW w \in Workers, Worker(w) \/ WorkerDies(w)
    PROVE  /\ worker'[w].at \in Counting
                => worker'[w].i = worker[w].i /\ worker[w].at \in Counting \cup {"mark"}
           /\ worker'[w].at = "update" => SelectCounts(w)
           /\ worker'[w].at = "trip" => fails >= MaxFailures /\ fails' = fails
           /\ \/ /\ fails' = fails
                 /\ worker[w].at \in Counting => worker'[w].at \in Counting \/ worker[w].mark # "failed"
              \/ /\ worker[w].at = "window" /\ worker[w].mark = "failed" /\ fails' = fails + 1
                 /\ worker'[w].at \in {"release", "loop"}
           /\ worker'[w].at \in Busy =>
                \/ worker'[w].i = worker[w].i /\ worker[w].at \in Busy \ {"mark"}
                \/ worker'[w].i \in Structural
                     => worker'[w].at = "mark" /\ worker'[w].mark # "failed"
           /\ \A i \in Items : item'[i] = "failed" =>
                \/ item[i] = "failed"
                \/ worker[w].at = "mark" /\ worker[w].i = i /\ worker[w].mark = "failed"
<1>1. /\ worker \in [Workers -> Threads]
      /\ item \in [Items -> {"absent", "pending"} \cup InWork \cup ItemOver]
  BY DEF TypeInv
<1> USE <1>1 DEF Busy, Counting
<1>2. CASE Loop(w)
  BY <1>2, GoneIsThread, MoveEdits, PlacesListed DEF Loop, rows
<1>3. CASE Trip(w)
  BY <1>3, GoneIsThread DEF Trip, CancelPending
<1>4. CASE Claim(w)
  <2>1. CASE worker' = [worker EXCEPT ![w] = Gone] /\ UNCHANGED item
    BY <1>4, <2>1, GoneIsThread DEF Claim
  <2>2. ASSUME NEW k \in Claimable, item' = [item EXCEPT ![k] = "claimed"],
               worker' = [worker EXCEPT ![w].i = k, ![w].mark = "skipped",
                             ![w].at = IF k \in Structural THEN "mark" ELSE "wait"]
        PROVE  /\ worker'[w].at = IF k \in Structural THEN "mark" ELSE "wait"
               /\ worker'[w].i = k /\ worker'[w].mark = "skipped"
               /\ \A i \in Items : item'[i] = "failed" => item[i] = "failed"
    BY <2>2, ClaimEdits DEF Claimable
  <2> QED
    BY <1>4, <2>1, <2>2 DEF Claim
<1>5. CASE Wait(w)
  BY <1>5, MoveEdits, MarkEdits, PlacesListed DEF Wait, NoRows, rows
<1>6. CASE Try(w)
  BY <1>6, MoveEdits, MarkEdits, PlacesListed DEF Try, rows
<1>7. CASE StartRun(w)
  BY <1>7, MoveEdits, MarkEdits, PlacesListed DEF StartRun
<1>8. CASE NoteRunning(w)
  BY <1>8, MoveEdits, PlacesListed DEF NoteRunning
<1>9. CASE Sampling(w)
  BY <1>9, MoveEdits, MarkEdits, PlacesListed DEF Sampling, NoRows, rows
<1>10. CASE DispatchGenerate(w)
  BY <1>10, MoveEdits, MarkEdits, PlacesListed DEF DispatchGenerate
<1>11. CASE NoteGenerating(w)
  BY <1>11, MoveEdits, PlacesListed DEF NoteGenerating
<1>12. CASE Generating(w)
  BY <1>12, MarkEdits, PlacesListed DEF Generating, Verdict, NoRows, rows
<1>13. CASE MarkItem(w)
  BY <1>13, MoveEdits, PlacesListed DEF MarkItem
<1>14. CASE SelectCounts(w)
  <2>1. worker'[w].at = "update" /\ worker'[w].i = worker[w].i
    BY <1>14, CountEdits, TallyType, PlacesListed DEF SelectCounts
  <2> QED
    BY <1>14, <2>1 DEF SelectCounts, NoRows, rows
<1>15. CASE UpdateCounts(w)
  BY <1>15, CountEdits, PlacesListed DEF UpdateCounts
<1>16. CASE RecordWindow(w)
  BY <1>16, MoveEdits, PlacesListed DEF RecordWindow, rows
<1>17. CASE Release(w)
  BY <1>17, GoneIsThread DEF Release, rows
<1>18. CASE WorkerDies(w)
  BY <1>18, GoneIsThread DEF WorkerDies, rows
<1> QED
  BY <1>2, <1>3, <1>4, <1>5, <1>6, <1>7, <1>8, <1>9, <1>10, <1>11, <1>12, <1>13, <1>14, <1>15,
     <1>16, <1>17, <1>18 DEF Worker

(* The counters of the row, and those a worker has read, stay below it.    *)
LEMMA CountStep ==
    ASSUME TypeInv, ThreadInv, LockInv, CountInv, [Next]_vars
    PROVE  CountInv'
<1>1. /\ \A c \in Counts : Tally[c] <= Tally'[c]
      /\ Tally \in [Counts -> Nat] /\ Tally' \in [Counts -> Nat]
      /\ count \in [Counts -> Nat] /\ worker \in [Workers -> Threads]
  BY TallyGrows, TallyType DEF TypeInv
<1>3. /\ \A c \in Counts : count[c] <= Tally'[c]
      /\ \A w \in Workers : worker[w].at = "update" =>
            worker[w].seen \in [Counts -> Nat] /\ \A c \in Counts : worker[w].seen[c] <= Tally'[c]
  BY <1>1 DEF CountInv
<1>4. ASSUME NEW w \in Workers, Worker(w) \/ WorkerDies(w) PROVE CountInv'
  <2>1. \A v \in Workers \ {w} : worker'[v] = worker[v]
    BY <1>4, WorkerFrame
  <2>2. CASE SelectCounts(w)
    <3>1. worker'[w].seen = Tally /\ UNCHANGED <<count, item>>
      BY <1>1, <2>2, CountEdits, PlacesListed DEF SelectCounts, NoRows, rows
    <3> QED
      BY <1>1, <1>3, <2>1, <3>1 DEF CountInv
  <2>3. CASE UpdateCounts(w)
    <3>1. worker'[w].at = "window" /\ count' = worker[w].seen /\ worker[w].at = "update"
      BY <1>1, <2>3, CountEdits, PlacesListed DEF UpdateCounts
    <3> QED
      BY <1>3, <2>1, <3>1 DEF CountInv
  <2>4. CASE worker'[w].at # "update" /\ UNCHANGED count
    BY <1>3, <2>1, <2>4 DEF CountInv
  <2>5. ASSUME ~SelectCounts(w), ~UpdateCounts(w) PROVE UNCHANGED count
    BY <1>4, <2>5 DEF Worker, Loop, Trip, Claim, Wait, Try, StartRun, NoteRunning, Sampling,
       DispatchGenerate, NoteGenerating, Generating, MarkItem, RecordWindow, Release,
       WorkerDies, NoRows, rows
  <2>6. ASSUME ~SelectCounts(w) PROVE worker'[w].at # "update"
    BY <1>4, <2>6, WorkerMoves
  <2> QED
    BY <2>2, <2>3, <2>4, <2>5, <2>6
<1>5. CASE ArmSweep \/ ResumeArm \/ Restart
  <2>1. UNCHANGED count /\ \A w \in Workers : worker'[w].at \in {"loop", "gone"}
    BY <1>5, GoneIsThread DEF ArmSweep, ResumeArm, Launch, Restart, rows
  <2> QED
    BY <1>3, <2>1 DEF CountInv
<1>6. CASE ResumeGenerating
  <2>1. UNCHANGED worker /\ (count' = count \/ count' = Tally')
    BY <1>6 DEF ResumeGenerating
  <2> QED
    BY <1>1, <1>3, <2>1 DEF CountInv
<1>7. CASE UNCHANGED <<count, worker>>
  BY <1>3, <1>7 DEF CountInv
<1> QED
  BY <1>4, <1>5, <1>6, <1>7 DEF Next, Starter, Resumer, StartSweep, ScanCells, InsertItems,
     CancelLook, CancelCommit, FinalizeSweep, ResumeRunning, ResumeClaimed, ResumeCheck,
     OtherTakes, OtherFrees, RefreshRoster, SampleEnds, GenerateEnds, vars, rows

(* The window counts failed items, so a trip has its failures: a worker's  *)
(* failed item enters the window as the worker leaves it.                  *)
LEMMA TripStep ==
    ASSUME TypeInv, ThreadInv, LockInv, TripInv, [Next]_vars
    PROVE  TripInv'
<1>1. /\ \A i \in Items : item[i] \in ItemOver => item'[i] = item[i]
      /\ InWindow \subseteq FailedItems /\ FailedItems \subseteq FailedItems'
      /\ FailedItems \subseteq Items /\ FailedItems' \subseteq Items
      /\ InWindow' \subseteq Items
      /\ fails \in Nat /\ MaxFailures \in Nat /\ Structural \subseteq Items
  BY EndedStay, PlacesListed, SweepAssumption DEF InWindow, FailedItems, TypeInv
<1>2. /\ Cardinality(InWindow) \in Nat /\ Cardinality(InWindow') \in Nat
      /\ Cardinality(FailedItems) \in Nat /\ Cardinality(FailedItems') \in Nat
      /\ Cardinality(InWindow) <= Cardinality(FailedItems)
      /\ Cardinality(FailedItems) <= Cardinality(FailedItems')
  BY <1>1, ItemCount
<1>3. ASSUME NEW w \in Workers, Worker(w) \/ WorkerDies(w) PROVE TripInv'
  <2>1. /\ \A v \in Workers \ {w} : worker'[v] = worker[v]
        /\ worker[w].at # "gone" /\ UNCHANGED threads
    BY <1>3, WorkerFrame
  <2>2. /\ WorkerOk(w)
        /\ worker[w].i \in Items \cup {NoOne}
    BY DEF LockInv, TypeInv, Threads
  <2>3. ASSUME NEW i \in InWindow PROVE i \in InWindow'
    <3>1. i \in Items /\ item[i] = "failed" /\ item'[i] = "failed"
      BY <1>1, <2>3, PlacesListed DEF InWindow
    <3>2. worker'[w].at \in Counting => worker'[w].i # i
      <4>1. worker[w].at = "mark" => worker[w].i # i
        BY <2>2, <3>1 DEF WorkerOk, Busy, InWork
      <4>2. worker[w].at \in Counting => worker[w].i # i
        BY <2>3 DEF InWindow
      <4> QED
        BY <1>3, <4>1, <4>2, WorkerMoves
    <3> QED
      BY <2>1, <2>3, <3>1, <3>2 DEF InWindow
  <2>4. Cardinality(InWindow) <= Cardinality(InWindow')
    BY <1>1, <2>3, ItemCount
  <2>5. fails' <= Cardinality(InWindow') /\ fails' \in Nat /\ fails <= fails'
    <3>1. CASE fails' = fails
      BY <1>1, <1>2, <2>4, <3>1 DEF TripInv
    <3>2. CASE /\ worker[w].at = "window" /\ worker[w].mark = "failed" /\ fails' = fails + 1
               /\ worker'[w].at \in {"release", "loop"}
      <4> DEFINE i == worker[w].i
      <4>1. i \in Items /\ item[i] = "failed" /\ item'[i] = "failed"
            /\ \A v \in Workers \ {w} : worker[v].i # i
        BY <1>1, <2>2, <3>2, PlacesListed DEF WorkerOk, LockInv, Counting
      <4>2. i \notin InWindow
        BY <3>2 DEF InWindow, Counting
      <4>3. i \in InWindow'
        BY <2>1, <3>2, <4>1 DEF InWindow, Counting
      <4>4. Cardinality(InWindow \cup {i}) = Cardinality(InWindow) + 1
        BY <1>1, <4>2, SweepAssumption, FS_Subset, FS_AddElement
      <4>5. Cardinality(InWindow \cup {i}) <= Cardinality(InWindow')
        BY <1>1, <2>3, <4>1, <4>3, ItemCount
      <4> QED
        BY <1>1, <1>2, <3>2, <4>4, <4>5 DEF TripInv
    <3> QED
      BY <1>3, <3>1, <3>2, WorkerMoves
  <2>6. \A v \in Workers : worker'[v].at = "trip" => fails' >= MaxFailures
    BY <1>1, <1>3, <2>1, <2>5, WorkerMoves DEF TripInv
  <2>7. sweep' = "failed" => \/ \A i \in Items : item'[i] = "absent"
                             \/ Cardinality(FailedItems') >= MaxFailures
    <3>1. CASE worker[w].at = "trip"
      BY <1>1, <1>2, <3>1 DEF TripInv
    <3>2. CASE worker[w].at # "trip" /\ sweep = "failed" /\ \A i \in Items : item[i] = "absent"
      <4>1. worker[w].i = NoOne
        BY <2>2, <3>2, ItemOfWorker, PlacesListed DEF InWork
      <4>2. worker[w].at \notin Busy
        BY <2>2, <4>1 DEF WorkerOk
      <4>3. UNCHANGED item
        BY <1>3, <3>2, <4>2 DEF Worker, WorkerDies, Loop, Trip, Claim, Claimable, Wait, Try, StartRun,
           NoteRunning, Sampling, DispatchGenerate, NoteGenerating, Generating, MarkItem,
           SelectCounts, UpdateCounts, RecordWindow, Release, NoRows, rows, Busy
      <4> QED
        BY <3>2, <4>3
    <3>3. CASE sweep = "failed" /\ Cardinality(FailedItems) >= MaxFailures
      BY <1>1, <1>2, <3>3
    <3>4. sweep' = sweep \/ worker[w].at = "trip"
      BY <1>3, WorkerQueues
    <3> QED
      BY <3>1, <3>2, <3>3, <3>4 DEF TripInv
  <2>8. \A i \in Structural : item'[i] # "failed"
    <3>1. \A i \in Structural : ~(worker[w].at = "mark" /\ worker[w].i = i /\ worker[w].mark = "failed")
      BY DEF TripInv, Busy
    <3> QED
      BY <1>1, <1>3, <3>1, WorkerMoves DEF TripInv
  <2>9. \A v \in Workers : worker'[v].at \in Busy /\ worker'[v].i \in Structural
                             => worker'[v].at = "mark" /\ worker'[v].mark # "failed"
    BY <1>3, <2>1, WorkerMoves DEF TripInv
  <2> QED
    BY <2>5, <2>6, <2>7, <2>8, <2>9 DEF TripInv
<1>4. ASSUME \A w \in Workers : worker'[w].at \in {"gone", "loop"}, fails' = 0,
             UNCHANGED <<sweep, item>>
      PROVE  TripInv'
  BY <1>1, <1>2, <1>4 DEF TripInv, FailedItems, Busy
<1>5. CASE ArmSweep \/ ResumeArm \/ Restart
  BY <1>4, <1>5, GoneIsThread DEF ArmSweep, ResumeArm, Restart, Launch, rows
<1>6. ASSUME UNCHANGED <<worker, fails>>, \A i \in Structural : item'[i] # "failed",
             sweep' = "failed" => \/ \A i \in Items : item'[i] = "absent"
                                  \/ Cardinality(FailedItems) >= MaxFailures
      PROVE  TripInv'
  <2>1. InWindow \subseteq InWindow'
    BY <1>1, <1>6, PlacesListed DEF InWindow
  <2>2. Cardinality(InWindow) <= Cardinality(InWindow')
    BY <1>1, <2>1, ItemCount
  <2> QED
    BY <1>1, <1>2, <1>6, <2>2 DEF TripInv
<1>7. CASE ScanCells
  BY <1>6, <1>7 DEF ScanCells, ThreadInv, TripInv
<1>8. CASE InsertItems \/ CancelCommit \/ StartSweep
  BY <1>1, <1>6, <1>8 DEF InsertItems, CancelCommit, CancelPending, StartSweep, TripInv
<1>9. CASE ResumeRunning \/ ResumeGenerating \/ ResumeClaimed
  <2>1. sweep # "failed" /\ sweep' # "failed"
    BY <1>9 DEF ResumeRunning, ResumeGenerating, ResumeClaimed, ThreadInv
  <2>2. \A i \in Structural : item'[i] # "failed"
    BY <1>1, <1>9 DEF ResumeRunning, ResumeGenerating, ResumeClaimed, TripInv, TypeInv
  <2> QED
    BY <1>6, <1>9, <2>1, <2>2 DEF ResumeRunning, ResumeGenerating, ResumeClaimed
<1>10. CASE FinalizeSweep
  BY <1>6, <1>10 DEF FinalizeSweep, TripInv
<1>11. CASE UNCHANGED <<sweep, item, worker, fails>>
  BY <1>6, <1>11 DEF TripInv
<1> QED
  BY <1>3, <1>5, <1>7, <1>8, <1>9, <1>10, <1>11 DEF Next, Starter, Resumer, CancelLook,
     ResumeCheck, OtherTakes, OtherFrees, RefreshRoster, SampleEnds, GenerateEnds, vars, rows
-----------------------------------------------------------------------------
LEMMA InitHolds == Init => IInv
<1> SUFFICES ASSUME Init PROVE IInv
  OBVIOUS
<1>1. PICK c \in Cells :
         /\ raw = [i \in Items |-> [v \in Versions |-> IF v = 1 THEN c[i].raw ELSE "none"]]
         /\ report = [i \in Items |-> [v \in Versions |-> IF v = 1 THEN c[i].report ELSE "none"]]
  BY DEF Init
<1>2. \A i \in Items : /\ c[i].raw \in {"none", "thin", "ample"}
                       /\ c[i].report \in {"none", "wide", "narrow"}
  BY SweepAssumption
<1>3. TypeInv
  <2>1. /\ raw \in [Items -> [Versions -> {"none", "thin", "ample"}]]
        /\ report \in [Items -> [Versions -> {"none", "wide", "narrow"}]]
    BY <1>1, <1>2
  <2>2. roster \in Versions /\ budget \in [{"busy", "cancel", "fault", "crash", "any"} -> Nat]
    BY SweepAssumption DEF Init, Versions
  <2>3. worker \in [Workers -> Threads]
    BY GoneIsThread DEF Init
  <2> QED
    BY <2>1, <2>2, <2>3 DEF Init, TypeInv, Counts
<1>4. \A w \in Workers : worker[w] = Gone
  BY DEF Init
<1>5. ThreadInv /\ SettledInv
  BY <1>4, GoneIsThread DEF Init, ThreadInv, SettledInv
<1>6. LockInv
  BY <1>4, GoneIsThread, SweepAssumption DEF Init, LockInv, WorkerOk, Busy, Counting, Free, UnderLock
<1>7. ReportInv
  BY <1>4, GoneIsThread DEF Init, ReportInv, ReportOk, JudgeOk
<1>8. TripInv
  <2>1. Cardinality(InWindow) \in Nat
    BY ItemCount DEF InWindow
  <2> QED
    BY <1>4, <2>1, GoneIsThread, SweepAssumption DEF Init, TripInv, Busy
<1>9. CountInv
  BY <1>4, TallyType, GoneIsThread DEF Init, CountInv, Counts
<1> QED
  BY <1>3, <1>5, <1>6, <1>7, <1>8, <1>9 DEF IInv

(* The inductive invariant: types, turns of the threads, locks, what an    *)
(* ended sweep leaves, reports, failure window and counters, together.     *)
THEOREM SweepInvariant == Spec => []IInv
<1>1. IInv /\ [Next]_vars => IInv'
  BY TypeStep, ThreadStep, LockStep, SettledStep, ReportStep, TripStep, CountStep DEF IInv
<1> QED
  BY InitHolds, <1>1, PTL DEF Spec

(* Every variable keeps its kind, and the window never holds more failures *)
(* than the items that can fail.                                           *)
THEOREM TypeCorrect == Spec => []TypeOK
<1>1. IInv => TypeOK
  <2> SUFFICES ASSUME IInv PROVE TypeOK
    OBVIOUS
  <2>1. fails <= Cardinality(InWindow) /\ fails \in Nat
    BY DEF IInv, TripInv, TypeInv
  <2>2. Items \ Structural \subseteq Items /\ InWindow \subseteq Items \ Structural
    BY DEF IInv, TripInv, InWindow
  <2>3. /\ Cardinality(InWindow) <= Cardinality(Items \ Structural)
        /\ Cardinality(InWindow) \in Nat /\ Cardinality(Items \ Structural) \in Nat
    BY <2>2, ItemCount
  <2>4. fails \in 0 .. Cardinality(Items \ Structural)
    BY <2>1, <2>3
  <2>5. \A w \in Workers : /\ worker[w].at \in Places /\ worker[w].i \in Items \cup {NoOne}
                           /\ worker[w].mark \in ItemOver
    BY DEF IInv, TypeInv, Threads
  <2> QED
    BY <2>4, <2>5, PlacesListed DEF IInv, TypeInv, TypeOK, Counts
<1> QED
  BY SweepInvariant, <1>1, PTL

(* No cell is sampled or reported without its lock, no lock outlives its   *)
(* worker, and no item is worked on twice (_worker, _sample_cell).         *)
THEOREM LockDiscipline == Spec => []WorkUnderLock
<1>1. IInv => WorkUnderLock
  BY DEF IInv, LockInv, WorkerOk, WorkUnderLock, UnderLock
<1> QED
  BY SweepInvariant, <1>1, PTL

(* What a completed, a cancelled and a tripped sweep leave of their items  *)
(* (_finalize_sweep_if_done, cancel_sweep, _trip_sweep_on_failure).        *)
THEOREM SweepSettles == Spec => []EndedSweepSettled
<1>1. IInv => EndedSweepSettled
  BY DEF IInv, SettledInv, EndedSweepSettled
<1> QED
  BY SweepInvariant, <1>1, PTL

(* A failed sweep has its failures, a completed item the report its        *)
(* rawdata gives, and the counters of the row never overstate, through     *)
(* lost updates and restarts.                                              *)
THEOREM VerdictsHold == Spec => []VerdictsJustified
<1>1. IInv => VerdictsJustified
  <2> SUFFICES ASSUME IInv PROVE VerdictsJustified
    OBVIOUS
  <2>1. \A i \in Items : item[i] = "completed" => Reported(i)
    BY DEF IInv, ReportInv, ReportOk
  <2>2. DOMAIN count = Counts
    BY DEF IInv, TypeInv
  <2> QED
    BY <2>1, <2>2 DEF IInv, TripInv, CountInv, VerdictsJustified, Reported, FailedItems
<1> QED
  BY SweepInvariant, <1>1, PTL
=============================================================================
