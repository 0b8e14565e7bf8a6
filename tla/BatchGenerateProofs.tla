-------------------------- MODULE BatchGenerateProofs --------------------------
(***************************************************************************)
(* For batches of any length, and any number of cancels, busy cells,       *)
(* broken pools and restarts: BatchGenerate's types, the span of its       *)
(* GENERATING locks, and the verdicts it leaves in memory and on disk.     *)
(***************************************************************************)
EXTENDS BatchGenerate, FiniteSetTheorems, TLAPS

N == Cardinality(Items)
Places == {"gone", "dead", "begin", "check", "prepare", "acquire", "mark", "refuse", "submit",
           "collect", "result", "settle", "upsert", "count", "final"}
Nexts == {"advance", "completed", "failed", "gone"}
Drivers == [at : Places, i : 0 .. N + 1, then : Nexts]

TypeInv ==
    /\ status \in {"none", "pending", "running"} \cup Over
    /\ item \in [Items -> ItemStatus]
    /\ count \in [{"completed", "failed", "pending"} -> Int]
    /\ cancelled \in BOOLEAN /\ swept \in BOOLEAN
    /\ driver \in Drivers
    /\ job \in [Items -> {"none", "prepared", "queued", "working", "ok", "error",
                          "raised", "cancelled", "taken", "lost"}]
    /\ stray \subseteq Items
    /\ lock \in [Items -> {"free", "ours", "other"}]
    /\ scope \in [Items -> BOOLEAN]
    /\ runRow \in [Items -> {"none", "running", "completed", "failed"}]
    /\ client \in {"idle", "copy", "write"}
    /\ snap \in [{"driver", "client"} -> Copies \cup {Nothing}]
    /\ disk \in Copies \cup {Nothing}
    /\ budget \in [{"busy", "cancel", "break", "crash"} -> Nat]

(* The last write of a batch, after which the driver is through.           *)
Leaving == driver.at = "upsert" /\ driver.then = "gone"
Active == driver.at \notin {"gone", "dead"} /\ ~Leaving

(* Nothing is written before the batch starts; a copy is there when it is  *)
(* to be written.                                                          *)
StartInv ==
    /\ disk = Nothing =>
         /\ driver.at = "gone" /\ status = "none" /\ client = "idle"
         /\ \A i \in Items : job[i] = "none" /\ item[i] = "pending"
         /\ count["completed"] = 0 /\ count["failed"] = 0 /\ count["pending"] = N
    /\ driver.at = "upsert" => snap["driver"] # Nothing
    /\ client = "write" => snap["client"] # Nothing
    /\ client = "copy" => status # "none"
    /\ driver.at = "begin" => status = "pending"
    /\ Active /\ driver.at # "begin" => status = "running"
    /\ driver.at = "dead" => status = "running"

(* A job has its lock, and a lock that is ours belongs to a job that was   *)
(* not finalized.                                                          *)
SpanInv ==
    \A i \in Items :
        /\ job[i] \in {"prepared", "queued", "working", "ok", "error"} => lock[i] = "ours"
        /\ lock[i] = "ours" => job[i] \notin {"none", "taken"}
        /\ job[i] = "taken" => ~scope[i]

(* The items after n are untouched, those up to n have been through the    *)
(* preparation.                                                            *)
Ahead(n) == \A k \in Items : k > n => job[k] = "none" /\ item[k] = "pending"
Behind(n) == \A k \in Items : k <= n => job[k] \in {"none", "prepared"} /\ item[k] # "pending"
NoneLeft == cancelled \/ \A k \in Items : item[k] # "pending"

(* Where the driver is, and what it has done by then.                      *)
PhaseInv ==
    /\ driver.at \in {"prepare", "acquire", "mark", "refuse", "result", "settle", "upsert", "count"}
         /\ ~Leaving => driver.i \in Items
    /\ driver.at = "check" => driver.i \in 1 .. N + 1
    /\ driver.at \in {"settle", "count"} => driver.then \in {"completed", "failed"}
    /\ driver.at = "begin" => Ahead(0)
    /\ driver.at \in {"check", "prepare", "acquire", "refuse"} => Ahead(driver.i - 1) /\ Behind(driver.i - 1)
    /\ driver.at = "mark" => Ahead(driver.i) /\ Behind(driver.i - 1) /\ job[driver.i] = "prepared"
    /\ driver.at \in {"upsert", "count"} /\ ~Leaving =>
         \/ Ahead(driver.i) /\ Behind(driver.i)
         \/ driver.then # "advance" /\ job[driver.i] \in {"taken", "lost"} /\ NoneLeft
    /\ driver.at \in {"submit", "collect", "result", "settle", "final"} => NoneLeft
    /\ driver.at = "result" => Done(driver.i)
    /\ driver.at = "settle" => job[driver.i] \in {"taken", "lost"}
    /\ driver.at \in {"upsert", "count"} /\ driver.then \in {"completed", "failed"}
         => item[driver.i] = driver.then
    /\ driver.at \in {"final", "gone"} \/ Leaving => \A i \in Items : job[i] \in {"none", "taken", "lost"}

(* What the status of an item says of its job while the driver runs.       *)
ItemOk(i) ==
    /\ job[i] = "none" => item[i] \in {"pending", "failed"}
    /\ job[i] = "prepared" => item[i] = IF driver.at = "mark" /\ i = driver.i THEN "pending" ELSE "running"
    /\ job[i] \in {"queued", "working", "ok", "error", "raised", "cancelled"} => item[i] = "running"
    /\ job[i] \in {"taken", "lost"} =>
         IF driver.at = "settle" /\ i = driver.i THEN item[i] = "running"
         ELSE item[i] \in {"completed", "failed"}

ItemInv == Active => \A i \in Items : ItemOk(i)

(* The counters lag by the item the driver has written and not counted.    *)
Uncounted == IF driver.at \in {"upsert", "count"} /\ driver.then \in {"completed", "failed"}
             THEN {driver.i} ELSE {}
Counted(c) == {i \in Items : item[i] = c} \ Uncounted

CountInv ==
    Active => /\ count["completed"] = Cardinality(Counted("completed"))
              /\ count["failed"] = Cardinality(Counted("failed"))
              /\ count["pending"] = N - count["completed"] - count["failed"]

(* No copy in flight tells of an ended batch with an item that has not.    *)
Settled(c) == c # Nothing /\ c.status \in Over => \A i \in Items : c.item[i] \in ItemOver
CopyInv == Settled(disk) /\ Settled(snap["driver"]) /\ Settled(snap["client"])

(* A job the pool has is running, by its item and by its row, and no copy  *)
(* is ahead of the batch or of an item.                                    *)
Copied(c) ==
    c # Nothing => /\ c.status \in Over => status \in Over \cup {"none"}
                   /\ \A i \in Items : item[i] \in {"pending", "running"} => c.item[i] \in {"pending", "running"}

WorkInv ==
    /\ \A i \in Items :
         /\ job[i] \in {"queued", "working"} => status = "running" /\ item[i] = "running"
         /\ job[i] \in {"prepared", "queued", "working"} => runRow[i] = "running"
    /\ driver.at = "acquire" => runRow[driver.i] = "running"
    /\ disk = Nothing => snap["driver"] = Nothing /\ snap["client"] = Nothing
    /\ Copied(disk) /\ Copied(snap["driver"]) /\ Copied(snap["client"])

(* What is left when a worker outlives its console: a batch that is over.  *)
StrayInv ==
    /\ stray # {} => /\ driver.at = "gone" /\ client = "idle" /\ status \in {"none", "cancelled"}
                     /\ disk # Nothing /\ disk.status = "cancelled"
    /\ \A i \in stray : runRow[i] = "failed" /\ item[i] = "cancelled" /\ disk.item[i] = "cancelled"

IInv == /\ TypeInv /\ StartInv /\ SpanInv /\ PhaseInv /\ ItemInv /\ CountInv /\ CopyInv /\ VerdictRight
        /\ WorkInv /\ StrayInv
-----------------------------------------------------------------------------
LEMMA Listed ==
    /\ Places = {"gone", "dead", "begin", "check", "prepare", "acquire", "mark", "refuse", "submit",
                 "collect", "result", "settle", "upsert", "count", "final"}
    /\ Nexts = {"advance", "completed", "failed", "gone"}
    /\ ItemStatus = {"pending", "running", "completed", "failed", "cancelled"}
    /\ Over = {"completed", "partial", "cancelled"} /\ ItemOver = {"completed", "failed", "cancelled"}
BY DEF Places, Nexts, ItemStatus, ItemOver, Over

(* The length of the batch, and the positions in it.                       *)
LEMMA Positions == N \in Nat /\ Items = 1 .. N
BY BatchAssumption, FS_CardinalityType DEF N

(* What the driver's steps make of its record.                             *)
LEMMA DriverEdits ==
    ASSUME driver \in Drivers
    PROVE  /\ Idle \in Drivers
           /\ \A l \in Places : [driver EXCEPT !.at = l] \in Drivers
           /\ \A l \in Places, k \in Items \cup {N + 1} : [driver EXCEPT !.at = l, !.i = k] \in Drivers
           /\ \A l \in Places, t \in Nexts : [driver EXCEPT !.at = l, !.then = t] \in Drivers
           /\ driver.i \in Items => driver.i + 1 \in Items \cup {N + 1}
           /\ driver.i \in Nat
<1>1. N \in Nat /\ Items = 1 .. N /\ "gone" \in Places /\ "advance" \in Nexts
  BY Positions, Listed
<1>2. /\ driver = [at |-> driver.at, i |-> driver.i, then |-> driver.then]
      /\ driver.at \in Places /\ driver.i \in 0 .. N + 1 /\ driver.then \in Nexts
  BY DEF Drivers
<1>3. Idle \in Drivers
  BY <1>1 DEF Drivers, Idle
<1>4. /\ \A l \in Places : [driver EXCEPT !.at = l] \in Drivers
      /\ \A l \in Places, t \in Nexts : [driver EXCEPT !.at = l, !.then = t] \in Drivers
  BY <1>2 DEF Drivers
<1>5. Items \cup {N + 1} \subseteq 0 .. N + 1
  BY <1>1
<1>6. \A l \in Places, k \in Items \cup {N + 1} : [driver EXCEPT !.at = l, !.i = k] \in Drivers
  BY <1>2, <1>5 DEF Drivers
<1>7. driver.i \in Nat /\ (driver.i \in Items => driver.i + 1 \in Items \cup {N + 1})
  BY <1>1, <1>2
<1> QED
  BY <1>3, <1>4, <1>6, <1>7

LEMMA CountEdits ==
    ASSUME count \in [{"completed", "failed", "pending"} -> Int], NEW c \in {"completed", "failed"},
           count' = [count EXCEPT ![c] = @ + 1, !["pending"] = @ - 1]
    PROVE  /\ count' \in [{"completed", "failed", "pending"} -> Int]
           /\ count'[c] = count[c] + 1 /\ count'["pending"] = count["pending"] - 1
           /\ \A d \in {"completed", "failed"} \ {c} : count'[d] = count[d]
OBVIOUS

(* The copies that _set_item, _persist and a restart make are copies.      *)
LEMMA SetItemType ==
    ASSUME TypeInv, status = "running", driver.i \in Items, NEW v \in ItemStatus, NEW l \in Nexts,
           SetItem(v, l)
    PROVE  /\ item' \in [Items -> ItemStatus] /\ driver' \in Drivers
           /\ snap' \in [{"driver", "client"} -> Copies \cup {Nothing}]
           /\ snap'["driver"] = [status |-> "running", item |-> item'] /\ snap'["driver"] # Nothing
           /\ snap'["client"] = snap["client"]
           /\ driver'.at = "upsert" /\ driver'.then = l /\ driver'.i = driver.i
           /\ item'[driver.i] = v /\ \A k \in Items \ {driver.i} : item'[k] = item[k]
           /\ UNCHANGED <<status, count, cancelled, swept>>
<1>1. item' \in [Items -> ItemStatus]
  BY DEF SetItem, TypeInv
<1>2. [status |-> "running", item |-> item'] \in Copies
  BY <1>1 DEF Copies
<1>3. [status |-> "running", item |-> item'] # Nothing
  BY <1>2, BatchAssumption
<1>4. driver' \in Drivers /\ driver'.at = "upsert" /\ driver'.then = l /\ driver'.i = driver.i
  BY DEF SetItem, TypeInv, Drivers, Places
<1> QED
  BY <1>1, <1>2, <1>3, <1>4 DEF SetItem, TypeInv

LEMMA RestoredType ==
    ASSUME TypeInv, disk # Nothing
    PROVE  /\ Restored \in Copies /\ Restored.status = "cancelled"
           /\ Restored.item \in [Items -> ItemStatus] /\ \A i \in Items : Restored.item[i] \in ItemOver
BY Listed DEF Restored, TypeInv, Copies

(* The types: every step writes values of the declared kinds.              *)
LEMMA TypeStep ==
    ASSUME TypeInv, StartInv, PhaseInv, [Next]_vars
    PROVE  TypeInv'
<1> USE Listed DEF TypeInv, item2, other, batch
<1>1. CASE Start
  BY <1>1, Positions DEF Start, Goto, Drivers, Copies
<1>2. CASE CancelFlag
  BY <1>2 DEF CancelFlag, Spend
<1>3. CASE CancelCopy
  BY <1>3 DEF CancelCopy, Copy, Copies, StartInv
<1>4. CASE CancelWrite
  BY <1>4 DEF CancelWrite
<1>5. CASE Begin
  <2>1. N > 0 \/ N = 0
    BY Positions
  <2>2. 1 \in Items \cup {N + 1}
    BY <2>1, Positions
  <2> QED
    BY <1>5, <2>2, DriverEdits DEF Begin
<1>6. CASE Check
  BY <1>6 DEF Check, Goto, Drivers
<1>7. CASE Prepare
  <2>1. driver' \in Drivers
    BY <1>7, DriverEdits DEF Prepare, Goto
  <2>2. scope' \in [Items -> BOOLEAN]
    BY <1>7 DEF Prepare
  <2>3. runRow' \in [Items -> {"none", "running", "completed", "failed"}]
    BY <1>7 DEF Prepare
  <2> QED
    BY <1>7, <2>1, <2>2, <2>3 DEF Prepare
<1>8. CASE Acquire
  BY <1>8 DEF Acquire, Goto, Drivers
<1>9. CASE MarkRunning \/ MarkRefused \/ Settle
  <2>1. status = "running" /\ driver.i \in Items /\ (driver.at = "settle" => driver.then \in {"completed", "failed"})
    BY <1>9 DEF MarkRunning, MarkRefused, Settle, StartInv, PhaseInv, Active, Leaving
  <2> QED
    BY <1>9, <2>1, SetItemType DEF MarkRunning, MarkRefused, Settle
<1>10. CASE Upsert
  <2>1. driver' \in Drivers
    <3>1. driver.then = "advance" => driver.i + 1 \in Items \cup {N + 1}
      BY <1>10, DriverEdits DEF Upsert, PhaseInv, Leaving
    <3> QED
      BY <1>10, <3>1, DriverEdits DEF Upsert
  <2> QED
    BY <1>10, <2>1 DEF Upsert
<1>11. CASE UpdateCounters
  <2>1. driver.i \in Items /\ driver.then \in {"completed", "failed"}
    BY <1>11 DEF UpdateCounters, PhaseInv, Leaving
  <2>2. driver' \in Drivers
    BY <1>11, <2>1, DriverEdits DEF UpdateCounters
  <2>3. count' \in [{"completed", "failed", "pending"} -> Int]
    BY <1>11, <2>1, CountEdits DEF UpdateCounters
  <2> QED
    BY <1>11, <2>2, <2>3 DEF UpdateCounters
<1>12. CASE Submit
  BY <1>12 DEF Submit, Goto, Drivers
<1>13. CASE Collect
  <2>1. driver' \in Drivers
    <3>1. PICK i \in Items : driver' = [driver EXCEPT !.at = "result", !.i = i]
      BY <1>13 DEF Collect
    <3> QED
      BY <3>1, DriverEdits
  <2>2. swept' \in BOOLEAN
    BY <1>13 DEF Collect
  <2> QED
    BY <1>13, <2>1, <2>2 DEF Collect
<1>14. CASE Finalize
  <2>1. driver' \in Drivers
    BY <1>14, DriverEdits DEF Finalize
  <2>2. runRow' \in [Items -> {"none", "running", "completed", "failed"}]
    BY <1>14 DEF Finalize
  <2> QED
    BY <1>14, <2>1, <2>2 DEF Finalize
<1>15. CASE ResultRaises
  BY <1>15 DEF ResultRaises, Drivers
<1>16. CASE CollectOver
  BY <1>16 DEF CollectOver, Goto, Drivers
<1>17. CASE Final
  <2>1. status' \in Over /\ item' \in [Items -> ItemStatus]
        /\ count' \in [{"completed", "failed", "pending"} -> Int]
    BY <1>17 DEF Final, Verdict
  <2>2. driver' \in Drivers
    BY <1>17 DEF Final, Drivers
  <2>3. snap' \in [{"driver", "client"} -> Copies \cup {Nothing}]
    BY <1>17, <2>1 DEF Final, Copies
  <2> QED
    BY <1>17, <2>1, <2>2, <2>3 DEF Final
<1>18. CASE PoolBreaks
  BY <1>18 DEF PoolBreaks, Spend
<1>19. CASE Restart
  <2>1. /\ driver' \in Drivers /\ swept' = FALSE /\ client' = "idle" /\ UNCHANGED scope
        /\ job' = [i \in Items |-> "none"] /\ lock' = [i \in Items |-> "free"] /\ stray' \subseteq Items
        /\ snap' = [t \in {"driver", "client"} |-> Nothing]
    BY <1>19, DriverEdits DEF Restart
  <2>2. runRow' \in [Items -> {"none", "running", "completed", "failed"}]
    BY <1>19 DEF Restart
  <2>3. budget' \in [{"busy", "cancel", "break", "crash"} -> Nat]
    BY <1>19 DEF Restart, Spend
  <2>4. /\ status' \in {"none", "pending", "running"} \cup Over /\ item' \in [Items -> ItemStatus]
        /\ count' \in [{"completed", "failed", "pending"} -> Int] /\ cancelled' \in BOOLEAN
        /\ disk' \in Copies \cup {Nothing}
    <3>1. CASE disk # Nothing /\ disk.status \in {"pending", "running"}
      BY <1>19, <3>1, RestoredType DEF Restart
    <3>2. CASE ~(disk # Nothing /\ disk.status \in {"pending", "running"})
      BY <1>19, <3>2 DEF Restart
    <3> QED
      BY <3>1, <3>2
  <2> QED
    BY <2>1, <2>2, <2>3, <2>4
<1>20. ASSUME NEW i \in Items, JobStarts(i) \/ JobEnds(i) \/ OtherTakes(i) \/ OtherFrees(i) \/ StrayEnds(i)
       PROVE  TypeInv'
  BY <1>20 DEF JobStarts, JobEnds, OtherTakes, OtherFrees, StrayEnds, Spend
<1>21. CASE UNCHANGED vars
  BY <1>21 DEF vars
<1> QED
  BY <1>1, <1>2, <1>3, <1>4, <1>5, <1>6, <1>7, <1>8, <1>9, <1>10, <1>11, <1>12, <1>13, <1>14,
     <1>15, <1>16, <1>17, <1>18, <1>19, <1>20, <1>21 DEF Next, Driver

(* What is written to disk, and when.                                      *)
LEMMA StartStep ==
    ASSUME TypeInv, StartInv, PhaseInv, [Next]_vars
    PROVE  StartInv'
<1> USE DEF StartInv, Active, Leaving, item2, other, batch
<1>1. driver \in Drivers /\ driver' \in Drivers
  BY TypeStep DEF TypeInv
<1>2. CASE Start
  <2>1. disk' \in Copies
    BY <1>2 DEF Start, TypeInv, Copies
  <2>2. disk' # Nothing
    BY <2>1, BatchAssumption
  <2> QED
    BY <1>1, <1>2, <2>2 DEF Start, Goto, Drivers
<1>3. CASE CancelFlag
  BY <1>3 DEF CancelFlag, Spend
<1>4. CASE CancelCopy
  <2>1. Copy \in Copies
    BY <1>4 DEF CancelCopy, Copy, Copies, TypeInv
  <2>2. snap'["client"] # Nothing /\ snap'["driver"] = snap["driver"]
    BY <1>4, <2>1, BatchAssumption DEF CancelCopy, TypeInv
  <2> QED
    BY <1>4, <2>2 DEF CancelCopy
<1>5. CASE CancelWrite
  BY <1>5 DEF CancelWrite, TypeInv
<1>6. CASE Begin
  BY <1>1, <1>6 DEF Begin, Drivers
<1>7. CASE Check \/ Prepare \/ Acquire
  BY <1>1, <1>7 DEF Check, Prepare, Acquire, Goto, Drivers
<1>8. CASE MarkRunning \/ MarkRefused \/ Settle
  <2>1. status = "running" /\ driver.i \in Items /\ (driver.at = "settle" => driver.then \in {"completed", "failed"})
    BY <1>8 DEF MarkRunning, MarkRefused, Settle, PhaseInv
  <2>2. driver'.at = "upsert" /\ snap'["driver"] # Nothing /\ snap'["client"] = snap["client"]
        /\ UNCHANGED status
    BY <1>8, <2>1, SetItemType, Listed DEF MarkRunning, MarkRefused, Settle
  <2> QED
    BY <1>8, <2>1, <2>2 DEF MarkRunning, MarkRefused, Settle
<1>9. CASE Upsert
  <2>1. disk' # Nothing /\ snap'["client"] = snap["client"]
    BY <1>9 DEF Upsert, TypeInv
  <2>2. driver'.at \in {"gone", "check", "count"} /\ (driver'.at # "gone" => driver.then # "gone")
    BY <1>1, <1>9 DEF Upsert, Idle, Drivers
  <2> QED
    BY <1>9, <2>1, <2>2 DEF Upsert
<1>10. CASE UpdateCounters
  <2>1. driver'.at \in {"collect", "check"}
    BY <1>1, <1>10 DEF UpdateCounters, Drivers
  <2> QED
    BY <1>10, <2>1 DEF UpdateCounters
<1>11. CASE Submit \/ Collect \/ Finalize \/ ResultRaises \/ CollectOver
  <2>1. driver'.at \in {"submit", "collect", "final", "dead", "result", "settle"}
    BY <1>1, <1>11 DEF Submit, Collect, Finalize, ResultRaises, CollectOver, Goto, Drivers
  <2> QED
    BY <1>11, <2>1 DEF Submit, Collect, Finalize, ResultRaises, CollectOver
<1>12. CASE Final
  <2>1. /\ driver'.at = "upsert" /\ driver'.then = "gone"
        /\ snap'["client"] = snap["client"] /\ status' \in Over
        /\ snap'["driver"] = [status |-> status', item |-> item']
    BY <1>1, <1>12 DEF Final, Drivers, TypeInv, Verdict, Over
  <2>2. item' \in [Items -> ItemStatus]
    BY TypeStep DEF TypeInv
  <2>3. snap'["driver"] \in Copies
    BY <2>1, <2>2 DEF Copies
  <2> QED
    BY <1>12, <2>1, <2>3, BatchAssumption, Listed DEF Final
<1>13. CASE PoolBreaks
  BY <1>13 DEF PoolBreaks
<1>14. CASE Restart
  <2>1. driver'.at = "gone" /\ client' = "idle" /\ \A i \in Items : job'[i] = "none"
    BY <1>14 DEF Restart, Idle
  <2>2. CASE disk # Nothing /\ disk.status \in {"pending", "running"}
    BY <1>14, <2>1, <2>2, RestoredType, BatchAssumption DEF Restart
  <2>3. CASE ~(disk # Nothing /\ disk.status \in {"pending", "running"})
    BY <1>14, <2>1, <2>3 DEF Restart
  <2> QED
    BY <2>2, <2>3
<1>15. ASSUME NEW i \in Items, JobStarts(i) \/ JobEnds(i) \/ OtherTakes(i) \/ OtherFrees(i) \/ StrayEnds(i)
       PROVE  StartInv'
  <2>1. UNCHANGED <<status, item, count, driver, snap, client, disk>> /\ (disk = Nothing => UNCHANGED job)
    BY <1>15 DEF JobStarts, JobEnds, OtherTakes, OtherFrees, StrayEnds, Spend
  <2> QED
    BY <2>1
<1>16. CASE UNCHANGED vars
  BY <1>16 DEF vars
<1> QED
  BY <1>2, <1>3, <1>4, <1>5, <1>6, <1>7, <1>8, <1>9, <1>10, <1>11, <1>12, <1>13, <1>14, <1>15, <1>16
     DEF Next, Driver

(* The span of GENERATING.                                                 *)
LEMMA SpanStep ==
    ASSUME TypeInv, StartInv, PhaseInv, SpanInv, [Next]_vars
    PROVE  SpanInv'
<1> USE DEF SpanInv, TypeInv, item2, other, batch
<1>1. CASE Prepare
  <2>1. driver.i \in Items /\ job[driver.i] = "none"
    BY <1>1, Positions DEF Prepare, PhaseInv, Ahead, Leaving, Drivers
  <2> QED
    BY <1>1, <2>1 DEF Prepare
<1>2. CASE Acquire
  <2>1. driver.i \in Items
    BY <1>2 DEF Acquire, PhaseInv, Leaving
  <2> QED
    BY <1>2, <2>1 DEF Acquire
<1>3. CASE Submit
  BY <1>3 DEF Submit
<1>4. CASE Collect
  BY <1>4 DEF Collect
<1>5. CASE Finalize
  BY <1>5 DEF Finalize, PhaseInv, Leaving
<1>6. CASE ResultRaises
  BY <1>6 DEF ResultRaises, PhaseInv, Leaving
<1>7. CASE PoolBreaks
  BY <1>7 DEF PoolBreaks
<1>8. CASE Restart
  BY <1>8 DEF Restart
<1>9. ASSUME NEW i \in Items, JobStarts(i) \/ JobEnds(i) \/ OtherTakes(i) \/ OtherFrees(i) \/ StrayEnds(i)
      PROVE  SpanInv'
  BY <1>9 DEF JobStarts, JobEnds, OtherTakes, OtherFrees, StrayEnds
<1>10. CASE UNCHANGED <<job, lock, scope>>
  BY <1>10
<1> QED
  BY <1>1, <1>2, <1>3, <1>4, <1>5, <1>6, <1>7, <1>8, <1>9, <1>10
     DEF Next, Driver, Start, CancelFlag, CancelCopy, CancelWrite, Begin, Check, MarkRunning,
         MarkRefused, Settle, Upsert, UpdateCounters, CollectOver, Final, vars

(* What the driver's place says of the batch.                              *)
LEMMA PhaseStep ==
    ASSUME TypeInv, StartInv, PhaseInv, ItemInv, [Next]_vars
    PROVE  PhaseInv'
<1> USE DEF Leaving, item2, other, batch
<1>1. /\ driver \in Drivers /\ driver' \in Drivers /\ N \in Nat /\ Items = 1 .. N
      /\ job \in [Items -> {"none", "prepared", "queued", "working", "ok", "error",
                            "raised", "cancelled", "taken", "lost"}]
      /\ item \in [Items -> ItemStatus]
  BY TypeStep, Positions DEF TypeInv
<1>2. CASE Start
  <2>1. driver'.at = "begin" /\ \A k \in Items : job'[k] = "none" /\ item'[k] = "pending"
    BY <1>1, <1>2 DEF Start, Goto, Drivers, StartInv
  <2> QED
    BY <2>1 DEF PhaseInv, Ahead
<1>3. CASE Begin
  <2>1. driver'.at = "check" /\ driver'.i = 1 /\ UNCHANGED <<job, item>> /\ Ahead(0)
    BY <1>1, <1>3 DEF Begin, Drivers, PhaseInv
  <2> QED
    BY <1>1, <2>1 DEF PhaseInv, Ahead, Behind
<1>4. CASE Check
  <2>1. /\ driver'.at = IF driver.i \notin Items \/ cancelled THEN "submit" ELSE "prepare"
        /\ driver'.i = driver.i /\ UNCHANGED <<job, item, cancelled>>
        /\ Ahead(driver.i - 1) /\ Behind(driver.i - 1) /\ driver.i \in 1 .. N + 1
    BY <1>1, <1>4 DEF Check, Goto, Drivers, PhaseInv
  <2>2. driver.i \notin Items => NoneLeft
    BY <1>1, <2>1 DEF Behind, NoneLeft
  <2> QED
    BY <1>1, <2>1, <2>2 DEF PhaseInv, Ahead, Behind, NoneLeft
<1>5. CASE Prepare
  <2>1. /\ driver'.at \in {"acquire", "refuse"} /\ driver'.i = driver.i /\ UNCHANGED <<job, item>>
        /\ Ahead(driver.i - 1) /\ Behind(driver.i - 1) /\ driver.i \in Items
    BY <1>1, <1>5 DEF Prepare, Goto, Drivers, PhaseInv
  <2> QED
    BY <1>1, <2>1 DEF PhaseInv, Ahead, Behind
<1>6. CASE Acquire
  <2>1. /\ driver'.i = driver.i /\ UNCHANGED item /\ driver.i \in Items
        /\ \/ driver'.at = "mark" /\ job' = [job EXCEPT ![driver.i] = "prepared"]
           \/ driver'.at = "refuse" /\ UNCHANGED job
        /\ Ahead(driver.i - 1) /\ Behind(driver.i - 1)
    BY <1>1, <1>6 DEF Acquire, Goto, Drivers, PhaseInv
  <2> QED
    BY <1>1, <2>1 DEF PhaseInv, Ahead, Behind
<1>7. CASE MarkRunning \/ MarkRefused \/ Settle
  <2>1. status = "running" /\ driver.i \in Items /\ (driver.at = "settle" => driver.then \in {"completed", "failed"})
    BY <1>7 DEF MarkRunning, MarkRefused, Settle, PhaseInv, StartInv, Active
  <2> DEFINE v == CASE driver.at = "mark" -> "running" [] driver.at = "refuse" -> "failed" [] OTHER -> driver.then
             l == CASE driver.at = "mark" -> "advance" [] driver.at = "refuse" -> "failed" [] OTHER -> driver.then
  <2>2. SetItem(v, l) /\ v \in ItemStatus /\ l \in {"advance", "completed", "failed"} /\ l \in Nexts
    BY <1>7, <2>1, Listed DEF MarkRunning, MarkRefused, Settle
  <2>3. /\ driver'.at = "upsert" /\ driver'.then = l /\ driver'.i = driver.i
        /\ item'[driver.i] = v /\ \A k \in Items \ {driver.i} : item'[k] = item[k]
        /\ UNCHANGED <<job, cancelled>> /\ v # "pending" /\ (l # "advance" => v = l)
    BY <1>7, <2>1, <2>2, SetItemType DEF MarkRunning, MarkRefused, Settle
  <2>4. \/ Ahead(driver.i)' /\ Behind(driver.i)'
        \/ l # "advance" /\ job[driver.i] \in {"taken", "lost"} /\ NoneLeft'
    <3>1. CASE MarkRunning
      BY <1>1, <2>1, <2>3, <3>1 DEF MarkRunning, PhaseInv, Ahead, Behind
    <3>2. CASE MarkRefused
      BY <1>1, <2>1, <2>3, <3>2 DEF MarkRefused, PhaseInv, Ahead, Behind
    <3>3. CASE Settle
      BY <1>1, <2>1, <2>3, <3>3 DEF Settle, PhaseInv, NoneLeft
    <3> QED
      BY <1>7, <3>1, <3>2, <3>3
  <2> QED
    BY <1>1, <2>1, <2>2, <2>3, <2>4 DEF PhaseInv, Ahead, Behind
<1>8. CASE Upsert
  <2>1. UNCHANGED <<job, item, cancelled>> /\ driver.at = "upsert"
    BY <1>8 DEF Upsert
  <2>2. CASE driver.then = "gone"
    BY <1>8, <2>1, <2>2 DEF Upsert, Idle, PhaseInv
  <2>3. CASE driver.then = "advance"
    <3>1. driver'.at = "check" /\ driver'.i = driver.i + 1 /\ driver.i \in Items
          /\ Ahead(driver.i) /\ Behind(driver.i)
      BY <1>1, <1>8, <2>3 DEF Upsert, Drivers, PhaseInv
    <3> QED
      BY <1>1, <2>1, <3>1 DEF PhaseInv, Ahead, Behind
  <2>4. CASE driver.then \in {"completed", "failed"}
    <3>1. driver'.at = "count" /\ driver'.i = driver.i /\ driver'.then = driver.then
      BY <1>1, <1>8, <2>4 DEF Upsert, Drivers
    <3> QED
      BY <2>1, <2>4, <3>1 DEF PhaseInv, Ahead, Behind, NoneLeft
  <2> QED
    BY <1>1, <2>2, <2>3, <2>4, Listed DEF Drivers
<1>9. CASE UpdateCounters
  <2>1. UNCHANGED <<job, item, cancelled>> /\ driver.i \in Items
    BY <1>9 DEF UpdateCounters, PhaseInv
  <2>2. CASE \E i \in Items : job[i] \in {"taken", "lost"}
    <3>1. driver'.at = "collect"
      BY <1>1, <1>9, <2>2 DEF UpdateCounters, Drivers
    <3>2. ~(Ahead(driver.i) /\ Behind(driver.i))
      BY <1>1, <2>1, <2>2 DEF Ahead, Behind
    <3>3. NoneLeft
      BY <1>9, <3>2 DEF UpdateCounters, PhaseInv
    <3> QED
      BY <2>1, <3>1, <3>3 DEF PhaseInv, NoneLeft
  <2>3. CASE ~\E i \in Items : job[i] \in {"taken", "lost"}
    <3>1. driver'.at = "check" /\ driver'.i = driver.i + 1
      BY <1>1, <1>9, <2>3 DEF UpdateCounters, Drivers
    <3>2. Ahead(driver.i) /\ Behind(driver.i)
      BY <1>9, <2>1, <2>3 DEF UpdateCounters, PhaseInv
    <3> QED
      BY <1>1, <2>1, <3>1, <3>2 DEF PhaseInv, Ahead, Behind
  <2> QED
    BY <2>2, <2>3
<1>10. CASE Submit
  <2>1. driver.at = "submit" /\ UNCHANGED <<item, cancelled>> /\ NoneLeft
    BY <1>10 DEF Submit, PhaseInv
  <2>2. driver'.at \in {"submit", "collect", "dead", "final"}
        /\ (driver'.at = "final" => \A i \in Items : job'[i] = "none")
    <3>1. \/ UNCHANGED driver
          \/ driver' = [driver EXCEPT !.at = "dead"]
          \/ /\ driver' = [driver EXCEPT !.at = IF \E i \in Items : job[i] # "none" THEN "collect" ELSE "final"]
             /\ UNCHANGED job
      BY <1>10 DEF Submit, Goto
    <3> QED
      BY <1>1, <2>1, <3>1 DEF Drivers
  <2> QED
    BY <2>1, <2>2 DEF PhaseInv, NoneLeft
<1>11. CASE Collect
  <2>1. PICK i \in Items :
          /\ Done(i)
          /\ driver' = [driver EXCEPT !.at = "result", !.i = i]
          /\ job' = [k \in Items |-> IF cancelled /\ ~swept /\ job[k] = "queued"
                                    THEN "cancelled" ELSE job[k]]
    BY <1>11 DEF Collect
  <2>2. driver'.at = "result" /\ driver'.i = i /\ UNCHANGED <<item, cancelled>> /\ NoneLeft
    BY <1>1, <1>11, <2>1 DEF Collect, Drivers, PhaseInv
  <2>3. Done(i)'
    BY <2>1 DEF Done
  <2> QED
    BY <2>2, <2>3 DEF PhaseInv, NoneLeft, Done
<1>12. CASE Finalize \/ ResultRaises
  <2>1. /\ driver'.at = "settle" /\ driver'.i = driver.i /\ driver'.then \in {"completed", "failed"}
        /\ driver.i \in Items /\ UNCHANGED <<item, cancelled>> /\ NoneLeft
        /\ job'[driver.i] \in {"taken", "lost"}
    BY <1>1, <1>12 DEF Finalize, ResultRaises, Drivers, PhaseInv
  <2> QED
    BY <2>1 DEF PhaseInv, NoneLeft
<1>13. CASE CollectOver
  <2>1. driver'.at = "final" /\ UNCHANGED <<job, item, cancelled>> /\ NoneLeft
        /\ \A i \in Items : job[i] \in {"none", "taken", "lost"}
    BY <1>1, <1>13 DEF CollectOver, Goto, Drivers, PhaseInv
  <2> QED
    BY <2>1 DEF PhaseInv, NoneLeft
<1>14. CASE Final
  <2>1. driver'.at = "upsert" /\ driver'.then = "gone" /\ UNCHANGED job
        /\ \A i \in Items : job[i] \in {"none", "taken", "lost"}
    BY <1>1, <1>14 DEF Final, Drivers, PhaseInv
  <2> QED
    BY <2>1 DEF PhaseInv
<1>15. ASSUME UNCHANGED <<driver, item>>, cancelled => cancelled',
              \A k \in Items : job'[k] # job[k]
                  => job[k] \in {"queued", "working"} /\ job'[k] \notin {"none", "prepared"}
       PROVE  PhaseInv'
  <2>1. /\ \A n \in Nat : (Ahead(n) => Ahead(n)') /\ (Behind(n) => Behind(n)')
        /\ NoneLeft => NoneLeft'
    BY <1>15 DEF Ahead, Behind, NoneLeft
  <2>2. /\ driver.i \in Nat /\ (driver.at \in {"check", "prepare", "acquire", "mark", "refuse"} => driver.i - 1 \in Nat)
    BY <1>1 DEF PhaseInv, Drivers
  <2>3. Ahead(0) => Ahead(0)'
    BY <2>1
  <2> QED
    BY <1>15, <2>1, <2>2, <2>3 DEF PhaseInv, Done
<1>16. CASE PoolBreaks
  <2>1. UNCHANGED <<driver, item, cancelled>>
    BY <1>16 DEF PoolBreaks
  <2>2. \A k \in Items : job'[k] # job[k]
           => job[k] \in {"queued", "working"} /\ job'[k] \notin {"none", "prepared"}
    BY <1>16 DEF PoolBreaks
  <2>3. UNCHANGED <<driver, item>> /\ (cancelled => cancelled')
    BY <2>1
  <2> QED
    BY <1>15, <2>2, <2>3
<1>17. CASE Restart
  <2>1. driver'.at = "gone" /\ \A i \in Items : job'[i] = "none"
    BY <1>17 DEF Restart, Idle
  <2> QED
    BY <2>1 DEF PhaseInv
<1>18. ASSUME NEW i \in Items, JobStarts(i) \/ JobEnds(i) \/ OtherTakes(i) \/ OtherFrees(i) \/ StrayEnds(i)
       PROVE  PhaseInv'
  <2>1. UNCHANGED <<driver, item, cancelled>>
    BY <1>18 DEF JobStarts, JobEnds, OtherTakes, OtherFrees, StrayEnds
  <2>2. \A k \in Items : job'[k] # job[k]
           => job[k] \in {"queued", "working"} /\ job'[k] \notin {"none", "prepared"}
    BY <1>1, <1>18 DEF JobStarts, JobEnds, OtherTakes, OtherFrees, StrayEnds
  <2>3. UNCHANGED <<driver, item>> /\ (cancelled => cancelled')
    BY <2>1
  <2> QED
    BY <1>15, <2>2, <2>3
<1>19. CASE CancelFlag \/ CancelCopy \/ CancelWrite \/ UNCHANGED vars
  <2>1. UNCHANGED <<driver, item, job>>
    BY <1>19 DEF CancelFlag, CancelCopy, CancelWrite, vars
  <2>2. cancelled => cancelled'
    BY <1>19 DEF CancelFlag, CancelCopy, CancelWrite, vars
  <2>3. \A k \in Items : job'[k] # job[k]
           => job[k] \in {"queued", "working"} /\ job'[k] \notin {"none", "prepared"}
    BY <2>1
  <2> QED
    BY <1>15, <2>1, <2>2, <2>3
<1> QED
  BY <1>2, <1>3, <1>4, <1>5, <1>6, <1>7, <1>8, <1>9, <1>10, <1>11, <1>12, <1>13, <1>14, <1>16,
     <1>17, <1>18, <1>19 DEF Next, Driver

(* What the items say of their jobs while the driver is at work.           *)
LEMMA ItemStep ==
    ASSUME TypeInv, StartInv, PhaseInv, ItemInv, [Next]_vars
    PROVE  ItemInv'
<1> USE DEF Active, Leaving, item2, other, batch
<1>1. /\ driver \in Drivers /\ driver' \in Drivers /\ N \in Nat /\ Items = 1 .. N
      /\ job \in [Items -> {"none", "prepared", "queued", "working", "ok", "error",
                            "raised", "cancelled", "taken", "lost"}]
      /\ item \in [Items -> ItemStatus]
  BY TypeStep, Positions DEF TypeInv
<1>2. ASSUME UNCHANGED <<job, item>>, driver.at \notin {"mark", "settle"},
             driver'.at \notin {"mark", "settle"}, Active' => Active
      PROVE  ItemInv'
  BY <1>2 DEF ItemInv, ItemOk
<1>3. CASE Start
  <2>1. driver'.at = "begin" /\ \A k \in Items : job'[k] = "none" /\ item'[k] = "pending"
    BY <1>1, <1>3 DEF Start, Goto, Drivers, StartInv
  <2> QED
    BY <2>1 DEF ItemInv, ItemOk
<1>4. CASE Begin \/ Check \/ Prepare \/ CollectOver
  <2>1. UNCHANGED <<job, item>> /\ driver.at \in {"begin", "check", "prepare", "collect"}
        /\ driver'.at \in {"check", "submit", "prepare", "acquire", "refuse", "final"}
    BY <1>1, <1>4 DEF Begin, Check, Prepare, CollectOver, Goto, Drivers
  <2> QED
    BY <1>2, <2>1
<1>5. CASE Acquire
  <2>1. /\ driver'.i = driver.i /\ UNCHANGED item /\ driver.i \in Items /\ driver.at = "acquire"
        /\ \/ driver'.at = "mark" /\ job' = [job EXCEPT ![driver.i] = "prepared"]
           \/ driver'.at = "refuse" /\ UNCHANGED job
    BY <1>1, <1>5 DEF Acquire, Goto, Drivers, PhaseInv
  <2>2. item[driver.i] = "pending"
    BY <1>1, <2>1 DEF PhaseInv, Ahead
  <2> QED
    BY <1>1, <2>1, <2>2 DEF ItemInv, ItemOk
<1>6. CASE MarkRunning \/ MarkRefused \/ Settle
  <2>1. status = "running" /\ driver.i \in Items /\ (driver.at = "settle" => driver.then \in {"completed", "failed"})
    BY <1>6 DEF MarkRunning, MarkRefused, Settle, PhaseInv, StartInv
  <2> DEFINE v == CASE driver.at = "mark" -> "running" [] driver.at = "refuse" -> "failed" [] OTHER -> driver.then
             l == CASE driver.at = "mark" -> "advance" [] driver.at = "refuse" -> "failed" [] OTHER -> driver.then
  <2>2. SetItem(v, l) /\ v \in ItemStatus /\ l \in Nexts
    BY <1>6, <2>1, Listed DEF MarkRunning, MarkRefused, Settle
  <2>3. /\ driver'.at = "upsert" /\ driver'.i = driver.i /\ UNCHANGED job
        /\ item'[driver.i] = v /\ \A k \in Items \ {driver.i} : item'[k] = item[k]
    BY <1>6, <2>1, <2>2, SetItemType DEF MarkRunning, MarkRefused, Settle
  <2>4. \A k \in Items \ {driver.i} : ItemOk(k)'
    BY <1>6, <2>3 DEF MarkRunning, MarkRefused, Settle, ItemInv, ItemOk
  <2>5. ASSUME NEW k \in Items, k = driver.i PROVE ItemOk(k)'
    <3>1. CASE MarkRunning
      BY <2>3, <2>5, <3>1 DEF MarkRunning, PhaseInv, ItemOk
    <3>2. CASE MarkRefused
      <4>1. job[driver.i] = "none"
        BY <1>1, <2>1, <3>2 DEF MarkRefused, PhaseInv, Ahead
      <4> QED
        BY <2>3, <2>5, <3>2, <4>1 DEF MarkRefused, ItemOk
    <3>3. CASE Settle
      BY <2>1, <2>3, <2>5, <3>3 DEF Settle, PhaseInv, ItemOk
    <3> QED
      BY <1>6, <3>1, <3>2, <3>3
  <2> QED
    BY <2>4, <2>5 DEF ItemInv
<1>7. CASE Upsert
  <2>1. /\ UNCHANGED <<job, item>> /\ driver.at = "upsert"
        /\ driver'.at \in {"gone", "check", "count"} /\ (driver'.at # "gone" => driver.then # "gone")
    BY <1>1, <1>7 DEF Upsert, Idle, Drivers
  <2> QED
    BY <1>2, <2>1
<1>8. CASE UpdateCounters
  <2>1. UNCHANGED <<job, item>> /\ driver.at = "count" /\ driver'.at \in {"collect", "check"}
    BY <1>1, <1>8 DEF UpdateCounters, Drivers
  <2> QED
    BY <1>2, <2>1
<1>9. CASE Submit
  <2>1. driver.at = "submit" /\ UNCHANGED item /\ driver'.at \in {"submit", "collect", "final", "dead"}
    BY <1>1, <1>9 DEF Submit, Goto, Drivers
  <2>2. \A k \in Items : job'[k] = job[k] \/ (job[k] = "prepared" /\ job'[k] = "queued")
    BY <1>1, <1>9 DEF Submit
  <2> QED
    BY <2>1, <2>2 DEF ItemInv, ItemOk
<1>10. CASE Collect
  <2>1. driver.at = "collect" /\ UNCHANGED item /\ driver'.at = "result"
    BY <1>1, <1>10 DEF Collect, Drivers
  <2>2. \A k \in Items : job'[k] = job[k] \/ (job[k] = "queued" /\ job'[k] = "cancelled")
    BY <1>1, <1>10 DEF Collect
  <2> QED
    BY <2>1, <2>2 DEF ItemInv, ItemOk
<1>11. CASE Finalize \/ ResultRaises
  <2>1. driver.at = "result" /\ driver'.at = "settle" /\ driver'.i = driver.i /\ UNCHANGED item
    BY <1>1, <1>11 DEF Finalize, ResultRaises, Drivers
  <2>2. driver.i \in Items /\ Done(driver.i)
    BY <2>1 DEF PhaseInv
  <2>3. job'[driver.i] \in {"taken", "lost"} /\ \A k \in Items \ {driver.i} : job'[k] = job[k]
    BY <1>1, <1>11, <2>2 DEF Finalize, ResultRaises
  <2> QED
    BY <2>1, <2>2, <2>3 DEF ItemInv, ItemOk, Done
<1>12. CASE Final
  BY <1>1, <1>12 DEF Final, Drivers, ItemInv
<1>13. CASE PoolBreaks
  <2>1. UNCHANGED <<driver, item>>
    BY <1>13 DEF PoolBreaks
  <2>2. \A k \in Items : job'[k] = job[k] \/ (job[k] \in {"queued", "working"} /\ job'[k] = "raised")
    BY <1>13 DEF PoolBreaks
  <2> QED
    BY <2>1, <2>2 DEF ItemInv, ItemOk
<1>14. CASE Restart
  BY <1>14 DEF Restart, Idle, ItemInv
<1>15. ASSUME NEW i \in Items, JobStarts(i) \/ JobEnds(i) \/ OtherTakes(i) \/ OtherFrees(i) \/ StrayEnds(i)
       PROVE  ItemInv'
  <2>1. UNCHANGED <<driver, item>>
    BY <1>15 DEF JobStarts, JobEnds, OtherTakes, OtherFrees, StrayEnds
  <2>2. \A k \in Items : job'[k] = job[k]
                      \/ (job[k] \in {"queued", "working"} /\ job'[k] \in {"working", "ok", "error"})
    BY <1>1, <1>15 DEF JobStarts, JobEnds, OtherTakes, OtherFrees, StrayEnds
  <2> QED
    BY <2>1, <2>2 DEF ItemInv, ItemOk
<1>16. CASE CancelFlag \/ CancelCopy \/ CancelWrite \/ UNCHANGED vars
  BY <1>16 DEF CancelFlag, CancelCopy, CancelWrite, vars, ItemInv, ItemOk
<1> QED
  BY <1>3, <1>4, <1>5, <1>6, <1>7, <1>8, <1>9, <1>10, <1>11, <1>12, <1>13, <1>14, <1>15, <1>16
     DEF Next, Driver

(* One more item of a status, one more in its count.                       *)
LEMMA CountedGrows ==
    ASSUME NEW S \in SUBSET Items, NEW i \in Items \ S
    PROVE  /\ Cardinality(S) \in Nat
           /\ Cardinality(S \cup {i}) = Cardinality(S) + 1
<1>1. IsFiniteSet(S)
  BY BatchAssumption, FS_Subset
<1> QED
  BY <1>1, FS_CardinalityType, FS_AddElement

(* The counters follow the items.                                          *)
LEMMA CountStep ==
    ASSUME TypeInv, StartInv, PhaseInv, ItemInv, CountInv, [Next]_vars
    PROVE  CountInv'
<1> USE DEF Active, Leaving, item2, other, batch
<1>1. /\ driver \in Drivers /\ driver' \in Drivers /\ N \in Nat /\ Items = 1 .. N
      /\ item \in [Items -> ItemStatus] /\ count \in [{"completed", "failed", "pending"} -> Int]
  BY TypeStep, Positions DEF TypeInv
<1>2. ASSUME UNCHANGED count, \A c \in {"completed", "failed"} : Counted(c)' = Counted(c),
             Active' => Active
      PROVE  CountInv'
  BY <1>2 DEF CountInv
<1>3. ASSUME UNCHANGED <<count, item>>, Uncounted' = Uncounted, Active' => Active
      PROVE  CountInv'
  <2>1. \A c \in {"completed", "failed"} : Counted(c)' = Counted(c)
    BY <1>3 DEF Counted
  <2> QED
    BY <1>2, <1>3, <2>1
<1>4. CASE Start
  <2>1. driver'.at = "begin" /\ \A k \in Items : item'[k] = "pending"
    BY <1>1, <1>4 DEF Start, Goto, Drivers, StartInv
  <2>2. Counted("completed")' = {} /\ Counted("failed")' = {}
    BY <2>1 DEF Counted
  <2>3. count'["completed"] = 0 /\ count'["failed"] = 0 /\ count'["pending"] = N
    BY <1>4 DEF Start, StartInv
  <2>4. Cardinality(Counted("completed")') = 0 /\ Cardinality(Counted("failed")') = 0
    BY <2>2, FS_EmptySet
  <2> QED
    BY <1>1, <2>3, <2>4 DEF CountInv
<1>5. CASE Begin \/ Check \/ Prepare \/ CollectOver \/ Acquire \/ Submit \/ Collect
           \/ Finalize \/ ResultRaises
  <2>1. /\ UNCHANGED <<count, item>>
        /\ driver.at \in {"begin", "check", "prepare", "acquire", "submit", "collect", "result"}
    BY <1>5 DEF Begin, Check, Prepare, CollectOver, Acquire, Submit, Collect, Finalize, ResultRaises
  <2>2. driver'.at \in {"check", "submit", "prepare", "acquire", "refuse", "final", "mark",
                        "collect", "dead", "result", "settle"}
    BY <1>1, <1>5 DEF Begin, Check, Prepare, CollectOver, Acquire, Submit, Collect, Finalize,
                      ResultRaises, Goto, Drivers
  <2>3. Uncounted = {} /\ Uncounted' = {}
    BY <2>1, <2>2 DEF Uncounted
  <2>4. (Active' => Active) /\ Uncounted' = Uncounted
    BY <2>1, <2>3
  <2> QED
    BY <1>3, <2>1, <2>4
<1>6. CASE MarkRunning \/ MarkRefused \/ Settle
  <2>1. status = "running" /\ driver.i \in Items /\ (driver.at = "settle" => driver.then \in {"completed", "failed"})
    BY <1>6 DEF MarkRunning, MarkRefused, Settle, PhaseInv, StartInv
  <2> DEFINE v == CASE driver.at = "mark" -> "running" [] driver.at = "refuse" -> "failed" [] OTHER -> driver.then
             l == CASE driver.at = "mark" -> "advance" [] driver.at = "refuse" -> "failed" [] OTHER -> driver.then
  <2>2. SetItem(v, l) /\ v \in ItemStatus /\ l \in Nexts
    BY <1>6, <2>1, Listed DEF MarkRunning, MarkRefused, Settle
  <2>3. /\ driver'.at = "upsert" /\ driver'.then = l /\ driver'.i = driver.i /\ UNCHANGED count
        /\ item'[driver.i] = v /\ \A k \in Items \ {driver.i} : item'[k] = item[k]
    BY <1>6, <2>1, <2>2, SetItemType
  <2>4. item[driver.i] \notin {"completed", "failed"}
    <3>1. CASE MarkRunning \/ MarkRefused
      BY <1>1, <2>1, <3>1 DEF MarkRunning, MarkRefused, PhaseInv, Ahead, ItemInv, ItemOk
    <3>2. CASE Settle
      BY <2>1, <3>2 DEF Settle, PhaseInv, ItemInv, ItemOk
    <3> QED
      BY <1>6, <3>1, <3>2
  <2>5. Uncounted = {}
    BY <1>6 DEF MarkRunning, MarkRefused, Settle, Uncounted
  <2>6. (v \in {"completed", "failed"} => Uncounted' = {driver.i})
        /\ (v \notin {"completed", "failed"} => Uncounted' = {})
    BY <1>6, <2>1, <2>3 DEF MarkRunning, MarkRefused, Settle, Uncounted
  <2>7. \A c \in {"completed", "failed"} : Counted(c)' = Counted(c)
    <3> TAKE c \in {"completed", "failed"}
    <3>1. Counted(c)' = {i \in Items : item'[i] = c} \ Uncounted' /\ Counted(c) = {i \in Items : item[i] = c}
      BY <2>5 DEF Counted
    <3>2. ASSUME NEW i \in Items
          PROVE  (item'[i] = c /\ i \notin Uncounted') <=> item[i] = c
      <4>1. CASE i = driver.i
        BY <2>3, <2>4, <2>6, <4>1
      <4>2. CASE i # driver.i
        BY <2>3, <2>6, <4>2
      <4> QED
        BY <4>1, <4>2
    <3> QED
      BY <3>1, <3>2
  <2>8. Active
    BY <1>6 DEF MarkRunning, MarkRefused, Settle
  <2> QED
    BY <1>2, <2>3, <2>7, <2>8
<1>7. CASE Upsert
  <2>1. UNCHANGED <<count, item>> /\ driver.at = "upsert"
    BY <1>7 DEF Upsert
  <2>2. CASE driver.then = "gone"
    BY <1>7, <2>2 DEF Upsert, Idle, CountInv
  <2>3. CASE driver.then = "advance"
    <3>1. driver'.at = "check"
      BY <1>1, <1>7, <2>3 DEF Upsert, Drivers
    <3>2. Uncounted' = Uncounted
      BY <2>3, <3>1 DEF Uncounted
    <3>3. Active
      BY <2>1, <2>3
    <3> QED
      BY <1>3, <2>1, <3>2, <3>3
  <2>4. CASE driver.then \in {"completed", "failed"}
    <3>1. driver'.at = "count" /\ driver'.i = driver.i /\ driver'.then = driver.then
      BY <1>1, <1>7, <2>4 DEF Upsert, Drivers
    <3>2. Uncounted' = Uncounted
      BY <2>1, <2>4, <3>1 DEF Uncounted
    <3>3. Active
      BY <2>1, <2>4
    <3> QED
      BY <1>3, <2>1, <3>2, <3>3
  <2> QED
    BY <1>1, <2>2, <2>3, <2>4, Listed DEF Drivers
<1>8. CASE UpdateCounters
  <2>1. driver.i \in Items /\ driver.then \in {"completed", "failed"} /\ item[driver.i] = driver.then
        /\ UNCHANGED item /\ Uncounted = {driver.i} /\ driver.at = "count"
    BY <1>8 DEF UpdateCounters, PhaseInv, Uncounted
  <2>2. /\ count'[driver.then] = count[driver.then] + 1 /\ count'["pending"] = count["pending"] - 1
        /\ \A d \in {"completed", "failed"} \ {driver.then} : count'[d] = count[d]
    BY <1>1, <1>8, <2>1, CountEdits DEF UpdateCounters
  <2>3. Uncounted' = {}
    <3>1. driver'.at \in {"collect", "check"}
      BY <1>1, <1>8 DEF UpdateCounters, Drivers
    <3> QED
      BY <3>1 DEF Uncounted
  <2>4. Counted(driver.then)' = Counted(driver.then) \cup {driver.i}
    <3>1. Counted(driver.then) = {k \in Items : item[k] = driver.then} \ {driver.i}
      BY <2>1 DEF Counted
    <3>2. {k \in Items : item'[k] = driver.then} \ Uncounted' = Counted(driver.then) \cup {driver.i}
      BY <2>1, <2>3, <3>1
    <3>3. driver'.then = driver.then
      BY <1>1, <1>8 DEF UpdateCounters, Drivers
    <3> QED
      BY <3>2, <3>3 DEF Counted
  <2>5. \A d \in {"completed", "failed"} \ {driver.then} : Counted(d)' = Counted(d)
    BY <2>1, <2>3 DEF Counted
  <2>6. Counted(driver.then) \in SUBSET Items /\ driver.i \in Items \ Counted(driver.then)
    BY <2>1 DEF Counted
  <2>7. Cardinality(Counted(driver.then)') = Cardinality(Counted(driver.then)) + 1
    BY <2>4, <2>6, CountedGrows
  <2>8. driver'.then = driver.then
    BY <1>1, <1>8 DEF UpdateCounters, Drivers
  <2>9. CountInv
    OBVIOUS
  <2>10. CASE driver.then = "completed"
    <3>1. Cardinality(Counted("completed")') = Cardinality(Counted("completed")) + 1
          /\ Counted("failed")' = Counted("failed")
      BY <2>5, <2>7, <2>8, <2>10
    <3> QED
      BY <1>1, <2>1, <2>2, <2>10, <3>1 DEF CountInv
  <2>11. CASE driver.then = "failed"
    <3>1. Cardinality(Counted("failed")') = Cardinality(Counted("failed")) + 1
          /\ Counted("completed")' = Counted("completed")
      BY <2>5, <2>7, <2>8, <2>11
    <3> QED
      BY <1>1, <2>1, <2>2, <2>11, <3>1 DEF CountInv
  <2> QED
    BY <2>1, <2>10, <2>11
<1>9. CASE Final
  BY <1>1, <1>9 DEF Final, Drivers, CountInv
<1>10. CASE Restart
  BY <1>10 DEF Restart, Idle, CountInv
<1>11. CASE CancelFlag \/ CancelCopy \/ CancelWrite \/ PoolBreaks \/ UNCHANGED vars
  <2>1. UNCHANGED <<driver, count, item>>
    BY <1>11 DEF CancelFlag, CancelCopy, CancelWrite, PoolBreaks, vars
  <2> QED
    BY <1>3, <2>1 DEF Uncounted
<1>12. ASSUME NEW i \in Items, JobStarts(i) \/ JobEnds(i) \/ OtherTakes(i) \/ OtherFrees(i) \/ StrayEnds(i)
       PROVE  CountInv'
  <2>1. UNCHANGED <<driver, count, item>>
    BY <1>12 DEF JobStarts, JobEnds, OtherTakes, OtherFrees, StrayEnds
  <2> QED
    BY <1>3, <2>1 DEF Uncounted
<1> QED
  BY <1>4, <1>5, <1>6, <1>7, <1>8, <1>9, <1>10, <1>11, <1>12 DEF Next, Driver

(* At the verdict every item has ended or was never prepared.              *)
LEMMA AtTheVerdict ==
    ASSUME TypeInv, PhaseInv, ItemInv, driver.at = "final", NEW i \in Items
    PROVE  item[i] \in {"completed", "failed"} \/ (cancelled /\ item[i] = "pending")
<1>1. job[i] \in {"none", "taken", "lost"} /\ (cancelled \/ item[i] # "pending")
  BY DEF PhaseInv, NoneLeft
<1>2. ItemOk(i)
  BY DEF ItemInv, Active, Leaving
<1> QED
  BY <1>1, <1>2 DEF ItemOk

LEMMA FinalItems ==
    ASSUME TypeInv, PhaseInv, ItemInv, Final
    PROVE  /\ \A i \in Items : item'[i] \in ItemOver
           /\ ~cancelled => \A i \in Items : item'[i] = item[i] /\ item[i] \in {"completed", "failed"}
<1>1. item' = [i \in Items |-> IF cancelled /\ i \in {k \in Items : item[k] = "pending"}
                               THEN "cancelled" ELSE item[i]]
  BY DEF Final
<1>2. \A i \in Items : item[i] \in {"completed", "failed"} \/ (cancelled /\ item[i] = "pending")
  BY AtTheVerdict DEF Final
<1> QED
  BY <1>1, <1>2, Listed

(* No copy, in flight or on disk, misreports an ended batch.               *)
LEMMA CopyStep ==
    ASSUME TypeInv, StartInv, PhaseInv, ItemInv, CopyInv, VerdictRight, [Next]_vars
    PROVE  CopyInv'
<1> USE DEF CopyInv, item2, other, batch
<1>1. TypeInv'
  BY TypeStep
<1>2. ASSUME UNCHANGED <<disk, snap>>
      PROVE  CopyInv'
  BY <1>2 DEF Settled
<1>3. CASE Start
  <2>1. UNCHANGED snap /\ disk'.status = "pending"
    BY <1>3 DEF Start
  <2> QED
    BY <2>1, Listed DEF Settled
<1>4. CASE CancelCopy
  <2>1. snap'["client"] = Copy /\ snap'["driver"] = snap["driver"] /\ UNCHANGED disk
    BY <1>4 DEF CancelCopy, TypeInv
  <2>2. Settled(Copy)
    BY DEF Settled, Copy, VerdictRight, EndsSettled
  <2> QED
    BY <2>1, <2>2 DEF Settled
<1>5. CASE CancelWrite
  <2>1. disk' = snap["client"] /\ snap'["client"] = Nothing /\ snap'["driver"] = snap["driver"]
    BY <1>5 DEF CancelWrite, TypeInv
  <2> QED
    BY <2>1 DEF Settled
<1>6. CASE MarkRunning \/ MarkRefused \/ Settle
  <2>1. status = "running" /\ driver.i \in Items /\ (driver.at = "settle" => driver.then \in {"completed", "failed"})
    BY <1>6 DEF MarkRunning, MarkRefused, Settle, PhaseInv, StartInv, Active, Leaving
  <2> DEFINE v == CASE driver.at = "mark" -> "running" [] driver.at = "refuse" -> "failed" [] OTHER -> driver.then
             l == CASE driver.at = "mark" -> "advance" [] driver.at = "refuse" -> "failed" [] OTHER -> driver.then
  <2>2. SetItem(v, l) /\ v \in ItemStatus /\ l \in Nexts
    BY <1>6, <2>1, Listed DEF MarkRunning, MarkRefused, Settle
  <2>3. snap'["driver"] = [status |-> "running", item |-> item'] /\ snap'["client"] = snap["client"]
        /\ UNCHANGED disk
    BY <1>6, <2>1, <2>2, SetItemType DEF MarkRunning, MarkRefused, Settle
  <2>4. snap'["driver"].status = "running"
    BY <2>3
  <2> QED
    BY <2>3, <2>4, Listed DEF Settled
<1>7. CASE Upsert
  <2>1. disk' = snap["driver"] /\ snap'["driver"] = Nothing /\ snap'["client"] = snap["client"]
    BY <1>7 DEF Upsert, TypeInv
  <2> QED
    BY <2>1 DEF Settled
<1>8. CASE Final
  <2>1. snap'["driver"] = [status |-> status', item |-> item'] /\ snap'["client"] = snap["client"]
        /\ UNCHANGED disk
    BY <1>8 DEF Final, TypeInv
  <2>2. snap'["driver"].item = item' /\ \A i \in Items : item'[i] \in ItemOver
    BY <1>8, <2>1, FinalItems
  <2> QED
    BY <2>1, <2>2 DEF Settled
<1>9. CASE Restart
  <2>1. snap'["driver"] = Nothing /\ snap'["client"] = Nothing
    BY <1>9 DEF Restart
  <2>2. Settled(disk')
    <3>1. CASE disk # Nothing /\ disk.status \in {"pending", "running"}
      BY <1>9, <3>1, RestoredType DEF Restart, Settled
    <3>2. CASE ~(disk # Nothing /\ disk.status \in {"pending", "running"})
      BY <1>9, <3>2 DEF Restart
    <3> QED
      BY <3>1, <3>2
  <2> QED
    BY <2>1, <2>2 DEF Settled
<1>10. CASE CancelFlag \/ Begin \/ Check \/ Prepare \/ Acquire \/ UpdateCounters \/ Submit \/ Collect
            \/ Finalize \/ ResultRaises \/ CollectOver \/ PoolBreaks \/ UNCHANGED vars
  BY <1>2, <1>10 DEF CancelFlag, Begin, Check, Prepare, Acquire, UpdateCounters, Submit, Collect,
                     Finalize, ResultRaises, CollectOver, PoolBreaks, vars
<1>11. ASSUME NEW i \in Items, JobStarts(i) \/ JobEnds(i) \/ OtherTakes(i) \/ OtherFrees(i) \/ StrayEnds(i)
       PROVE  CopyInv'
  BY <1>2, <1>11 DEF JobStarts, JobEnds, OtherTakes, OtherFrees, StrayEnds
<1> QED
  BY <1>3, <1>4, <1>5, <1>6, <1>7, <1>8, <1>9, <1>10, <1>11 DEF Next, Driver

(* Two statuses between them account for every item.                       *)
LEMMA ItemsSplit ==
    ASSUME \A i \in Items : item[i] \in {"completed", "failed"}
    PROVE  /\ N = Cardinality({i \in Items : item[i] = "completed"})
                  + Cardinality({i \in Items : item[i] = "failed"})
           /\ Cardinality({i \in Items : item[i] = "completed"}) \in Nat
           /\ Cardinality({i \in Items : item[i] = "failed"}) \in Nat
           /\ Cardinality({i \in Items : item[i] = "failed"}) = 0 <=> {i \in Items : item[i] = "failed"} = {}
<1> DEFINE C == {i \in Items : item[i] = "completed"}
           F == {i \in Items : item[i] = "failed"}
<1>1. IsFiniteSet(C) /\ IsFiniteSet(F)
  BY BatchAssumption, FS_Subset
<1>2. C \cup F = Items /\ C \cap F = {}
  OBVIOUS
<1>3. Cardinality(C) \in Nat /\ Cardinality(F) \in Nat /\ (Cardinality(F) = 0 <=> F = {})
  BY <1>1, FS_CardinalityType, FS_EmptySet
<1>4. Cardinality(C \cup F) = Cardinality(C) + Cardinality(F) - Cardinality(C \cap F)
  BY <1>1, FS_Union
<1>5. Cardinality(C \cap F) = 0
  BY <1>2, FS_EmptySet
<1>6. N = Cardinality(C \cup F)
  BY <1>2 DEF N
<1>7. N = Cardinality(C) + Cardinality(F)
  BY <1>3, <1>4, <1>5, <1>6
<1> QED
  BY <1>3, <1>7

(* What the verdict says, and that nothing changes under it.               *)
LEMMA VerdictStep ==
    ASSUME TypeInv, StartInv, PhaseInv, ItemInv, CountInv, CopyInv, VerdictRight, [Next]_vars
    PROVE  VerdictRight'
<1> USE DEF item2, other, batch
<1>1. Settled(disk')
  BY CopyStep DEF CopyInv
<1>2. ASSUME UNCHANGED <<status, item, count>>, cancelled' = cancelled \/ status \in {"pending", "running"}
      PROVE  VerdictRight'
  BY <1>1, <1>2, Listed DEF VerdictRight, EndsSettled, Settled
<1>3. ASSUME status' \in {"none", "pending", "running"}
      PROVE  VerdictRight'
  BY <1>1, <1>3, Listed DEF VerdictRight, EndsSettled, Settled
<1>4. CASE Start \/ Begin
  BY <1>3, <1>4 DEF Start, Begin
<1>5. CASE MarkRunning \/ MarkRefused \/ Settle \/ UpdateCounters
  <2>1. status = "running"
    BY <1>5 DEF MarkRunning, MarkRefused, Settle, UpdateCounters, StartInv, Active, Leaving
  <2>2. status' = "running"
    BY <1>5, <2>1 DEF MarkRunning, MarkRefused, Settle, UpdateCounters, SetItem
  <2> QED
    BY <1>3, <2>2
<1>6. CASE Final
  <2>1. status' = Verdict /\ UNCHANGED cancelled /\ driver.at = "final"
    BY <1>6 DEF Final
  <2>2. /\ \A i \in Items : item'[i] \in ItemOver
        /\ ~cancelled => \A i \in Items : item'[i] = item[i] /\ item[i] \in {"completed", "failed"}
    BY <1>6, FinalItems
  <2>3. CASE cancelled
    <3>1. status' = "cancelled"
      BY <2>1, <2>3 DEF Verdict
    <3> QED
      BY <1>1, <2>2, <3>1 DEF VerdictRight, EndsSettled, Settled
  <2>4. CASE ~cancelled
    <3> DEFINE C == {i \in Items : item[i] = "completed"}
               F == {i \in Items : item[i] = "failed"}
    <3>1. count' = count
      BY <1>6, <2>4 DEF Final
    <3>2. Counted("completed") = C /\ Counted("failed") = F
      BY <2>1 DEF Counted, Uncounted
    <3>3. count["completed"] = Cardinality(C) /\ count["failed"] = Cardinality(F)
          /\ count["pending"] = N - count["completed"] - count["failed"]
      BY <2>1, <3>2 DEF CountInv, Active, Leaving
    <3>4. N = Cardinality(C) + Cardinality(F) /\ Cardinality(C) \in Nat /\ Cardinality(F) \in Nat
          /\ (Cardinality(F) = 0 <=> F = {})
      BY <2>2, <2>4, ItemsSplit
    <3>5. count["pending"] = 0
      BY <3>3, <3>4
    <3>6. {i \in Items : item'[i] = "completed"} = C /\ {i \in Items : item'[i] = "failed"} = F
      BY <2>2, <2>4
    <3>7. status' = IF F = {} THEN "completed" ELSE "partial"
      BY <2>1, <2>4, <3>3, <3>4 DEF Verdict
    <3>8. \A c \in {"completed", "failed"} : count'[c] = Cardinality({i \in Items : item'[i] = c})
      BY <3>1, <3>3, <3>6
    <3>9. status' = "completed" => \A i \in Items : item'[i] = "completed"
      BY <2>2, <2>4, <3>7
    <3>10. status' = "partial" => \E i \in Items : item'[i] = "failed"
      BY <3>6, <3>7
    <3> QED
      BY <1>1, <2>1, <2>2, <2>4, <3>1, <3>5, <3>8, <3>9, <3>10 DEF VerdictRight, EndsSettled, Settled
  <2> QED
    BY <2>3, <2>4
<1>7. CASE Restart
  <2>1. CASE disk # Nothing /\ disk.status \in {"pending", "running"}
    <3>1. status' = "cancelled" /\ \A i \in Items : item'[i] \in ItemOver
      BY <1>7, <2>1, RestoredType DEF Restart
    <3> QED
      BY <1>1, <3>1 DEF VerdictRight, EndsSettled, Settled
  <2>2. CASE ~(disk # Nothing /\ disk.status \in {"pending", "running"})
    BY <1>3, <1>7, <2>2 DEF Restart
  <2> QED
    BY <2>1, <2>2
<1>8. CASE CancelFlag
  BY <1>2, <1>8 DEF CancelFlag
<1>9. CASE CancelCopy \/ CancelWrite \/ Check \/ Prepare \/ Acquire \/ Upsert \/ Submit \/ Collect
           \/ Finalize \/ ResultRaises \/ CollectOver \/ PoolBreaks \/ UNCHANGED vars
  <2>1. UNCHANGED batch
    BY <1>9 DEF CancelCopy, CancelWrite, Check, Prepare, Acquire, Upsert, Submit, Collect, Finalize,
                ResultRaises, CollectOver, PoolBreaks, vars
  <2> QED
    BY <1>2, <2>1
<1>10. ASSUME NEW i \in Items, JobStarts(i) \/ JobEnds(i) \/ OtherTakes(i) \/ OtherFrees(i) \/ StrayEnds(i)
       PROVE  VerdictRight'
  <2>1. UNCHANGED batch
    BY <1>10 DEF JobStarts, JobEnds, OtherTakes, OtherFrees, StrayEnds
  <2> QED
    BY <1>2, <2>1
<1> QED
  BY <1>4, <1>5, <1>6, <1>7, <1>8, <1>9, <1>10 DEF Next, Driver

(* The pool's jobs and the copies, step by step.                           *)
LEMMA WorkStep ==
    ASSUME TypeInv, StartInv, PhaseInv, ItemInv, CopyInv, WorkInv, [Next]_vars
    PROVE  WorkInv'
<1> USE DEF item2, other, batch, Copied
<1>1. driver \in Drivers
  BY DEF TypeInv
<1>22. job \in [Items -> {"none", "prepared", "queued", "working", "ok", "error",
                          "raised", "cancelled", "taken", "lost"}]
  BY DEF TypeInv
<1>2. CASE Start
  BY <1>1, <1>2 DEF Start, Goto, Drivers, WorkInv, StartInv, Over
<1>3. CASE CancelFlag
  BY <1>3 DEF CancelFlag, WorkInv
<1>4. CASE CancelCopy
  <2>1. disk # Nothing /\ Copied([status |-> status, item |-> item])
    BY <1>4 DEF CancelCopy, StartInv
  <2>2. snap'["client"] = [status |-> status, item |-> item] /\ snap'["driver"] = snap["driver"]
    BY <1>4 DEF CancelCopy, Copy, TypeInv
  <2> QED
    BY <1>4, <2>1, <2>2 DEF CancelCopy, WorkInv
<1>5. CASE CancelWrite
  <2>1. disk' # Nothing /\ snap'["client"] = Nothing /\ snap'["driver"] = snap["driver"]
    BY <1>5 DEF CancelWrite, StartInv, TypeInv
  <2> QED
    BY <1>5, <2>1 DEF CancelWrite, WorkInv
<1>6. CASE Begin
  <2>1. \A i \in Items : job[i] = "none"
    BY <1>1, <1>6, Positions DEF Begin, PhaseInv, Ahead
  <2>2. status = "pending"
    BY <1>6 DEF Begin, StartInv
  <2> QED
    BY <1>1, <1>6, <2>1, <2>2 DEF Begin, WorkInv, Drivers, Over
<1>7. CASE Check \/ CollectOver
  BY <1>1, <1>7 DEF Check, CollectOver, Goto, Drivers, WorkInv
<1>8. CASE Prepare
  <2>1. driver.i \in Items /\ job[driver.i] = "none" /\ driver'.i = driver.i
    BY <1>1, <1>8, Positions DEF Prepare, Goto, Drivers, PhaseInv, Ahead, Leaving
  <2>2. \A i \in Items : runRow[i] = "running" => runRow'[i] = "running"
    BY <1>8 DEF Prepare, TypeInv
  <2>3. driver'.at = "acquire" => runRow'[driver.i] = "running"
    BY <1>1, <1>8, <2>1 DEF Prepare, Goto, Drivers, TypeInv
  <2> QED
    BY <1>8, <2>1, <2>2, <2>3 DEF Prepare, WorkInv
<1>9. CASE Acquire
  <2>1. driver.i \in Items /\ driver'.at \in {"mark", "refuse"}
    BY <1>1, <1>9 DEF Acquire, Goto, Drivers, PhaseInv, Leaving
  <2>2. \A i \in Items : job'[i] = job[i] \/ (i = driver.i /\ job'[i] = "prepared")
    <3>1. job' = job \/ job' = [job EXCEPT ![driver.i] = "prepared"]
      BY <1>9 DEF Acquire
    <3> QED
      BY <1>22, <2>1, <3>1
  <2> QED
    BY <1>9, <2>1, <2>2 DEF Acquire, WorkInv
<1>10. CASE MarkRunning \/ MarkRefused \/ Settle
  <2>1. status = "running" /\ driver.i \in Items /\ (driver.at = "settle" => driver.then \in {"completed", "failed"})
    BY <1>10 DEF MarkRunning, MarkRefused, Settle, StartInv, PhaseInv, Active, Leaving
  <2>2. job[driver.i] \notin {"queued", "working"}
    <3>1. CASE MarkRunning
      BY <3>1 DEF MarkRunning, PhaseInv
    <3>2. CASE MarkRefused
      <4>1. Ahead(driver.i - 1) /\ driver.i \in Nat /\ driver.i > driver.i - 1
        <5>1. driver.i \in Nat
          BY <2>1, Positions
        <5>2. Ahead(driver.i - 1)
          BY <3>2 DEF MarkRefused, PhaseInv
        <5> QED
          BY <5>1, <5>2
      <4> QED
        BY <2>1, <4>1 DEF Ahead
    <3>3. CASE Settle
      BY <3>3 DEF Settle, PhaseInv
    <3> QED
      BY <1>10, <3>1, <3>2, <3>3
  <2>3. PICK v \in ItemStatus \ {"pending"}, l \in Nexts : SetItem(v, l) /\ (v = "running" => item[driver.i] = "pending")
    <3>1. CASE MarkRunning
      <4>1. item[driver.i] = "pending"
        BY <1>10, <2>1, <3>1 DEF MarkRunning, PhaseInv, ItemInv, ItemOk, Active, Leaving
      <4> QED
        BY <3>1, <4>1, Listed DEF MarkRunning
    <3>2. CASE MarkRefused
      BY <3>2, Listed DEF MarkRefused
    <3>3. CASE Settle
      BY <2>1, <3>3, Listed DEF Settle
    <3> QED
      BY <1>10, <3>1, <3>2, <3>3
  <2>4. UNCHANGED <<job, runRow, disk>>
    BY <1>10 DEF MarkRunning, MarkRefused, Settle
  <2>5. /\ snap'["driver"] = [status |-> "running", item |-> item'] /\ snap'["client"] = snap["client"]
        /\ driver'.at = "upsert" /\ item'[driver.i] = v
        /\ \A k \in Items \ {driver.i} : item'[k] = item[k]
        /\ UNCHANGED status
    BY <2>1, <2>3, SetItemType
  <2>9. \A k \in Items : item'[k] \in {"pending", "running"} => item[k] \in {"pending", "running"}
    <3>1. v \in {"pending", "running"} => item[driver.i] \in {"pending", "running"}
      BY <2>3
    <3> QED
      BY <2>5, <3>1
  <2>6. Copied(disk)' /\ Copied(snap["client"])'
    BY <2>4, <2>5, <2>9 DEF WorkInv
  <2>7. Copied(snap["driver"])'
    BY <2>5, Listed
  <2>8. disk # Nothing
    BY <1>10 DEF StartInv, MarkRunning, MarkRefused, Settle
  <2> QED
    BY <2>2, <2>4, <2>5, <2>6, <2>7, <2>8 DEF WorkInv
<1>11. CASE Upsert
  <2>1. /\ disk' = snap["driver"] /\ disk' # Nothing
        /\ snap'["driver"] = Nothing /\ snap'["client"] = snap["client"]
    BY <1>11 DEF Upsert, StartInv, TypeInv
  <2>2. driver'.at # "acquire"
    BY <1>1, <1>11 DEF Upsert, Drivers, Idle
  <2> QED
    BY <1>11, <2>1, <2>2 DEF Upsert, WorkInv
<1>12. CASE UpdateCounters
  BY <1>1, <1>12 DEF UpdateCounters, Drivers, WorkInv
<1>13. CASE Submit
  <2>1. \A i \in Items : job'[i] = job[i] \/ (job[i] = "prepared" /\ job'[i] = "queued")
    <3>1. job' = job \/ \E k \in Items : (job[k] = "prepared" /\ job' = [job EXCEPT ![k] = "queued"])
      BY <1>13 DEF Submit
    <3> QED
      BY <1>22, <3>1
  <2>2. \A i \in Items : job[i] = "prepared" => item[i] = "running" /\ status = "running"
    BY <1>13 DEF Submit, ItemInv, ItemOk, Active, Leaving, StartInv
  <2>3. driver'.at # "acquire"
    BY <1>1, <1>13 DEF Submit, Goto, Drivers
  <2> QED
    BY <1>13, <2>1, <2>2, <2>3 DEF Submit, WorkInv
<1>14. CASE Collect
  <2>1. \A i \in Items : job'[i] = job[i] \/ job'[i] = "cancelled"
    BY <1>14 DEF Collect, TypeInv
  <2>2. driver'.at # "acquire"
    BY <1>1, <1>14 DEF Collect, Drivers
  <2> QED
    BY <1>14, <2>1, <2>2 DEF Collect, WorkInv
<1>15. CASE Finalize
  <2>1. driver'.at # "acquire"
    BY <1>1, <1>15 DEF Finalize, Drivers
  <2>2. \A i \in Items : (job'[i] = job[i] /\ runRow'[i] = runRow[i]) \/ job'[i] = "taken"
    BY <1>15 DEF Finalize, TypeInv
  <2> QED
    BY <1>15, <2>1, <2>2 DEF Finalize, WorkInv
<1>16. CASE ResultRaises
  <2>1. \A i \in Items : job'[i] = job[i] \/ job'[i] = "lost"
    BY <1>16 DEF ResultRaises, TypeInv
  <2> QED
    BY <1>1, <1>16, <2>1 DEF ResultRaises, WorkInv, Drivers
<1>17. CASE Final
  <2>1. \A i \in Items : job[i] \in {"none", "taken", "lost"}
    BY <1>17 DEF Final, PhaseInv
  <2>2. status' \in Over /\ disk # Nothing /\ driver'.at = "upsert"
    BY <1>1, <1>17 DEF Final, Verdict, StartInv, Over, Drivers
  <2>3. \A i \in Items : item'[i] = item[i] \/ item'[i] = "cancelled"
    BY <1>17 DEF Final, TypeInv
  <2>4. snap'["driver"] = [status |-> status', item |-> item'] /\ snap'["client"] = snap["client"]
    BY <1>17 DEF Final, TypeInv
  <2>5. Copied(disk)' /\ Copied(snap["client"])' /\ Copied(snap["driver"])'
    BY <1>17, <2>2, <2>3, <2>4 DEF Final, WorkInv
  <2> QED
    BY <1>17, <2>1, <2>2, <2>5 DEF Final, WorkInv
<1>18. CASE PoolBreaks
  <2>1. \A i \in Items : job'[i] = job[i] \/ job'[i] = "raised"
    BY <1>18 DEF PoolBreaks
  <2> QED
    BY <1>18, <2>1 DEF PoolBreaks, WorkInv
<1>19. CASE Restart
  <2>1. /\ \A i \in Items : job'[i] = "none"
        /\ snap'["driver"] = Nothing /\ snap'["client"] = Nothing /\ driver'.at = "gone"
    BY <1>19 DEF Restart, Idle
  <2>2. Copied(disk)' /\ (disk = Nothing => UNCHANGED disk)
    <3>1. CASE disk # Nothing /\ disk.status \in {"pending", "running"}
      <4>1. status' = "cancelled" /\ \A i \in Items : item'[i] \in ItemOver
        BY <1>19, <3>1, RestoredType DEF Restart
      <4> QED
        BY <3>1, <4>1, Listed
    <3>2. CASE ~(disk # Nothing /\ disk.status \in {"pending", "running"})
      BY <1>19, <3>2 DEF Restart, WorkInv
    <3> QED
      BY <3>1, <3>2
  <2> QED
    BY <2>1, <2>2, <1>19 DEF WorkInv, Restart
<1>20. ASSUME NEW i \in Items, JobStarts(i) \/ JobEnds(i) \/ OtherTakes(i) \/ OtherFrees(i) \/ StrayEnds(i)
       PROVE  WorkInv'
  <2>1. UNCHANGED <<batch, driver, runRow, snap, disk>>
    BY <1>20 DEF JobStarts, JobEnds, OtherTakes, OtherFrees, StrayEnds
  <2>2. \A k \in Items : \/ job'[k] = job[k]
                         \/ job[k] = "queued" /\ job'[k] = "working"
                         \/ job'[k] \in {"ok", "error"}
    <3>1. \/ job' = job
          \/ job[i] = "queued" /\ job' = [job EXCEPT ![i] = "working"]
          \/ \E r \in {"ok", "error"} : job' = [job EXCEPT ![i] = r]
      BY <1>20 DEF JobStarts, JobEnds, OtherTakes, OtherFrees, StrayEnds
    <3> QED
      BY <1>22, <3>1
  <2> QED
    BY <2>1, <2>2 DEF WorkInv
<1>21. CASE UNCHANGED vars
  BY <1>21 DEF vars, WorkInv
<1> QED
  BY <1>2, <1>3, <1>4, <1>5, <1>6, <1>7, <1>8, <1>9, <1>10, <1>11, <1>12, <1>13, <1>14,
     <1>15, <1>16, <1>17, <1>18, <1>19, <1>20, <1>21 DEF Next, Driver

(* A worker becomes a stray only at a restart; nothing touches its batch   *)
(* any more.                                                               *)
LEMMA StrayStep ==
    ASSUME TypeInv, StartInv, WorkInv, StrayInv, [Next]_vars
    PROVE  StrayInv'
<1> USE DEF item2, other, batch
<1>1. CASE Restart
  <2>1. driver'.at = "gone" /\ client' = "idle"
    BY <1>1 DEF Restart, Idle
  <2>2. ASSUME NEW i \in stray'
        PROVE  /\ status' \in {"none", "cancelled"} /\ disk' # Nothing /\ disk'.status = "cancelled"
               /\ runRow'[i] = "failed" /\ item'[i] = "cancelled" /\ disk'.item[i] = "cancelled"
    <3>1. i \in Items /\ (i \in stray \/ job[i] \in {"queued", "working"})
      BY <1>1, <2>2 DEF Restart, TypeInv
    <3>2. CASE i \in stray
      <4>1. ~(disk # Nothing /\ disk.status \in {"pending", "running"})
        BY <3>2 DEF StrayInv
      <4>2. status' = "none" /\ UNCHANGED <<disk, item>> /\ runRow'[i] = runRow[i]
        BY <1>1, <3>1, <3>2, <4>1 DEF Restart, StrayInv
      <4> QED
        BY <3>2, <4>2 DEF StrayInv
    <3>3. CASE job[i] \in {"queued", "working"}
      <4>1. runRow[i] = "running" /\ status = "running" /\ item[i] = "running"
        BY <3>1, <3>3 DEF WorkInv
      <4>2. disk # Nothing /\ disk.status \in {"pending", "running"} /\ disk.item[i] \in {"pending", "running"}
        <5>1. disk # Nothing
          BY <3>1, <3>3 DEF StartInv
        <5>2. disk \in Copies /\ Copied(disk)
          BY <5>1 DEF WorkInv, TypeInv
        <5> QED
          BY <3>1, <4>1, <5>1, <5>2, Listed DEF Copied, Copies
      <4>3. disk' = Restored /\ status' = "cancelled" /\ item' = Restored.item
        BY <1>1, <4>2 DEF Restart
      <4>4. Restored.item[i] = "cancelled" /\ Restored.status = "cancelled" /\ Restored # Nothing
        BY <3>1, <4>2, RestoredType, BatchAssumption DEF Restored
      <4>5. runRow'[i] = "failed"
        BY <1>1, <3>1, <4>1 DEF Restart
      <4> QED
        BY <4>3, <4>4, <4>5
    <3> QED
      BY <3>1, <3>2, <3>3
  <2> QED
    BY <2>1, <2>2 DEF StrayInv
<1>2. CASE stray = {} /\ ~Restart
  <2>1. stray' = {}
    BY <1>2 DEF Next, Driver, vars, Start, CancelFlag, CancelCopy, CancelWrite, Begin, Check, Prepare, Acquire,
                MarkRunning, MarkRefused, Upsert, UpdateCounters, Submit, Collect, Finalize, ResultRaises,
                Settle, CollectOver, Final, PoolBreaks, JobStarts, JobEnds, OtherTakes, OtherFrees, StrayEnds
  <2> QED
    BY <2>1 DEF StrayInv
<1>3. CASE stray # {} /\ ~Restart
  <2>1. /\ driver.at = "gone" /\ client = "idle" /\ status \in {"none", "cancelled"}
        /\ disk # Nothing /\ disk.status = "cancelled"
    BY <1>3 DEF StrayInv
  <2>2. /\ UNCHANGED <<driver, client, status, item, disk, runRow>>
        /\ stray' \subseteq stray
    BY <1>3, <2>1 DEF Next, Driver, vars, Start, CancelFlag, CancelCopy, CancelWrite, Begin, Check, Prepare, Acquire,
                MarkRunning, MarkRefused, Upsert, UpdateCounters, Submit, Collect, Finalize, ResultRaises,
                Settle, CollectOver, Final, PoolBreaks, JobStarts, JobEnds, OtherTakes, OtherFrees, StrayEnds
  <2> QED
    BY <2>1, <2>2 DEF StrayInv
<1> QED
  BY <1>1, <1>2, <1>3

LEMMA InitHolds == Init => IInv
<1> SUFFICES ASSUME Init
             PROVE  IInv
  OBVIOUS
<1> USE DEF Init, Idle, Over
<1>1. TypeInv
  <2>1. driver \in Drivers
    BY Positions DEF Drivers, Places, Nexts
  <2>2. budget \in [{"busy", "cancel", "break", "crash"} -> Nat]
    BY BatchAssumption
  <2>3. count \in [{"completed", "failed", "pending"} -> Int]
    BY Positions DEF N
  <2> QED
    BY <2>1, <2>2, <2>3 DEF TypeInv, ItemStatus
<1>2. StartInv
  BY DEF StartInv, Active, Leaving, N
<1>3. SpanInv /\ PhaseInv /\ ItemInv /\ CountInv
  BY DEF SpanInv, PhaseInv, Leaving, ItemInv, CountInv, Active
<1>4. CopyInv /\ VerdictRight
  BY DEF CopyInv, Settled, VerdictRight, EndsSettled
<1>5. WorkInv /\ StrayInv
  BY DEF WorkInv, StrayInv, Copied
<1> QED
  BY <1>1, <1>2, <1>3, <1>4, <1>5 DEF IInv

(* The inductive invariant: every reachable state of a batch is typed, its *)
(* driver's place tells which items it has been through, and the locks,    *)
(* counters, copies and verdict agree with that.                           *)
THEOREM BatchInvariant == Spec => []IInv
<1>1. Init => IInv
  BY InitHolds
<1>2. IInv /\ [Next]_vars => IInv'
  <2> SUFFICES ASSUME IInv, [Next]_vars
               PROVE  IInv'
    OBVIOUS
  <2>1. /\ TypeInv /\ StartInv /\ SpanInv /\ PhaseInv
        /\ ItemInv /\ CountInv /\ CopyInv /\ VerdictRight
        /\ WorkInv /\ StrayInv
    BY DEF IInv
  <2> QED
    BY <2>1, TypeStep, StartStep, SpanStep, PhaseStep, ItemStep, CountStep, CopyStep, VerdictStep,
       WorkStep, StrayStep DEF IInv
<1> QED
  BY <1>1, <1>2, PTL DEF Spec

(* Every variable keeps its type, for a batch of any length.               *)
THEOREM TypeCorrect == Spec => []TypeOK
<1>1. IInv => TypeOK
  BY DEF IInv, TypeInv, TypeOK, Drivers, Places, Nexts, N
<1> QED
  BY <1>1, BatchInvariant, PTL

(* GENERATING covers a job of the living console from the submit to the    *)
(* end of its analyzer; a finalized job keeps neither its cell nor its     *)
(* scope directory, a thread that is through leaves locked only the cells  *)
(* whose future raised, and what a worker that outlived its console works  *)
(* at has a failed row and a cancelled item.                               *)
THEOREM LockSpan == Spec => []LockSpansJob
<1>1. IInv => LockSpansJob
  <2> SUFFICES ASSUME IInv
               PROVE  LockSpansJob
    OBVIOUS
  <2>1. driver.at = "gone" => \A i \in Items : job[i] \in {"none", "taken", "lost"}
    BY DEF IInv, PhaseInv
  <2> QED
    BY <2>1 DEF IInv, SpanInv, StrayInv, TypeInv, LockSpansJob
<1> QED
  BY <1>1, BatchInvariant, PTL

(* An ended batch says of every item how it ended, in memory and on disk;  *)
(* an accepted cancel decides its verdict, and otherwise the verdict and   *)
(* the counters agree with the items.                                      *)
THEOREM VerdictHolds == Spec => []VerdictRight
<1>1. IInv => VerdictRight
  BY DEF IInv
<1> QED
  BY <1>1, BatchInvariant, PTL
=============================================================================
