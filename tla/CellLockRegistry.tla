--------------------------- MODULE CellLockRegistry ---------------------------
(***************************************************************************)
(* The per-cell lock registry of the web console                           *)
(* (src/web_console/backend/cell_lock_registry.py).  A cell is a (machine, *)
(* mode) pair.  One mutex guards every method of the class, so each method *)
(* is one atomic step.                                                     *)
(*                                                                         *)
(* The registry stores WHICH operations are active on a cell, never WHO    *)
(* holds them: release_cell removes the operation whoever calls it.  The   *)
(* callers' local flags (`cell_acquired`, `acquired_modes`, `acquired`)    *)
(* are the variable `held`; every call site releases only under such a     *)
(* flag, which is the guard of ReleaseCell and ReleaseGlobal below.        *)
(***************************************************************************)
EXTENDS FiniteSets

CONSTANTS Threads,   (* the console's request, batch, fleet and sweep threads *)
          Cells,     (* (machine, mode) pairs                                 *)
          Runs,      (* analyzer run ids                                      *)
          GlobalOps, (* names of global operations, e.g. disk_cleanup         *)
          NoRun,     (* the "" placeholder stored before start_run returns    *)
          NoInfo     (* no entry in _sampling_info                            *)

CellOperation == {"sampling", "generating", "deleting"}

(* What a caller passes as `info` to a SAMPLING acquire.  `by` stands for  *)
(* the (config_id, upstream_md5) pair of the caller.                       *)
SamplingInfo == [by : Threads, run_id : Runs \cup {NoRun}]

ASSUME RegistryAssumption ==
    /\ NoRun \notin Runs
    /\ NoInfo \notin SamplingInfo

VARIABLES registry,      (* _registry: active operations of each cell         *)
          samplingInfo,  (* _sampling_info                                    *)
          globalOps,     (* _global_ops                                       *)
          held,          (* the <<cell, op>> pairs each caller has acquired   *)
          heldGlobal     (* the global ops each caller has acquired           *)

lockVars == <<registry, samplingInfo, globalOps, held, heldGlobal>>

RegistryTypeOK ==
    /\ registry \in [Cells -> SUBSET CellOperation]
    /\ samplingInfo \in [Cells -> SamplingInfo \cup {NoInfo}]
    /\ globalOps \in SUBSET GlobalOps
    /\ held \in [Threads -> SUBSET (Cells \X CellOperation)]
    /\ heldGlobal \in [Threads -> SUBSET GlobalOps]

RegistryInit ==
    /\ registry = [c \in Cells |-> {}]
    /\ samplingInfo = [c \in Cells |-> NoInfo]
    /\ globalOps = {}
    /\ held = [t \in Threads |-> {}]
    /\ heldGlobal = [t \in Threads |-> {}]
-----------------------------------------------------------------------------
(* Mutant of Excludes: a SAMPLING acquire that does not test INV-1.        *)
ExcludesWithoutInv1(op, block) ==
    IF op = "sampling" THEN {"sampling"}
    ELSE {"deleting", op} \cup (IF op = "deleting" THEN CellOperation ELSE {})

(* Mutant of Excludes: a SAMPLING acquire that does not test INV-4.        *)
ExcludesWithoutInv4(op, block) ==
    IF op = "sampling" THEN {"deleting"}
    ELSE {"deleting", op} \cup (IF op = "deleting" THEN CellOperation ELSE {})

(* The operations that make try_acquire_cell refuse `op`; `block` is the   *)
(* keyword block_if_sampling_active, which only a GENERATING acquire reads.*)
Excludes(op, block) ==
    CASE op = "sampling"   -> {"deleting", "sampling"}
      [] op = "generating" -> {"deleting", "generating"}
                                 \cup (IF block THEN {"sampling"} ELSE {})
      [] op = "deleting"   -> {"sampling", "generating", "deleting"}

CanAcquire(c, op, block) == registry[c] \cap Excludes(op, block) = {}

(* try_acquire_cell returning True.  A False return changes nothing.       *)
TryAcquireCell(t, c, op, block) ==
    /\ CanAcquire(c, op, block)
    /\ registry' = [registry EXCEPT ![c] = @ \cup {op}]
    /\ samplingInfo' = IF op = "sampling"
                       THEN [samplingInfo EXCEPT ![c] = [by |-> t, run_id |-> NoRun]]
                       ELSE samplingInfo
    /\ held' = [held EXCEPT ![t] = @ \cup {<<c, op>>}]
    /\ UNCHANGED <<globalOps, heldGlobal>>

(* release_cell, called under the caller's own flag.                       *)
ReleaseCell(t, c, op) ==
    /\ <<c, op>> \in held[t]
    /\ registry' = [registry EXCEPT ![c] = @ \ {op}]
    /\ samplingInfo' = IF op = "sampling"
                       THEN [samplingInfo EXCEPT ![c] = NoInfo]
                       ELSE samplingInfo
    /\ held' = [held EXCEPT ![t] = @ \ {<<c, op>>}]
    /\ UNCHANGED <<globalOps, heldGlobal>>

(* update_sampling_run_id, called by the batch worker that holds SAMPLING  *)
(* once start_run has returned the real run id.                            *)
UpdateSamplingRunId(t, c, r) ==
    /\ <<c, "sampling">> \in held[t]
    /\ samplingInfo[c] # NoInfo
    /\ samplingInfo' = [samplingInfo EXCEPT ![c].run_id = r]
    /\ UNCHANGED <<registry, globalOps, held, heldGlobal>>

TryAcquireGlobal(t, g) ==
    /\ g \notin globalOps
    /\ globalOps' = globalOps \cup {g}
    /\ heldGlobal' = [heldGlobal EXCEPT ![t] = @ \cup {g}]
    /\ UNCHANGED <<registry, samplingInfo, held>>

ReleaseGlobal(t, g) ==
    /\ g \in heldGlobal[t]
    /\ globalOps' = globalOps \ {g}
    /\ heldGlobal' = [heldGlobal EXCEPT ![t] = @ \ {g}]
    /\ UNCHANGED <<registry, samplingInfo, held>>

RegistryNext ==
    \E t \in Threads :
        \/ \E c \in Cells, op \in CellOperation, block \in BOOLEAN :
               TryAcquireCell(t, c, op, block)
        \/ \E c \in Cells, op \in CellOperation : ReleaseCell(t, c, op)
        \/ \E c \in Cells, r \in Runs : UpdateSamplingRunId(t, c, r)
        \/ \E g \in GlobalOps : TryAcquireGlobal(t, g) \/ ReleaseGlobal(t, g)

RegistrySpec == RegistryInit /\ [][RegistryNext]_lockVars
-----------------------------------------------------------------------------
(* The operations of two holders that may not overlap on a cell: INV-1,    *)
(* INV-2, INV-4 and INV-5 of the CellOperation docstring.  SAMPLING and    *)
(* GENERATING may overlap (INV-3).                                         *)
Conflict(op1, op2) == op1 = op2 \/ op1 = "deleting" \/ op2 = "deleting"

(* No two threads ever hold conflicting operations on the same cell: the   *)
(* guarantee every deleter, sampler and generator relies on, although the  *)
(* registry does not know who holds what (try_acquire_cell, release_cell). *)
HolderExclusion ==
    \A t1 \in Threads : \A c \in Cells : \A op1 \in CellOperation :
        <<c, op1>> \in held[t1] =>
            \A t2 \in Threads : \A op2 \in CellOperation :
                <<c, op2>> \in held[t2] /\ <<t1, op1>> # <<t2, op2>>
                => ~Conflict(op1, op2)

(* The registry never forgets a held operation and never keeps one nobody  *)
(* holds: otherwise a cell stays busy until the console restarts.          *)
RegistryMatchesHolders ==
    /\ \A c \in Cells : \A op \in CellOperation :
           op \in registry[c] <=> \E t \in Threads : <<c, op>> \in held[t]
    /\ \A g \in GlobalOps :
           g \in globalOps <=> \E t \in Threads : g \in heldGlobal[t]

(* Attach lookups (get_active_sampling_info) see an entry exactly while    *)
(* SAMPLING is held, and it is the entry of the thread that holds it.      *)
InfoBelongsToSampler ==
    \A c \in Cells :
        /\ samplingInfo[c] # NoInfo <=> "sampling" \in registry[c]
        /\ \A t \in Threads :
               <<c, "sampling">> \in held[t] => samplingInfo[c].by = t

(* INV-6: a named global operation (disk_cleanup, import_reports, ...) has *)
(* at most one holder.                                                     *)
GlobalExclusion ==
    \A g \in GlobalOps : \A t1, t2 \in Threads :
        g \in heldGlobal[t1] /\ g \in heldGlobal[t2] => t1 = t2
=============================================================================
