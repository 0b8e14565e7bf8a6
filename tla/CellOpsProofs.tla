----------------------------- MODULE CellOpsProofs -----------------------------
(***************************************************************************)
(* What the lock registry guarantees to any caller, and what the lock      *)
(* discipline of the console's threads makes of it, for any threads,       *)
(* cells, runs and casts.                                                  *)
(*                                                                         *)
(* The invariant has three parts.  LockInv: where a thread is in its       *)
(* handler determines what it holds, and the registry's own invariant.     *)
(* DataInv, in a disciplined cast: every live analyzer has a worker that   *)
(* holds SAMPLING on its cell, a deleter that unlinks holds DELETING on    *)
(* the one cell it lists, and a report's input is on disk.  QuotaInv, in a *)
(* cast of tiered deletes and cleanups: no list names a chunk of an index  *)
(* up to Keep, and a cell with a chunk has every smaller index up to Keep. *)
(***************************************************************************)
EXTENDS CellOps, ReportIndex, FiniteSetTheorems, WellFoundedInduction, TLAPS

-----------------------------------------------------------------------------
(* The registry's guarantees, whoever calls it: for any threads, cells and *)
(* runs.  HolderExclusion is not inductive by itself: that a refused       *)
(* acquire is refused follows from the registry knowing every held         *)
(* operation, so RegistryMatchesHolders is proved first and the rest from  *)
(* it.                                                                     *)

(* Every method of the registry keeps the types of its state.              *)
LEMMA RegistryTypeStep == RegistryTypeOK /\ [RegistryNext]_lockVars => RegistryTypeOK'
<1> USE RegistryAssumption
<1> SUFFICES ASSUME RegistryTypeOK, [RegistryNext]_lockVars PROVE RegistryTypeOK'
  OBVIOUS
<1>1. CASE UNCHANGED lockVars
  BY <1>1 DEF lockVars, RegistryTypeOK
<1>2. ASSUME NEW t \in Threads, NEW c \in Cells, NEW op \in CellOperation,
             NEW block \in BOOLEAN, TryAcquireCell(t, c, op, block)
      PROVE  RegistryTypeOK'
  <2>1. [by |-> t, run_id |-> NoRun] \in SamplingInfo
    BY DEF SamplingInfo
  <2> QED BY <1>2, <2>1 DEF TryAcquireCell, RegistryTypeOK
<1>3. ASSUME NEW t \in Threads, NEW c \in Cells, NEW op \in CellOperation,
             ReleaseCell(t, c, op)
      PROVE  RegistryTypeOK'
  BY <1>3 DEF ReleaseCell, RegistryTypeOK
<1>4. ASSUME NEW t \in Threads, NEW c \in Cells, NEW r \in Runs,
             UpdateSamplingRunId(t, c, r)
      PROVE  RegistryTypeOK'
  <2>1. samplingInfo[c] \in SamplingInfo
    BY <1>4 DEF UpdateSamplingRunId, RegistryTypeOK
  <2>2. [samplingInfo[c] EXCEPT !.run_id = r] \in SamplingInfo
    BY <2>1 DEF SamplingInfo
  <2> QED BY <1>4, <2>2 DEF UpdateSamplingRunId, RegistryTypeOK
<1>5. ASSUME NEW t \in Threads, NEW g \in GlobalOps, TryAcquireGlobal(t, g)
      PROVE  RegistryTypeOK'
  BY <1>5 DEF TryAcquireGlobal, RegistryTypeOK
<1>6. ASSUME NEW t \in Threads, NEW g \in GlobalOps, ReleaseGlobal(t, g)
      PROVE  RegistryTypeOK'
  BY <1>6 DEF ReleaseGlobal, RegistryTypeOK
<1> QED BY <1>1, <1>2, <1>3, <1>4, <1>5, <1>6 DEF RegistryNext

(* The types of the registry's state (CellLockRegistry.__init__ and every  *)
(* method) are preserved by all operations.                                *)
THEOREM TypeCorrect == RegistrySpec => []RegistryTypeOK
<1>1. RegistryInit => RegistryTypeOK
  BY DEF RegistryInit, RegistryTypeOK
<1> QED
  BY <1>1, RegistryTypeStep, PTL DEF RegistrySpec
-----------------------------------------------------------------------------
(* The part of the invariant about cells, and the part about global names. *)
CellInv == RegistryTypeOK /\ RegistryMatchesHolders /\ HolderExclusion
IInv == CellInv /\ InfoBelongsToSampler /\ GlobalExclusion

(* What an acquire that is not refused finds: nobody holds an operation    *)
(* that conflicts with the requested one (Excludes covers Conflict).       *)
LEMMA AcquireIsSafe ==
  ASSUME CellInv, NEW c \in Cells, NEW op \in CellOperation, NEW block \in BOOLEAN,
         CanAcquire(c, op, block),
         NEW t2 \in Threads, NEW op2 \in CellOperation, <<c, op2>> \in held[t2]
  PROVE  ~Conflict(op, op2)
<1>1. op2 \in registry[c]
  BY DEF CellInv, RegistryMatchesHolders
<1>2. op2 \notin Excludes(op, block)
  BY <1>1 DEF CanAcquire
<1> QED BY <1>2 DEF Excludes, Conflict, CellOperation

LEMMA InvInit == RegistryInit => IInv
<1> SUFFICES ASSUME RegistryInit PROVE IInv
  OBVIOUS
<1>1. RegistryTypeOK
  BY DEF RegistryInit, RegistryTypeOK
<1> QED BY <1>1 DEF RegistryInit, IInv, CellInv, RegistryMatchesHolders, HolderExclusion,
                    InfoBelongsToSampler, GlobalExclusion

LEMMA AcquireKeepsInv ==
  ASSUME IInv, RegistryTypeOK', NEW t \in Threads, NEW c \in Cells, NEW op \in CellOperation,
         NEW block \in BOOLEAN, TryAcquireCell(t, c, op, block)
  PROVE  IInv'
<1> USE DEF IInv, CellInv, TryAcquireCell
<1>1. held' = [held EXCEPT ![t] = @ \cup {<<c, op>>}] /\ held \in [Threads -> SUBSET (Cells \X CellOperation)]
  BY DEF RegistryTypeOK
<1>2. \A t2 \in Threads, c2 \in Cells, op2 \in CellOperation :
          <<c2, op2>> \in held'[t2] <=> \/ <<c2, op2>> \in held[t2]
                                        \/ t2 = t /\ c2 = c /\ op2 = op
  BY <1>1
<1>3. \A c2 \in Cells, op2 \in CellOperation :
          op2 \in registry'[c2] <=> op2 \in registry[c2] \/ (c2 = c /\ op2 = op)
  BY DEF RegistryTypeOK
<1>4. RegistryMatchesHolders'
  BY <1>2, <1>3 DEF RegistryMatchesHolders
<1>5. HolderExclusion'
  <2> SUFFICES ASSUME NEW t1 \in Threads, NEW t2 \in Threads, NEW c2 \in Cells,
                      NEW op1 \in CellOperation, NEW op2 \in CellOperation,
                      <<c2, op1>> \in held'[t1], <<c2, op2>> \in held'[t2],
                      <<t1, op1>> # <<t2, op2>>
               PROVE  ~Conflict(op1, op2)
    BY DEF HolderExclusion
  <2>1. CASE <<c2, op1>> \in held[t1] /\ <<c2, op2>> \in held[t2]
    BY <2>1 DEF HolderExclusion
  <2>2. CASE <<c2, op1>> \notin held[t1] /\ <<c2, op2>> \in held[t2]
    <3>1. c2 = c /\ op1 = op
      BY <2>2, <1>2
    <3> QED BY <2>2, <3>1, AcquireIsSafe
  <2>3. CASE <<c2, op1>> \in held[t1] /\ <<c2, op2>> \notin held[t2]
    <3>1. c2 = c /\ op2 = op
      BY <2>3, <1>2
    <3>2. ~Conflict(op2, op1)
      BY <2>3, <3>1, AcquireIsSafe
    <3> QED BY <3>2 DEF Conflict
  <2>4. CASE <<c2, op1>> \notin held[t1] /\ <<c2, op2>> \notin held[t2]
    BY <2>4, <1>2
  <2> QED BY <2>1, <2>2, <2>3, <2>4
<1>6. InfoBelongsToSampler'
  <2>1. CASE op = "sampling"
    <3>1. samplingInfo' = [samplingInfo EXCEPT ![c] = [by |-> t, run_id |-> NoRun]]
      BY <2>1
    <3>2. [by |-> t, run_id |-> NoRun] # NoInfo
      BY RegistryAssumption DEF SamplingInfo
    <3>3. \A t2 \in Threads : <<c, "sampling">> \in held'[t2] => t2 = t
      <4> SUFFICES ASSUME NEW t2 \in Threads, <<c, "sampling">> \in held[t2]
                   PROVE  FALSE
        BY <1>2, <2>1
      <4> QED BY <2>1, AcquireIsSafe DEF Conflict
    <3>4. \A c2 \in Cells \ {c} :
              /\ samplingInfo'[c2] = samplingInfo[c2]
              /\ "sampling" \in registry'[c2] <=> "sampling" \in registry[c2]
      BY <3>1 DEF RegistryTypeOK
    <3>5. samplingInfo'[c] = [by |-> t, run_id |-> NoRun] /\ "sampling" \in registry'[c]
      BY <3>1, <2>1 DEF RegistryTypeOK
    <3>6. "sampling" \in CellOperation
      BY DEF CellOperation
    <3>7. ASSUME NEW c2 \in Cells \ {c}
          PROVE  /\ samplingInfo'[c2] # NoInfo <=> "sampling" \in registry'[c2]
                 /\ \A t2 \in Threads :
                       <<c2, "sampling">> \in held'[t2] => samplingInfo'[c2].by = t2
      BY <3>4, <3>6, <1>2 DEF InfoBelongsToSampler
    <3>8. /\ samplingInfo'[c] # NoInfo <=> "sampling" \in registry'[c]
          /\ \A t2 \in Threads :
                <<c, "sampling">> \in held'[t2] => samplingInfo'[c].by = t2
      BY <3>2, <3>3, <3>5
    <3> QED BY <3>7, <3>8 DEF InfoBelongsToSampler
  <2>2. CASE op # "sampling"
    BY <2>2, <1>2, <1>3 DEF InfoBelongsToSampler, CellOperation
  <2> QED BY <2>1, <2>2
<1>7. GlobalExclusion'
  BY DEF GlobalExclusion
<1> QED BY <1>4, <1>5, <1>6, <1>7

LEMMA ReleaseKeepsInv ==
  ASSUME IInv, RegistryTypeOK', NEW t \in Threads, NEW c \in Cells, NEW op \in CellOperation,
         ReleaseCell(t, c, op)
  PROVE  IInv'
<1> USE DEF IInv, CellInv, ReleaseCell
<1>1. \A t2 \in Threads, c2 \in Cells, op2 \in CellOperation :
          <<c2, op2>> \in held'[t2] <=> /\ <<c2, op2>> \in held[t2]
                                        /\ ~(t2 = t /\ c2 = c /\ op2 = op)
  BY DEF RegistryTypeOK
<1>2. \A c2 \in Cells, op2 \in CellOperation :
          op2 \in registry'[c2] <=> op2 \in registry[c2] /\ ~(c2 = c /\ op2 = op)
  BY DEF RegistryTypeOK
<1>3. \A t2 \in Threads : <<c, op>> \in held[t2] => t2 = t
  BY DEF HolderExclusion, Conflict
<1>4. RegistryMatchesHolders'
  BY <1>1, <1>2, <1>3 DEF RegistryMatchesHolders
<1>5. HolderExclusion'
  BY <1>1 DEF HolderExclusion
<1>6. InfoBelongsToSampler'
  <2>1. CASE op = "sampling"
    <3>1. "sampling" \in CellOperation
      BY DEF CellOperation
    <3>2. /\ samplingInfo'[c] = NoInfo
          /\ \A c2 \in Cells \ {c} : samplingInfo'[c2] = samplingInfo[c2]
      BY <2>1 DEF RegistryTypeOK
    <3>3. \A t2 \in Threads : <<c, "sampling">> \notin held'[t2]
      BY <2>1, <1>1, <1>3
    <3> QED BY <2>1, <3>1, <3>2, <3>3, <1>1, <1>2 DEF InfoBelongsToSampler
  <2>2. CASE op # "sampling"
    BY <2>2, <1>1, <1>2 DEF InfoBelongsToSampler, CellOperation
  <2> QED BY <2>1, <2>2
<1>7. GlobalExclusion'
  BY DEF GlobalExclusion
<1> QED BY <1>4, <1>5, <1>6, <1>7

LEMMA OtherStepsKeepInv ==
  ASSUME IInv, RegistryTypeOK',
         \/ UNCHANGED lockVars
         \/ \E t \in Threads :
                \/ \E c \in Cells, r \in Runs : UpdateSamplingRunId(t, c, r)
                \/ \E g \in GlobalOps : TryAcquireGlobal(t, g) \/ ReleaseGlobal(t, g)
  PROVE  IInv'
<1> USE DEF IInv, CellInv
<1>1. CASE UNCHANGED lockVars
  BY <1>1 DEF lockVars, RegistryMatchesHolders, HolderExclusion, InfoBelongsToSampler,
              GlobalExclusion
<1>2. ASSUME NEW t \in Threads, NEW c \in Cells, NEW r \in Runs,
             UpdateSamplingRunId(t, c, r)
      PROVE  IInv'
  <2> USE <1>2 DEF UpdateSamplingRunId
  <2>1. RegistryMatchesHolders' /\ HolderExclusion' /\ GlobalExclusion'
    BY DEF RegistryMatchesHolders, HolderExclusion, GlobalExclusion
  <2>2. samplingInfo[c] \in SamplingInfo
    BY DEF RegistryTypeOK
  <2>3. /\ samplingInfo'[c].by = samplingInfo[c].by
        /\ samplingInfo'[c] \in SamplingInfo
        /\ \A c2 \in Cells \ {c} : samplingInfo'[c2] = samplingInfo[c2]
    BY <2>2 DEF RegistryTypeOK, SamplingInfo
  <2>4. samplingInfo'[c] # NoInfo
    BY <2>3, RegistryAssumption
  <2> QED BY <2>1, <2>3, <2>4 DEF InfoBelongsToSampler
<1>3. ASSUME NEW t \in Threads, NEW g \in GlobalOps, TryAcquireGlobal(t, g)
      PROVE  IInv'
  <2> USE <1>3 DEF TryAcquireGlobal
  <2>1. HolderExclusion' /\ InfoBelongsToSampler'
    BY DEF HolderExclusion, InfoBelongsToSampler
  <2>2. \A t2 \in Threads, g2 \in GlobalOps :
            g2 \in heldGlobal'[t2] <=> g2 \in heldGlobal[t2] \/ (t2 = t /\ g2 = g)
    BY DEF RegistryTypeOK
  <2>3. RegistryMatchesHolders'
    BY <2>2 DEF RegistryMatchesHolders
  <2>4. GlobalExclusion'
    BY <2>2 DEF GlobalExclusion, RegistryMatchesHolders
  <2> QED BY <2>1, <2>3, <2>4
<1>4. ASSUME NEW t \in Threads, NEW g \in GlobalOps, ReleaseGlobal(t, g)
      PROVE  IInv'
  <2> USE <1>4 DEF ReleaseGlobal
  <2>1. HolderExclusion' /\ InfoBelongsToSampler'
    BY DEF HolderExclusion, InfoBelongsToSampler
  <2>2. \A t2 \in Threads, g2 \in GlobalOps :
            g2 \in heldGlobal'[t2] <=> g2 \in heldGlobal[t2] /\ ~(t2 = t /\ g2 = g)
    BY DEF RegistryTypeOK
  <2>3. RegistryMatchesHolders'
    BY <2>2 DEF RegistryMatchesHolders, GlobalExclusion
  <2>4. GlobalExclusion'
    BY <2>2 DEF GlobalExclusion
  <2> QED BY <2>1, <2>3, <2>4
<1> QED BY <1>1, <1>2, <1>3, <1>4

LEMMA StepKeepsInv == IInv /\ [RegistryNext]_lockVars /\ RegistryTypeOK' => IInv'
BY AcquireKeepsInv, ReleaseKeepsInv, OtherStepsKeepInv DEF RegistryNext

(* The registry's whole invariant holds in every reachable state.          *)
THEOREM RegistryInvariant == RegistrySpec => []IInv
<1>1. QED BY InvInit, StepKeepsInv, TypeCorrect, PTL DEF RegistrySpec

(* No two threads ever hold conflicting operations on one cell, the        *)
(* registry knows exactly the held operations, and the sampling info is    *)
(* the holder's (try_acquire_cell, release_cell, update_sampling_run_id).  *)
THEOREM HoldersExclude ==
  RegistrySpec => [](HolderExclusion /\ RegistryMatchesHolders
             /\ InfoBelongsToSampler /\ GlobalExclusion)
<1>1. IInv => HolderExclusion /\ RegistryMatchesHolders
              /\ InfoBelongsToSampler /\ GlobalExclusion
  BY DEF IInv, CellInv
<1>2. QED BY <1>1, RegistryInvariant, PTL
-----------------------------------------------------------------------------
(* The owner the mapping reads off is the thread that holds the operation. *)
LEMMA OwnerIsHolder ==
  ASSUME HolderExclusion, NEW t \in Threads, NEW c \in Cells, NEW op \in CellOperation,
         <<c, op>> \in held[t]
  PROVE  Owner[c][op] = t
<1>1. \A t2 \in Threads : <<c, op>> \in held[t2] => t2 = t
  BY DEF HolderExclusion, Conflict
<1> QED BY <1>1 DEF Owner

LEMMA UnheldIsFree ==
  ASSUME NEW c \in Cells, NEW op \in CellOperation,
         \A t \in Threads : <<c, op>> \notin held[t]
  PROVE  Owner[c][op] = Free
BY DEF Owner

(* What one step does to `held` determines what it does to Owner.          *)
LEMMA OwnerAfterAcquire ==
  ASSUME IInv, IInv', NEW t \in Threads, NEW c \in Cells, NEW op \in CellOperation,
         NEW block \in BOOLEAN, TryAcquireCell(t, c, op, block)
  PROVE  OwnedLock!Acquire(t, c, op)
<1> USE DEF IInv, CellInv
<1>1. /\ <<c, op>> \in held'[t]
      /\ \A t2 \in Threads, c2 \in Cells, op2 \in CellOperation :
             <<c2, op2>> # <<c, op>> => (<<c2, op2>> \in held'[t2] <=> <<c2, op2>> \in held[t2])
  BY DEF TryAcquireCell, RegistryTypeOK
<1>2. Owner'[c][op] = t
  <2>1. \A t2 \in Threads : <<c, op>> \in held'[t2] => t2 = t
    BY <1>1 DEF HolderExclusion, Conflict
  <2> QED BY <1>1, <2>1 DEF Owner
<1>3. ASSUME NEW c2 \in Cells, NEW op2 \in CellOperation, <<c2, op2>> # <<c, op>>
      PROVE  Owner'[c2][op2] = Owner[c2][op2]
  <2>1. \A t2 \in Threads : <<c2, op2>> \in held'[t2] <=> <<c2, op2>> \in held[t2]
    BY <1>1, <1>3
  <2>2. CASE \E t2 \in Threads : <<c2, op2>> \in held[t2]
    <3>1. PICK t2 \in Threads : <<c2, op2>> \in held[t2]
      BY <2>2
    <3>2. Owner[c2][op2] = t2
      BY <3>1, OwnerIsHolder
    <3>3. \A t3 \in Threads : <<c2, op2>> \in held'[t3] => t3 = t2
      BY <2>1, <3>1 DEF HolderExclusion, Conflict
    <3> QED BY <2>1, <3>1, <3>2, <3>3 DEF Owner
  <2>3. CASE \A t2 \in Threads : <<c2, op2>> \notin held[t2]
    BY <2>1, <2>3 DEF Owner
  <2> QED BY <2>2, <2>3
<1>4. Owner' = [Owner EXCEPT ![c][op] = t]
  <2>1. Owner' = [c2 \in Cells |-> [op2 \in CellOperation |-> Owner'[c2][op2]]]
    BY DEF Owner
  <2>2. \A c2 \in Cells : \A op2 \in CellOperation :
            Owner'[c2][op2] = IF c2 = c /\ op2 = op THEN t ELSE Owner[c2][op2]
    BY <1>2, <1>3
  <2>3. Owner = [c2 \in Cells |-> [op2 \in CellOperation |-> Owner[c2][op2]]]
    BY DEF Owner
  <2> QED BY <2>1, <2>2, <2>3
<1>5. \A other \in OwnedLock!Operations :
          Owner[c][other] # Free => OwnedLock!Compatible(op, other)
  <2> SUFFICES ASSUME NEW other \in CellOperation, Owner[c][other] # Free
               PROVE  OwnedLock!Compatible(op, other)
    BY DEF OwnedLock!Operations, CellOperation
  <2>1. PICK t2 \in Threads : <<c, other>> \in held[t2]
    BY UnheldIsFree
  <2>2. ~Conflict(op, other)
    BY <2>1, AcquireIsSafe DEF TryAcquireCell
  <2> QED BY <2>2 DEF Conflict, OwnedLock!Compatible
<1> QED BY <1>4, <1>5 DEF OwnedLock!Acquire

LEMMA OwnerAfterRelease ==
  ASSUME IInv, IInv', NEW t \in Threads, NEW c \in Cells, NEW op \in CellOperation,
         ReleaseCell(t, c, op)
  PROVE  OwnedLock!Release(t, c, op)
<1> USE DEF IInv, CellInv
<1>1. /\ \A t2 \in Threads : <<c, op>> \notin held'[t2]
      /\ \A t2 \in Threads, c2 \in Cells, op2 \in CellOperation :
             <<c2, op2>> # <<c, op>> => (<<c2, op2>> \in held'[t2] <=> <<c2, op2>> \in held[t2])
  BY DEF ReleaseCell, RegistryTypeOK, HolderExclusion, Conflict
<1>2. Owner'[c][op] = Free
  BY <1>1 DEF Owner
<1>3. ASSUME NEW c2 \in Cells, NEW op2 \in CellOperation, <<c2, op2>> # <<c, op>>
      PROVE  Owner'[c2][op2] = Owner[c2][op2]
  <2>1. \A t2 \in Threads : <<c2, op2>> \in held'[t2] <=> <<c2, op2>> \in held[t2]
    BY <1>1, <1>3
  <2>2. CASE \E t2 \in Threads : <<c2, op2>> \in held[t2]
    <3>1. PICK t2 \in Threads : <<c2, op2>> \in held[t2]
      BY <2>2
    <3>2. Owner[c2][op2] = t2
      BY <3>1, OwnerIsHolder
    <3>3. \A t3 \in Threads : <<c2, op2>> \in held'[t3] => t3 = t2
      BY <2>1, <3>1 DEF HolderExclusion, Conflict
    <3> QED BY <2>1, <3>1, <3>2, <3>3 DEF Owner
  <2>3. CASE \A t2 \in Threads : <<c2, op2>> \notin held[t2]
    BY <2>1, <2>3 DEF Owner
  <2> QED BY <2>2, <2>3
<1>4. Owner' = [Owner EXCEPT ![c][op] = Free]
  <2>1. Owner' = [c2 \in Cells |-> [op2 \in CellOperation |-> Owner'[c2][op2]]]
    BY DEF Owner
  <2>2. \A c2 \in Cells : \A op2 \in CellOperation :
            Owner'[c2][op2] = IF c2 = c /\ op2 = op THEN Free ELSE Owner[c2][op2]
    BY <1>2, <1>3
  <2>3. Owner = [c2 \in Cells |-> [op2 \in CellOperation |-> Owner[c2][op2]]]
    BY DEF Owner
  <2> QED BY <2>1, <2>2, <2>3
<1>5. Owner[c][op] = t
  BY OwnerIsHolder DEF ReleaseCell
<1> QED BY <1>4, <1>5 DEF OwnedLock!Release

(* Although _registry keeps no owner, its callers get a lock with owners:  *)
(* every step of the registry is an Acquire or a Release of                *)
(* AbstractCellLock, or changes nothing an owner can see.                  *)
THEOREM RegistryImplementsOwnedLock == RegistrySpec => ImplementsOwnedLock
<1>1. RegistryInit => OwnedLock!Init
  <2> SUFFICES ASSUME RegistryInit PROVE OwnedLock!Init
    OBVIOUS
  <2>1. \A c \in Cells, op \in CellOperation, t \in Threads : <<c, op>> \notin held[t]
    BY DEF RegistryInit
  <2> QED BY <2>1 DEF Owner, OwnedLock!Init, OwnedLock!Operations, CellOperation
<1>2. IInv /\ IInv' /\ [RegistryNext]_lockVars => [OwnedLock!Next]_Owner
  <2> SUFFICES ASSUME IInv, IInv', [RegistryNext]_lockVars PROVE [OwnedLock!Next]_Owner
    OBVIOUS
  <2>1. CASE held' = held
    BY <2>1 DEF Owner
  <2>2. ASSUME NEW t \in Threads, NEW c \in Cells, NEW op \in CellOperation,
               NEW block \in BOOLEAN, TryAcquireCell(t, c, op, block)
        PROVE  OwnedLock!Next
    <3>1. OwnedLock!Acquire(t, c, op)
      BY <2>2, OwnerAfterAcquire
    <3> QED BY <3>1 DEF OwnedLock!Next, OwnedLock!Operations, CellOperation
  <2>3. ASSUME NEW t \in Threads, NEW c \in Cells, NEW op \in CellOperation,
               ReleaseCell(t, c, op)
        PROVE  OwnedLock!Next
    <3>1. OwnedLock!Release(t, c, op)
      BY <2>3, OwnerAfterRelease
    <3> QED BY <3>1 DEF OwnedLock!Next, OwnedLock!Operations, CellOperation
  <2>4. CASE UNCHANGED lockVars
    BY <2>1, <2>4 DEF lockVars
  <2>5. ASSUME NEW t \in Threads,
               \/ \E c \in Cells, r \in Runs : UpdateSamplingRunId(t, c, r)
               \/ \E g \in GlobalOps : TryAcquireGlobal(t, g) \/ ReleaseGlobal(t, g)
        PROVE  held' = held
    BY <2>5 DEF UpdateSamplingRunId, TryAcquireGlobal, ReleaseGlobal
  <2> QED BY <2>1, <2>2, <2>3, <2>4, <2>5 DEF RegistryNext
<1>3. QED BY <1>1, <1>2, RegistryInvariant, PTL DEF RegistrySpec, ImplementsOwnedLock, OwnedLock!Spec
-----------------------------------------------------------------------------

(* Where a thread can be, by what it serves, and that it knows its cell.   *)
PlaceOk(t) ==
    /\ t \in Workers => at[t] \in {"idle", "holding", "started", "waiting"}
    /\ t \in Adhoc => at[t] \in {"idle", "checked", "starting", "started"}
    /\ t \in Generators => at[t] \in {"idle", "classified", "locked", "reading", "releasing"}
    /\ t \in Deleters => at[t] \in {"idle", "acquiring", "rollback", "unlinking", "releasing"}
    /\ t \in AllCleaners => at[t] \in {"idle", "gated", "listing", "cleaning"}
    /\ at[t] # "idle" => t \in cast.threads
    /\ at[t] # "idle" /\ t \notin AllCleaners => cell[t] \in Cells
    /\ at[t] \in {"started", "waiting"} /\ t \in Workers => run[t] \in Runs

(* What a thread holds, by where it is.                                    *)
HoldOk(t) ==
    /\ t \in Workers => held[t] = IF at[t] = "idle" THEN {} ELSE {<<cell[t], "sampling">>}
    /\ t \in Adhoc => held[t] = IF at[t] \in {"starting", "started"}
                                THEN {<<cell[t], "generating">>} ELSE {}
    /\ t \in Generators => held[t] = IF at[t] \in {"locked", "reading", "releasing"}
                                     THEN {<<cell[t], "generating">>} ELSE {}
    /\ t \in Deleters => held[t] \subseteq Cells \X {"deleting"}
    /\ t \in Deleters /\ at[t] = "idle" => held[t] = {}
    /\ t \in AllCleaners => held[t] = {}
    /\ heldGlobal[t] = IF t \in ManualCleaners /\ at[t] \in {"listing", "cleaning"}
                       THEN {"disk_cleanup"} ELSE {}

(* An analyzer process knows the cell it was started for.                  *)
ProcOk(r) ==
    Live(r) => /\ proc[r].cell \in Cells
               /\ proc[r].st = "sampling" => proc[r].next >= 1

(* The types of the variables that are not the registry's.                 *)
ProcType == [cell : Cells \cup {NoCell}, kind : {"none", "resume", "from_cache"},
             st : {"none", "seeding", "sampling", "exited"}, next : 0 .. MaxChunk + 1]

FileTypeOK ==
    /\ proc \in [Runs -> ProcType]
    /\ chunks \in [Cells -> [ChunkIds -> Runs \cup {Past, Absent}]]
    /\ dirs \in SUBSET Cells

LocalTypeOK ==
    /\ at \in [Threads -> Places]
    /\ cell \in [Threads -> Cells \cup {NoCell}]
    /\ run \in [Threads -> Runs \cup {NoRun}]
    /\ kind \in [Threads -> cast.kinds \cup {"none"}]
    /\ todo \in [Threads -> SUBSET Cells]
    /\ snap \in [Threads -> SUBSET (Cells \X ChunkIds)]

CastOK == cast \in Casts

LockInv == /\ CastOK /\ FileTypeOK /\ LocalTypeOK /\ IInv
           /\ \A t \in Threads : PlaceOk(t) /\ HoldOk(t)
           /\ \A r \in Runs : ProcOk(r)
-----------------------------------------------------------------------------
(* A thread serves one kind of request.                                    *)
LEMMA OneClass ==
  ASSUME NEW t \in Threads
  PROVE  /\ t \in Workers => t \notin Adhoc /\ t \notin Generators /\ t \notin Deleters
                             /\ t \notin AllCleaners /\ t \notin ManualCleaners
         /\ t \in Adhoc => t \notin Workers /\ t \notin Generators /\ t \notin Deleters
                           /\ t \notin AllCleaners /\ t \notin ManualCleaners
         /\ t \in Generators => t \notin Workers /\ t \notin Adhoc /\ t \notin Deleters
                                /\ t \notin AllCleaners /\ t \notin ManualCleaners
         /\ t \in Deleters => t \notin Workers /\ t \notin Adhoc /\ t \notin Generators
                              /\ t \notin AllCleaners /\ t \notin ManualCleaners
         /\ t \in AllCleaners => t \notin Workers /\ t \notin Adhoc /\ t \notin Generators
                                 /\ t \notin Deleters
BY CellOpsAssumption DEF AllCleaners

LEMMA CastFacts ==
  ASSUME CastOK
  PROVE  /\ cast.threads \subseteq Threads /\ cast.runs \subseteq Runs /\ cast.cells \subseteq Cells
         /\ cast.chunks \in 0 .. MaxChunk /\ MaxChunk \in Nat /\ Keep \in Nat
         /\ "disk_cleanup" \in GlobalOps
BY CellOpsAssumption DEF CastOK

(* Nothing of another thread is touched.                                   *)
Still(u) ==
    /\ at'[u] = at[u] /\ cell'[u] = cell[u] /\ run'[u] = run[u] /\ kind'[u] = kind[u]
    /\ todo'[u] = todo[u] /\ snap'[u] = snap[u]
    /\ held'[u] = held[u] /\ heldGlobal'[u] = heldGlobal[u]

(* What a step of thread t does to the threads' variables and the locks.   *)
StepOk(t) == /\ LocalTypeOK' /\ PlaceOk(t)' /\ HoldOk(t)'
             /\ \A u \in Threads \ {t} : Still(u)

LEMMA AfterReturn ==
  ASSUME LocalTypeOK, NEW t \in Threads, Return(t), UNCHANGED cast
  PROVE  /\ LocalTypeOK'
         /\ at'[t] = "idle" /\ cell'[t] = NoCell /\ run'[t] = NoRun /\ kind'[t] = "none"
         /\ todo'[t] = {} /\ snap'[t] = {}
         /\ \A u \in Threads \ {t} :
                /\ at'[u] = at[u] /\ cell'[u] = cell[u] /\ run'[u] = run[u] /\ kind'[u] = kind[u]
                /\ todo'[u] = todo[u] /\ snap'[u] = snap[u]
BY DEF LocalTypeOK, Return, Goto, Places

LEMMA AfterGoto ==
  ASSUME LocalTypeOK, NEW t \in Threads, NEW place \in Places, Goto(t, place)
  PROVE  /\ at' \in [Threads -> Places]
         /\ at'[t] = place
         /\ \A u \in Threads \ {t} : at'[u] = at[u]
BY DEF LocalTypeOK, Goto

LEMMA AfterAcquire ==
  ASSUME RegistryTypeOK, NEW t \in Threads, NEW c \in Cells, NEW op \in CellOperation,
         NEW block \in BOOLEAN, TryAcquireCell(t, c, op, block)
  PROVE  /\ [RegistryNext]_lockVars
         /\ held'[t] = held[t] \cup {<<c, op>>}
         /\ \A u \in Threads \ {t} : held'[u] = held[u]
         /\ \A u \in Threads : heldGlobal'[u] = heldGlobal[u]
<1>1. RegistryNext
  BY DEF RegistryNext
<1> QED
  BY <1>1 DEF RegistryTypeOK, TryAcquireCell

LEMMA AfterRelease ==
  ASSUME RegistryTypeOK, NEW t \in Threads, NEW c \in Cells, NEW op \in CellOperation,
         ReleaseCell(t, c, op)
  PROVE  /\ [RegistryNext]_lockVars
         /\ held'[t] = held[t] \ {<<c, op>>}
         /\ \A u \in Threads \ {t} : held'[u] = held[u]
         /\ \A u \in Threads : heldGlobal'[u] = heldGlobal[u]
<1>1. RegistryNext
  BY DEF RegistryNext
<1> QED
  BY <1>1 DEF RegistryTypeOK, ReleaseCell

(* The operations the threads take are operations of the registry.         *)
LEMMA Operations == /\ "sampling" \in CellOperation /\ "generating" \in CellOperation
                    /\ "deleting" \in CellOperation /\ FALSE \in BOOLEAN /\ TRUE \in BOOLEAN
BY DEF CellOperation
-----------------------------------------------------------------------------
(* One lemma per kind of thread: its place and its locks stay in step, and *)
(* what it does to the registry is an operation of the registry.           *)
LEMMA WorkerStep ==
  ASSUME LockInv, UNCHANGED cast, NEW w \in Workers, w \in cast.threads, WorkerNext(w)
  PROVE  StepOk(w) /\ [RegistryNext]_lockVars
<1> USE DEF LockInv
<1>0. /\ w \in Threads /\ w \notin Adhoc /\ w \notin Generators /\ w \notin Deleters
      /\ w \notin AllCleaners /\ w \notin ManualCleaners /\ RegistryTypeOK /\ PlaceOk(w) /\ HoldOk(w)
  BY CastFacts, OneClass DEF IInv, CellInv
<1>1. ASSUME NEW c \in cast.cells, AcquireSampling(w, c)
      PROVE  StepOk(w) /\ [RegistryNext]_lockVars
  <2>1. c \in Cells
    BY CastFacts
  <2>2. TryAcquireCell(w, c, "sampling", FALSE) /\ Goto(w, "holding") /\ at[w] = "idle"
    BY <1>1 DEF AcquireSampling
  <2>3. /\ [RegistryNext]_lockVars
        /\ held'[w] = held[w] \cup {<<c, "sampling">>}
        /\ \A u \in Threads \ {w} : held'[u] = held[u]
        /\ \A u \in Threads : heldGlobal'[u] = heldGlobal[u]
    BY <1>0, <2>1, <2>2, AfterAcquire, Operations
  <2>4. /\ at' \in [Threads -> Places] /\ at'[w] = "holding"
        /\ \A u \in Threads \ {w} : at'[u] = at[u]
    BY <1>0, <2>2, AfterGoto DEF Places
  <2>5. LocalTypeOK' /\ cell'[w] = c
    BY <1>0, <1>1, <2>1, <2>4 DEF AcquireSampling, LocalTypeOK
  <2>6. PlaceOk(w)' /\ HoldOk(w)'
    BY <1>0, <2>1, <2>2, <2>3, <2>4, <2>5 DEF PlaceOk, HoldOk
  <2>7. \A u \in Threads \ {w} : Still(u)
    BY <1>0, <1>1, <2>3, <2>4 DEF AcquireSampling, Still, LocalTypeOK
  <2> QED
    BY <2>3, <2>5, <2>6, <2>7 DEF StepOk
<1>2. ASSUME NEW r \in cast.runs, StartSampling(w, r)
      PROVE  StepOk(w) /\ [RegistryNext]_lockVars
  <2>1. r \in Runs /\ UNCHANGED lockVars
    BY <1>2, CastFacts DEF StartSampling
  <2>2. at'[w] \in {"started", "waiting"} /\ at' \in [Threads -> Places]
        /\ \A u \in Threads \ {w} : at'[u] = at[u]
    BY <1>0, <1>2, AfterGoto DEF StartSampling, Places
  <2>3. LocalTypeOK' /\ run'[w] = r /\ cell'[w] = cell[w]
    BY <1>0, <1>2, <2>1, <2>2 DEF StartSampling, LocalTypeOK
  <2>4. PlaceOk(w)' /\ HoldOk(w)'
    BY <1>0, <1>2, <2>1, <2>2, <2>3 DEF PlaceOk, HoldOk, StartSampling, lockVars
  <2>5. \A u \in Threads \ {w} : Still(u)
    BY <1>0, <1>2, <2>1, <2>2 DEF StartSampling, Still, LocalTypeOK, lockVars
  <2> QED
    BY <2>1, <2>3, <2>4, <2>5 DEF StepOk
<1>3. CASE PublishRunId(w)
  <2>1. at[w] = "started" /\ cell[w] \in Cells /\ run[w] \in Runs
    BY <1>0, <1>3 DEF PublishRunId, PlaceOk
  <2>2. [RegistryNext]_lockVars
    BY <1>0, <1>3, <2>1 DEF PublishRunId, RegistryNext
  <2>3. UNCHANGED <<held, heldGlobal, cell, run, kind, todo, snap>>
    BY <1>3 DEF PublishRunId, UpdateSamplingRunId
  <2>4. /\ at' \in [Threads -> Places] /\ at'[w] = "waiting"
        /\ \A u \in Threads \ {w} : at'[u] = at[u]
    BY <1>0, <1>3, AfterGoto DEF PublishRunId, Places
  <2>5. LocalTypeOK' /\ PlaceOk(w)' /\ HoldOk(w)' /\ \A u \in Threads \ {w} : Still(u)
    BY <1>0, <2>1, <2>3, <2>4 DEF LocalTypeOK, PlaceOk, HoldOk, Still
  <2> QED
    BY <2>2, <2>5 DEF StepOk
<1>4. CASE LeaveSampling(w) /\ at[w] # "idle"
  <2>1. cell[w] \in Cells /\ held[w] = {<<cell[w], "sampling">>}
    BY <1>0, <1>4 DEF PlaceOk, HoldOk
  <2>2. /\ [RegistryNext]_lockVars
        /\ held'[w] = {}
        /\ \A u \in Threads \ {w} : held'[u] = held[u]
        /\ \A u \in Threads : heldGlobal'[u] = heldGlobal[u]
    <3>1. ReleaseCell(w, cell[w], "sampling")
      BY <1>4 DEF LeaveSampling
    <3> QED
      BY <1>0, <2>1, <3>1, AfterRelease, Operations
  <2>3. Return(w)
    BY <1>4 DEF LeaveSampling
  <2>4. LocalTypeOK' /\ PlaceOk(w)' /\ HoldOk(w)' /\ \A u \in Threads \ {w} : Still(u)
    BY <1>0, <2>2, <2>3, AfterReturn DEF PlaceOk, HoldOk, Still
  <2> QED
    BY <2>2, <2>4 DEF StepOk
<1> QED
  BY <1>1, <1>2, <1>3, <1>4 DEF WorkerNext, LeaveBeforeStart, FinishWait, Abandon

LEMMA AdhocStep ==
  ASSUME LockInv, UNCHANGED cast, NEW a \in Adhoc, a \in cast.threads, AdhocNext(a)
  PROVE  StepOk(a) /\ [RegistryNext]_lockVars
<1> USE DEF LockInv
<1>0. /\ a \in Threads /\ a \notin Workers /\ a \notin Generators /\ a \notin Deleters
      /\ a \notin AllCleaners /\ a \notin ManualCleaners /\ RegistryTypeOK /\ PlaceOk(a) /\ HoldOk(a)
  BY CastFacts, OneClass DEF IInv, CellInv
<1>1. ASSUME NEW c \in cast.cells, AdhocCheck(a, c)
      PROVE  StepOk(a) /\ [RegistryNext]_lockVars
  <2>1. c \in Cells /\ UNCHANGED lockVars /\ at[a] = "idle"
    BY <1>1, CastFacts DEF AdhocCheck
  <2>2. /\ at' \in [Threads -> Places] /\ at'[a] = "checked"
        /\ \A u \in Threads \ {a} : at'[u] = at[u]
    BY <1>0, <1>1, AfterGoto DEF AdhocCheck, Places
  <2>3. LocalTypeOK' /\ cell'[a] = c
    BY <1>0, <1>1, <2>1, <2>2 DEF AdhocCheck, LocalTypeOK
  <2>4. PlaceOk(a)' /\ HoldOk(a)'
    BY <1>0, <2>1, <2>2, <2>3 DEF PlaceOk, HoldOk, lockVars
  <2>5. \A u \in Threads \ {a} : Still(u)
    BY <1>0, <1>1, <2>1, <2>2 DEF AdhocCheck, Still, LocalTypeOK, lockVars
  <2> QED
    BY <2>1, <2>3, <2>4, <2>5 DEF StepOk
<1>2. ASSUME NEW r \in cast.runs, AdhocStart(a, r)
      PROVE  StepOk(a) /\ [RegistryNext]_lockVars
  <2>1. UNCHANGED <<lockVars, cell, run, kind, todo, snap>> /\ at[a] = "starting"
    BY <1>2 DEF AdhocStart
  <2>2. /\ at' \in [Threads -> Places] /\ at'[a] = "started"
        /\ \A u \in Threads \ {a} : at'[u] = at[u]
    BY <1>0, <1>2, AfterGoto DEF AdhocStart, Places
  <2>3. LocalTypeOK' /\ PlaceOk(a)' /\ HoldOk(a)' /\ \A u \in Threads \ {a} : Still(u)
    BY <1>0, <2>1, <2>2 DEF LocalTypeOK, PlaceOk, HoldOk, Still, lockVars
  <2> QED
    BY <2>1, <2>3 DEF StepOk
<1>3. CASE AdhocAcquire(a)
  <2>1. at[a] = "checked" /\ cell[a] \in Cells /\ held[a] = {}
    BY <1>0, <1>3 DEF AdhocAcquire, PlaceOk, HoldOk
  <2>2. CASE TryAcquireCell(a, cell[a], "generating", TRUE) /\ Goto(a, "starting") /\ UNCHANGED locals
    <3>1. /\ [RegistryNext]_lockVars
          /\ held'[a] = {<<cell[a], "generating">>}
          /\ \A u \in Threads \ {a} : held'[u] = held[u]
          /\ \A u \in Threads : heldGlobal'[u] = heldGlobal[u]
      BY <1>0, <2>1, <2>2, AfterAcquire, Operations
    <3>2. /\ at' \in [Threads -> Places] /\ at'[a] = "starting"
          /\ \A u \in Threads \ {a} : at'[u] = at[u]
      BY <1>0, <2>2, AfterGoto DEF Places
    <3>3. LocalTypeOK' /\ PlaceOk(a)' /\ HoldOk(a)' /\ \A u \in Threads \ {a} : Still(u)
      BY <1>0, <2>1, <2>2, <3>1, <3>2 DEF LocalTypeOK, PlaceOk, HoldOk, Still, locals
    <3> QED
      BY <3>1, <3>3 DEF StepOk
  <2>3. CASE Return(a) /\ UNCHANGED lockVars
    <3>1. LocalTypeOK' /\ PlaceOk(a)' /\ HoldOk(a)' /\ \A u \in Threads \ {a} : Still(u)
      BY <1>0, <2>1, <2>3, AfterReturn DEF PlaceOk, HoldOk, Still, lockVars
    <3> QED
      BY <2>3, <3>1 DEF StepOk
  <2> QED
    BY <1>3, <2>2, <2>3 DEF AdhocAcquire
<1>4. CASE AdhocRelease(a)
  <2>1. cell[a] \in Cells /\ held[a] = {<<cell[a], "generating">>}
    BY <1>0, <1>4 DEF AdhocRelease, PlaceOk, HoldOk
  <2>2. ReleaseCell(a, cell[a], "generating") /\ Return(a)
    BY <1>4 DEF AdhocRelease
  <2>3. /\ [RegistryNext]_lockVars
        /\ held'[a] = {}
        /\ \A u \in Threads \ {a} : held'[u] = held[u]
        /\ \A u \in Threads : heldGlobal'[u] = heldGlobal[u]
    BY <1>0, <2>1, <2>2, AfterRelease, Operations
  <2>4. LocalTypeOK' /\ PlaceOk(a)' /\ HoldOk(a)' /\ \A u \in Threads \ {a} : Still(u)
    BY <1>0, <2>2, <2>3, AfterReturn DEF PlaceOk, HoldOk, Still
  <2> QED
    BY <2>3, <2>4 DEF StepOk
<1> QED
  BY <1>1, <1>2, <1>3, <1>4 DEF AdhocNext

LEMMA GeneratorStep ==
  ASSUME LockInv, UNCHANGED cast, NEW g \in Generators, g \in cast.threads, GeneratorNext(g)
  PROVE  StepOk(g) /\ [RegistryNext]_lockVars
<1> USE DEF LockInv
<1>0. /\ g \in Threads /\ g \notin Workers /\ g \notin Adhoc /\ g \notin Deleters
      /\ g \notin AllCleaners /\ g \notin ManualCleaners /\ RegistryTypeOK /\ PlaceOk(g) /\ HoldOk(g)
  BY CastFacts, OneClass DEF IInv, CellInv
<1>1. ASSUME NEW c \in Cells PROVE ListOf(c) \in SUBSET (Cells \X ChunkIds)
  BY DEF ListOf, Present
<1>2. ASSUME NEW c \in cast.cells, Classify(g, c)
      PROVE  StepOk(g) /\ [RegistryNext]_lockVars
  <2>1. c \in Cells /\ UNCHANGED lockVars /\ at[g] = "idle"
    BY <1>2, CastFacts DEF Classify
  <2>2. /\ at' \in [Threads -> Places] /\ at'[g] = "classified"
        /\ \A u \in Threads \ {g} : at'[u] = at[u]
    BY <1>0, <1>2, AfterGoto DEF Classify, Places
  <2>3. LocalTypeOK' /\ cell'[g] = c
    BY <1>0, <1>1, <1>2, <2>1, <2>2 DEF Classify, LocalTypeOK
  <2>4. PlaceOk(g)' /\ HoldOk(g)'
    BY <1>0, <2>1, <2>2, <2>3 DEF PlaceOk, HoldOk, lockVars
  <2>5. \A u \in Threads \ {g} : Still(u)
    BY <1>0, <1>2, <2>1, <2>2 DEF Classify, Still, LocalTypeOK, lockVars
  <2> QED
    BY <2>1, <2>3, <2>4, <2>5 DEF StepOk
<1>3. CASE GenAcquire(g)
  <2>1. at[g] = "classified" /\ cell[g] \in Cells /\ held[g] = {}
    BY <1>0, <1>3 DEF GenAcquire, PlaceOk, HoldOk
  <2>2. CASE /\ TryAcquireCell(g, cell[g], "generating", TRUE) /\ Goto(g, "locked")
             /\ UNCHANGED <<cell, run, kind, todo, snap>>
    <3>1. /\ [RegistryNext]_lockVars
          /\ held'[g] = {<<cell[g], "generating">>}
          /\ \A u \in Threads \ {g} : held'[u] = held[u]
          /\ \A u \in Threads : heldGlobal'[u] = heldGlobal[u]
      BY <1>0, <2>1, <2>2, AfterAcquire, Operations
    <3>2. /\ at' \in [Threads -> Places] /\ at'[g] = "locked"
          /\ \A u \in Threads \ {g} : at'[u] = at[u]
      BY <1>0, <2>2, AfterGoto DEF Places
    <3>3. LocalTypeOK' /\ PlaceOk(g)' /\ HoldOk(g)' /\ \A u \in Threads \ {g} : Still(u)
      BY <1>0, <2>1, <2>2, <3>1, <3>2 DEF LocalTypeOK, PlaceOk, HoldOk, Still
    <3> QED
      BY <3>1, <3>3 DEF StepOk
  <2>3. CASE Return(g) /\ UNCHANGED lockVars
    <3>1. LocalTypeOK' /\ PlaceOk(g)' /\ HoldOk(g)' /\ \A u \in Threads \ {g} : Still(u)
      BY <1>0, <2>1, <2>3, AfterReturn DEF PlaceOk, HoldOk, Still, lockVars
    <3> QED
      BY <2>3, <3>1 DEF StepOk
  <2> QED
    BY <1>3, <2>2, <2>3 DEF GenAcquire
<1>4. CASE Scope(g) \/ Report(g)
  <2>1. /\ at[g] \in {"locked", "reading"} /\ cell[g] \in Cells
        /\ UNCHANGED <<lockVars, cell, run, kind, todo>>
    BY <1>0, <1>4 DEF Scope, Report, PlaceOk
  <2>2. /\ at' \in [Threads -> Places] /\ at'[g] \in {"reading", "releasing"}
        /\ \A u \in Threads \ {g} : at'[u] = at[u]
    BY <1>0, <1>4, AfterGoto DEF Scope, Report, Places
  <2>3. /\ snap' \in [Threads -> SUBSET (Cells \X ChunkIds)]
        /\ \A u \in Threads \ {g} : snap'[u] = snap[u]
    BY <1>0, <1>1, <1>4, <2>1 DEF Scope, Report, LocalTypeOK
  <2>4. LocalTypeOK' /\ PlaceOk(g)' /\ HoldOk(g)' /\ \A u \in Threads \ {g} : Still(u)
    BY <1>0, <2>1, <2>2, <2>3 DEF LocalTypeOK, PlaceOk, HoldOk, Still, lockVars
  <2> QED
    BY <2>1, <2>4 DEF StepOk
<1>5. CASE GenRelease(g)
  <2>1. cell[g] \in Cells /\ held[g] = {<<cell[g], "generating">>}
    BY <1>0, <1>5 DEF GenRelease, PlaceOk, HoldOk
  <2>2. ReleaseCell(g, cell[g], "generating") /\ Return(g)
    BY <1>5 DEF GenRelease
  <2>3. /\ [RegistryNext]_lockVars
        /\ held'[g] = {}
        /\ \A u \in Threads \ {g} : held'[u] = held[u]
        /\ \A u \in Threads : heldGlobal'[u] = heldGlobal[u]
    BY <1>0, <2>1, <2>2, AfterRelease, Operations
  <2>4. LocalTypeOK' /\ PlaceOk(g)' /\ HoldOk(g)' /\ \A u \in Threads \ {g} : Still(u)
    BY <1>0, <2>2, <2>3, AfterReturn DEF PlaceOk, HoldOk, Still
  <2> QED
    BY <2>3, <2>4 DEF StepOk
<1> QED
  BY <1>2, <1>3, <1>4, <1>5 DEF GeneratorNext

LEMMA DeleterStep ==
  ASSUME LockInv, UNCHANGED cast, NEW d \in Deleters, d \in cast.threads, DeleterNext(d)
  PROVE  StepOk(d) /\ [RegistryNext]_lockVars
<1> USE DEF LockInv
<1>0. /\ d \in Threads /\ d \notin Workers /\ d \notin Adhoc /\ d \notin Generators
      /\ d \notin AllCleaners /\ d \notin ManualCleaners /\ RegistryTypeOK /\ PlaceOk(d) /\ HoldOk(d)
  BY CastFacts, OneClass DEF IInv, CellInv
<1>1. ASSUME NEW k \in cast.kinds, NEW c \in cast.cells, DeleteRequest(d, k, c)
      PROVE  StepOk(d) /\ [RegistryNext]_lockVars
  <2>1. /\ c \in Cells /\ UNCHANGED <<lockVars, run, snap>> /\ at[d] = "idle"
        /\ Goto(d, "acquiring")
    BY <1>1, CastFacts DEF DeleteRequest
  <2>2. ToLock(k, c) \in SUBSET Cells
    BY <2>1, CellOpsAssumption DEF ToLock, FileTypeOK, CastOK, ActiveCells
  <2>3. /\ at' \in [Threads -> Places] /\ at'[d] = "acquiring"
        /\ \A u \in Threads \ {d} : at'[u] = at[u]
    BY <1>0, <2>1, AfterGoto DEF Places
  <2>4. LocalTypeOK' /\ cell'[d] = c
    BY <1>0, <1>1, <2>1, <2>2, <2>3 DEF DeleteRequest, LocalTypeOK
  <2>5. PlaceOk(d)' /\ HoldOk(d)'
    BY <1>0, <2>1, <2>3, <2>4 DEF PlaceOk, HoldOk, lockVars
  <2>6. \A u \in Threads \ {d} : Still(u)
    BY <1>0, <1>1, <2>1, <2>3 DEF DeleteRequest, Still, LocalTypeOK, lockVars
  <2> QED
    BY <2>1, <2>4, <2>5, <2>6 DEF StepOk
<1>2. CASE DeleteAcquire(d)
  <2>1. PICK c \in todo[d] :
            \/ /\ TryAcquireCell(d, c, "deleting", FALSE)
               /\ todo' = [todo EXCEPT ![d] = @ \ {c}]
               /\ UNCHANGED at
            \/ /\ ~CanAcquire(c, "deleting", FALSE)
               /\ Goto(d, "rollback")
               /\ UNCHANGED <<lockVars, todo>>
    BY <1>2 DEF DeleteAcquire
  <2>2. c \in Cells /\ at[d] = "acquiring" /\ UNCHANGED <<cell, run, kind, snap>>
    BY <1>0, <1>2, <2>1 DEF DeleteAcquire, LocalTypeOK
  <2>3. CASE /\ TryAcquireCell(d, c, "deleting", FALSE)
             /\ todo' = [todo EXCEPT ![d] = @ \ {c}]
             /\ UNCHANGED at
    <3>1. /\ [RegistryNext]_lockVars
          /\ held'[d] = held[d] \cup {<<c, "deleting">>}
          /\ \A u \in Threads \ {d} : held'[u] = held[u]
          /\ \A u \in Threads : heldGlobal'[u] = heldGlobal[u]
      BY <1>0, <2>2, <2>3, AfterAcquire, Operations
    <3>2. LocalTypeOK' /\ PlaceOk(d)' /\ HoldOk(d)' /\ \A u \in Threads \ {d} : Still(u)
      BY <1>0, <2>2, <2>3, <3>1 DEF LocalTypeOK, PlaceOk, HoldOk, Still
    <3> QED
      BY <3>1, <3>2 DEF StepOk
  <2>4. CASE Goto(d, "rollback") /\ UNCHANGED <<lockVars, todo>>
    <3>1. /\ at' \in [Threads -> Places] /\ at'[d] = "rollback"
          /\ \A u \in Threads \ {d} : at'[u] = at[u]
      BY <1>0, <2>4, AfterGoto DEF Places
    <3>2. LocalTypeOK' /\ PlaceOk(d)' /\ HoldOk(d)' /\ \A u \in Threads \ {d} : Still(u)
      BY <1>0, <2>2, <2>4, <3>1 DEF LocalTypeOK, PlaceOk, HoldOk, Still, lockVars
    <3> QED
      BY <2>4, <3>2 DEF StepOk
  <2> QED
    BY <2>1, <2>3, <2>4
<1>3. CASE DeleteStart(d) \/ DeleteDone(d)
  <2>1. /\ at[d] \in {"acquiring", "unlinking"} /\ cell[d] \in Cells
        /\ UNCHANGED <<lockVars, cell, run, kind, snap>>
    BY <1>0, <1>3 DEF DeleteStart, DeleteDone, PlaceOk
  <2>2. /\ at' \in [Threads -> Places] /\ at'[d] \in {"releasing", "unlinking"}
        /\ \A u \in Threads \ {d} : at'[u] = at[u]
    BY <1>0, <1>3, AfterGoto DEF DeleteStart, DeleteDone, Places
  <2>3. /\ todo' \in [Threads -> SUBSET Cells]
        /\ \A u \in Threads \ {d} : todo'[u] = todo[u]
    BY <1>0, <1>3, <2>1 DEF DeleteStart, DeleteDone, LocalTypeOK, FileTypeOK
  <2>4. LocalTypeOK' /\ PlaceOk(d)' /\ HoldOk(d)' /\ \A u \in Threads \ {d} : Still(u)
    BY <1>0, <2>1, <2>2, <2>3 DEF LocalTypeOK, PlaceOk, HoldOk, Still, lockVars
  <2> QED
    BY <2>1, <2>4 DEF StepOk
<1>4. CASE DeleteList(d) \/ DeleteTree(d) \/ DeleteUnlink(d)
  <2>1. UNCHANGED <<lockVars, at, cell, run, kind>>
    BY <1>4 DEF DeleteList, DeleteTree, DeleteUnlink, Unlink
  <2>2. /\ todo' \in [Threads -> SUBSET Cells]
        /\ \A u \in Threads \ {d} : todo'[u] = todo[u]
    BY <1>0, <1>4 DEF DeleteList, DeleteTree, DeleteUnlink, Unlink, LocalTypeOK
  <2>3. /\ snap' \in [Threads -> SUBSET (Cells \X ChunkIds)]
        /\ \A u \in Threads \ {d} : snap'[u] = snap[u]
    <3>1. CASE DeleteList(d)
      <4>1. PICK c \in todo[d] : \E gone \in SUBSET Present(c) :
                snap' = [snap EXCEPT ![d] = {<<c, i>> : i \in gone}]
        BY <3>1 DEF DeleteList
      <4>2. c \in Cells /\ Present(c) \subseteq ChunkIds
        BY <1>0, <4>1 DEF LocalTypeOK, Present
      <4> QED
        BY <1>0, <4>1, <4>2 DEF LocalTypeOK
    <3>2. CASE DeleteTree(d) \/ DeleteUnlink(d)
      BY <1>0, <3>2 DEF DeleteTree, DeleteUnlink, Unlink, LocalTypeOK
    <3> QED
      BY <1>4, <3>1, <3>2
  <2>4. LocalTypeOK' /\ PlaceOk(d)' /\ HoldOk(d)' /\ \A u \in Threads \ {d} : Still(u)
    BY <1>0, <2>1, <2>2, <2>3 DEF LocalTypeOK, PlaceOk, HoldOk, Still, lockVars
  <2> QED
    BY <2>1, <2>4 DEF StepOk
<1>5. CASE DeleteRelease(d)
  <2>1. held[d] \subseteq Cells \X {"deleting"} /\ at[d] \in {"rollback", "releasing"}
    BY <1>0, <1>5 DEF HoldOk, DeleteRelease
  <2>2. ASSUME NEW c \in Cells, ReleaseCell(d, c, "deleting"), UNCHANGED <<at, locals>>
        PROVE  StepOk(d) /\ [RegistryNext]_lockVars
    <3>1. /\ [RegistryNext]_lockVars
          /\ held'[d] = held[d] \ {<<c, "deleting">>}
          /\ \A u \in Threads \ {d} : held'[u] = held[u]
          /\ \A u \in Threads : heldGlobal'[u] = heldGlobal[u]
      BY <1>0, <2>2, AfterRelease, Operations
    <3>2. LocalTypeOK' /\ PlaceOk(d)' /\ HoldOk(d)' /\ \A u \in Threads \ {d} : Still(u)
      BY <1>0, <2>1, <2>2, <3>1 DEF LocalTypeOK, PlaceOk, HoldOk, Still, locals
    <3> QED
      BY <3>1, <3>2 DEF StepOk
  <2>3. CASE /\ ~ \E c \in Cells : <<c, "deleting">> \in held[d]
             /\ Return(d) /\ UNCHANGED lockVars
    <3>1. held[d] = {} /\ held' = held /\ heldGlobal' = heldGlobal
      BY <2>1, <2>3 DEF lockVars
    <3>2. LocalTypeOK' /\ PlaceOk(d)' /\ HoldOk(d)' /\ \A u \in Threads \ {d} : Still(u)
      BY <1>0, <2>3, <3>1, AfterReturn DEF PlaceOk, HoldOk, Still
    <3> QED
      BY <2>3, <3>2 DEF StepOk
  <2> QED
    BY <1>5, <2>2, <2>3 DEF DeleteRelease
<1> QED
  BY <1>1, <1>2, <1>3, <1>4, <1>5 DEF DeleterNext

LEMMA CleanerStep ==
  ASSUME LockInv, UNCHANGED cast, NEW k \in AllCleaners, k \in cast.threads, CleanerNext(k)
  PROVE  StepOk(k) /\ [RegistryNext]_lockVars
<1> USE DEF LockInv
<1>0. /\ k \in Threads /\ k \notin Workers /\ k \notin Adhoc /\ k \notin Generators
      /\ k \notin Deleters /\ RegistryTypeOK /\ PlaceOk(k) /\ HoldOk(k)
  BY CastFacts, OneClass DEF IInv, CellInv
<1>1. CASE CleanGate(k)
  <2>1. UNCHANGED <<lockVars, cell, run, kind, todo, snap>> /\ at[k] = "idle"
    BY <1>1 DEF CleanGate
  <2>2. /\ at' \in [Threads -> Places] /\ at'[k] = "gated"
        /\ \A u \in Threads \ {k} : at'[u] = at[u]
    BY <1>0, <1>1, AfterGoto DEF CleanGate, Places
  <2>3. LocalTypeOK' /\ PlaceOk(k)' /\ HoldOk(k)' /\ \A u \in Threads \ {k} : Still(u)
    BY <1>0, <2>1, <2>2 DEF LocalTypeOK, PlaceOk, HoldOk, Still, lockVars
  <2> QED
    BY <2>1, <2>3 DEF StepOk
<1>2. CASE CleanReadInUse(k)
  <2>1. UNCHANGED <<cell, run, kind, snap>> /\ at[k] = "gated"
    BY <1>2 DEF CleanReadInUse
  <2>2. /\ at' \in [Threads -> Places] /\ at'[k] = "listing"
        /\ \A u \in Threads \ {k} : at'[u] = at[u]
    BY <1>0, <1>2, AfterGoto DEF CleanReadInUse, Places
  <2>3. /\ todo' \in [Threads -> SUBSET Cells]
        /\ \A u \in Threads \ {k} : todo'[u] = todo[u]
    BY <1>0, <1>2 DEF CleanReadInUse, LocalTypeOK, FileTypeOK
  <2>4. /\ [RegistryNext]_lockVars
        /\ held' = held
        /\ heldGlobal'[k] = IF k \in ManualCleaners THEN {"disk_cleanup"} ELSE {}
        /\ \A u \in Threads \ {k} : heldGlobal'[u] = heldGlobal[u]
    <3>1. CASE k \in ManualCleaners
      <4>1. TryAcquireGlobal(k, "disk_cleanup")
        BY <1>2, <3>1 DEF CleanReadInUse
      <4>2. RegistryNext
        BY <1>0, <4>1, CastFacts DEF RegistryNext
      <4> QED
        BY <1>0, <2>1, <3>1, <4>1, <4>2 DEF TryAcquireGlobal, HoldOk, RegistryTypeOK
    <3>2. CASE k \notin ManualCleaners
      BY <1>0, <1>2, <2>1, <3>2 DEF CleanReadInUse, HoldOk, lockVars
    <3> QED
      BY <3>1, <3>2
  <2>5. LocalTypeOK' /\ PlaceOk(k)' /\ HoldOk(k)' /\ \A u \in Threads \ {k} : Still(u)
    BY <1>0, <2>1, <2>2, <2>3, <2>4 DEF LocalTypeOK, PlaceOk, HoldOk, Still
  <2> QED
    BY <2>4, <2>5 DEF StepOk
<1>3. CASE CleanList(k)
  <2>1. UNCHANGED <<lockVars, cell, run, kind>> /\ at[k] = "listing"
    BY <1>3 DEF CleanList
  <2>2. /\ at' \in [Threads -> Places] /\ at'[k] = "cleaning"
        /\ \A u \in Threads \ {k} : at'[u] = at[u]
    BY <1>0, <1>3, AfterGoto DEF CleanList, Places
  <2>3. /\ todo' \in [Threads -> SUBSET Cells]
        /\ snap' \in [Threads -> SUBSET (Cells \X ChunkIds)]
        /\ \A u \in Threads \ {k} : todo'[u] = todo[u] /\ snap'[u] = snap[u]
    BY <1>0, <1>3 DEF CleanList, LocalTypeOK, OnDisk
  <2>4. LocalTypeOK' /\ PlaceOk(k)' /\ HoldOk(k)' /\ \A u \in Threads \ {k} : Still(u)
    BY <1>0, <2>1, <2>2, <2>3 DEF LocalTypeOK, PlaceOk, HoldOk, Still, lockVars
  <2> QED
    BY <2>1, <2>4 DEF StepOk
<1>4. CASE CleanUnlink(k)
  <2>1. UNCHANGED <<lockVars, at, cell, run, kind, todo>> /\ at[k] = "cleaning"
    BY <1>4 DEF CleanUnlink, Unlink
  <2>2. /\ snap' \in [Threads -> SUBSET (Cells \X ChunkIds)]
        /\ \A u \in Threads \ {k} : snap'[u] = snap[u]
    BY <1>0, <1>4 DEF CleanUnlink, Unlink, LocalTypeOK
  <2>3. LocalTypeOK' /\ PlaceOk(k)' /\ HoldOk(k)' /\ \A u \in Threads \ {k} : Still(u)
    BY <1>0, <2>1, <2>2 DEF LocalTypeOK, PlaceOk, HoldOk, Still, lockVars
  <2> QED
    BY <2>1, <2>3 DEF StepOk
<1>5. CASE CleanDone(k)
  <2>1. at[k] = "cleaning" /\ Return(k)
    BY <1>5 DEF CleanDone
  <2>2. /\ [RegistryNext]_lockVars
        /\ held' = held
        /\ heldGlobal'[k] = {}
        /\ \A u \in Threads \ {k} : heldGlobal'[u] = heldGlobal[u]
    <3>1. CASE k \in ManualCleaners
      <4>1. ReleaseGlobal(k, "disk_cleanup")
        BY <1>5, <3>1 DEF CleanDone
      <4>2. RegistryNext
        BY <1>0, <4>1, CastFacts DEF RegistryNext
      <4> QED
        BY <1>0, <2>1, <3>1, <4>1, <4>2 DEF ReleaseGlobal, HoldOk, RegistryTypeOK
    <3>2. CASE k \notin ManualCleaners
      BY <1>0, <1>5, <2>1, <3>2 DEF CleanDone, HoldOk, lockVars
    <3> QED
      BY <3>1, <3>2
  <2>3. LocalTypeOK' /\ PlaceOk(k)' /\ HoldOk(k)' /\ \A u \in Threads \ {k} : Still(u)
    BY <1>0, <2>1, <2>2, AfterReturn DEF PlaceOk, HoldOk, Still
  <2> QED
    BY <2>2, <2>3 DEF StepOk
<1> QED
  BY <1>1, <1>2, <1>3, <1>4, <1>5 DEF CleanerNext
-----------------------------------------------------------------------------
(* One file is unlinked from a thread's list.                              *)
UnlinksOne(t) == UNCHANGED <<proc, dirs>> /\ \E f \in snap[t] : Remove({f})

(* Who touches processes and chunk files, and where it is when it does.    *)
LEMMA WhoTouchesFiles ==
  ASSUME NEW t \in Threads, ThreadNext(t)
  PROVE  \/ UNCHANGED fileVars
         \/ t \in Workers /\ \E r \in cast.runs : StartSampling(t, r)
         \/ t \in Adhoc /\ \E r \in cast.runs : AdhocStart(t, r)
         \/ t \in Deleters /\ at[t] = "unlinking" /\ UnlinksOne(t)
         \/ t \in Deleters /\ DeleteTree(t)
         \/ t \in AllCleaners /\ at[t] = "cleaning" /\ UnlinksOne(t)
<1>1. CASE t \in Workers /\ WorkerNext(t)
  BY <1>1 DEF WorkerNext, AcquireSampling, PublishRunId, LeaveBeforeStart, FinishWait, Abandon,
              LeaveSampling
<1>2. CASE t \in Adhoc /\ AdhocNext(t)
  BY <1>2 DEF AdhocNext, AdhocCheck, AdhocAcquire, AdhocRelease
<1>3. CASE t \in Generators /\ GeneratorNext(t)
  BY <1>3 DEF GeneratorNext, Classify, GenAcquire, Scope, Report, GenRelease
<1>4. CASE t \in Deleters /\ DeleterNext(t)
  BY <1>4 DEF DeleterNext, DeleteRequest, DeleteAcquire, DeleteStart, DeleteList, DeleteUnlink,
              DeleteDone, DeleteRelease, Unlink, UnlinksOne
<1>5. CASE t \in AllCleaners /\ CleanerNext(t)
  BY <1>5 DEF CleanerNext, CleanGate, CleanReadInUse, CleanList, CleanUnlink, CleanDone, Unlink,
              UnlinksOne
<1> QED
  BY <1>1, <1>2, <1>3, <1>4, <1>5 DEF ThreadNext

(* A run that is started seeds in the cell of its starter.                 *)
LEMMA AfterSpawn ==
  ASSUME FileTypeOK, NEW t \in Threads, cell[t] \in Cells, NEW r \in Runs,
         NEW how \in {"resume", "from_cache"}, Spawn(t, r, how)
  PROVE  /\ FileTypeOK'
         /\ proc'[r].cell = cell[t] /\ proc'[r].st = "seeding"
         /\ \A s \in Runs \ {r} : proc'[s] = proc[s]
<1>1. [cell |-> cell[t], kind |-> how, st |-> "seeding", next |-> 0] \in ProcType
  BY CellOpsAssumption DEF ProcType
<1> QED
  BY <1>1 DEF FileTypeOK, Spawn

LEMMA AfterRemove ==
  ASSUME FileTypeOK, NEW gone, Remove(gone)
  PROVE  /\ chunks' \in [Cells -> [ChunkIds -> Runs \cup {Past, Absent}]]
         /\ \A c \in Cells, i \in ChunkIds :
                chunks'[c][i] = IF <<c, i>> \in gone THEN Absent ELSE chunks[c][i]
         /\ \A c \in Cells : Present(c)' = {i \in Present(c) : <<c, i>> \notin gone}
<1>1. /\ chunks' \in [Cells -> [ChunkIds -> Runs \cup {Past, Absent}]]
      /\ \A c \in Cells, i \in ChunkIds :
             chunks'[c][i] = IF <<c, i>> \in gone THEN Absent ELSE chunks[c][i]
  BY DEF FileTypeOK, Remove
<1> QED
  BY <1>1 DEF Present

(* What an analyzer's step does to its process and to the files.           *)
LEMMA AfterSeed ==
  ASSUME FileTypeOK, NEW r \in Runs, ProcOk(r), Seed(r)
  PROVE  /\ FileTypeOK' /\ chunks' = chunks
         /\ proc[r].st = "seeding" /\ proc[r].cell \in Cells
         /\ proc'[r].cell = proc[r].cell /\ proc'[r].st = "sampling" /\ proc'[r].next >= 1
         /\ proc'[r].next - 1 \in {0} \cup Present(proc[r].cell)
         /\ \A i \in Present(proc[r].cell) : i < proc'[r].next
         /\ \A s \in Runs \ {r} : proc'[s] = proc[s]
<1>1. /\ proc[r] \in ProcType /\ proc[r].st = "seeding" /\ proc[r].cell \in Cells
      /\ UNCHANGED <<chunks, dirs>>
  BY DEF FileTypeOK, ProcOk, Live, Seed
<1>2. PICK top \in {0} \cup Present(proc[r].cell) :
          /\ \A i \in Present(proc[r].cell) : i <= top
          /\ proc' = [proc EXCEPT ![r].st = "sampling", ![r].next = top + 1]
  BY DEF Seed
<1>3. top \in 0 .. MaxChunk /\ top + 1 \in 0 .. MaxChunk + 1 /\ Present(proc[r].cell) \subseteq Int
  BY CellOpsAssumption DEF Present, ChunkIds
<1>4. /\ proc' \in [Runs -> ProcType]
      /\ proc'[r].cell = proc[r].cell /\ proc'[r].st = "sampling" /\ proc'[r].next = top + 1
      /\ \A s \in Runs \ {r} : proc'[s] = proc[s]
  BY <1>1, <1>2, <1>3 DEF FileTypeOK, ProcType
<1>5. FileTypeOK'
  BY <1>1, <1>4 DEF FileTypeOK
<1>6. top + 1 >= 1 /\ (top + 1) - 1 = top /\ \A i \in Present(proc[r].cell) : i < top + 1
  BY <1>2, <1>3
<1> QED
  BY <1>1, <1>2, <1>4, <1>5, <1>6

LEMMA AfterWrite ==
  ASSUME CastOK, FileTypeOK, NEW r \in Runs, ProcOk(r), WriteChunk(r), NEW c0, c0 = proc[r].cell
  PROVE  /\ FileTypeOK'
         /\ proc[r].st = "sampling" /\ c0 \in Cells
         /\ proc[r].next \in ChunkIds
         /\ proc'[r].cell = c0 /\ proc'[r].st = "sampling"
         /\ proc'[r].next = proc[r].next + 1
         /\ \A s \in Runs \ {r} : proc'[s] = proc[s]
         /\ \A c \in Cells, i \in ChunkIds :
                chunks'[c][i] = IF c = c0 /\ i = proc[r].next THEN r ELSE chunks[c][i]
         /\ \A c \in Cells : Present(c)' = IF c = c0 THEN Present(c) \cup {proc[r].next}
                                           ELSE Present(c)
<1>1. /\ proc[r] \in ProcType /\ proc[r].st = "sampling" /\ c0 \in Cells
      /\ proc[r].next >= 1 /\ proc[r].next <= cast.chunks
  BY DEF FileTypeOK, ProcOk, Live, WriteChunk
<1>2. proc[r].next \in ChunkIds /\ proc[r].next + 1 \in 0 .. MaxChunk + 1
  BY <1>1, CastFacts DEF ChunkIds, ProcType
<1>3. /\ proc' \in [Runs -> ProcType]
      /\ proc'[r].cell = c0 /\ proc'[r].st = "sampling"
      /\ proc'[r].next = proc[r].next + 1
      /\ \A s \in Runs \ {r} : proc'[s] = proc[s]
  BY <1>1, <1>2 DEF FileTypeOK, ProcType, WriteChunk
<1>4. /\ chunks' \in [Cells -> [ChunkIds -> Runs \cup {Past, Absent}]]
      /\ \A c \in Cells, i \in ChunkIds :
             chunks'[c][i] = IF c = c0 /\ i = proc[r].next THEN r ELSE chunks[c][i]
  BY <1>1, <1>2 DEF FileTypeOK, WriteChunk
<1>5. r # Absent
  BY CellOpsAssumption
<1>6. \A c \in Cells : Present(c)' = IF c = c0 THEN Present(c) \cup {proc[r].next}
                                     ELSE Present(c)
  BY <1>2, <1>4, <1>5 DEF Present
<1>7. dirs' \in SUBSET Cells
  BY <1>1 DEF FileTypeOK, WriteChunk
<1> QED
  BY <1>1, <1>2, <1>3, <1>4, <1>6, <1>7 DEF FileTypeOK

LEMMA AfterExit ==
  ASSUME FileTypeOK, NEW r \in Runs, Exit(r)
  PROVE  /\ FileTypeOK' /\ chunks' = chunks
         /\ proc'[r].st = "exited"
         /\ \A s \in Runs \ {r} : proc'[s] = proc[s]
<1>1. [NoProc EXCEPT !.st = "exited"] \in ProcType /\ [NoProc EXCEPT !.st = "exited"].st = "exited"
  BY CellOpsAssumption DEF NoProc, ProcType
<1> QED
  BY <1>1 DEF FileTypeOK, Exit

(* The analyzers touch neither the threads' variables nor the locks.       *)
LEMMA AnalyzerApart ==
  ASSUME NEW r, AnalyzerNext(r)
  PROVE  UNCHANGED <<lockVars, at, cell, run, kind, todo, snap>>
BY DEF AnalyzerNext, Seed, WriteChunk, Exit
-----------------------------------------------------------------------------
(* The first part of the invariant, and that every step of the console is  *)
(* a step of the registry.                                                 *)
LEMMA StillKeepsPlace ==
  ASSUME NEW u \in Threads, PlaceOk(u), HoldOk(u), Still(u), UNCHANGED cast
  PROVE  PlaceOk(u)' /\ HoldOk(u)'
BY DEF PlaceOk, HoldOk, Still

LEMMA ThreadKeepsLocks ==
  ASSUME LockInv, UNCHANGED cast, NEW t \in cast.threads, ThreadNext(t)
  PROVE  t \in Threads /\ StepOk(t) /\ [RegistryNext]_lockVars
<1>1. t \in Threads
  BY CastFacts DEF LockInv
<1> QED
  BY <1>1, WorkerStep, AdhocStep, GeneratorStep, DeleterStep, CleanerStep DEF ThreadNext

LEMMA ThreadKeepsFiles ==
  ASSUME LockInv, UNCHANGED cast, NEW t \in cast.threads, ThreadNext(t)
  PROVE  FileTypeOK' /\ \A r \in Runs : ProcOk(r)'
<1> USE DEF LockInv
<1>1. t \in Threads /\ PlaceOk(t)
  BY CastFacts
<1>2. CASE UNCHANGED fileVars
  BY <1>2 DEF fileVars, FileTypeOK, ProcOk, Live
<1>3. ASSUME NEW r \in Runs, NEW how \in {"resume", "from_cache"}, Spawn(t, r, how), cell[t] \in Cells
      PROVE  FileTypeOK' /\ \A s \in Runs : ProcOk(s)'
  BY <1>1, <1>3, AfterSpawn DEF ProcOk, Live
<1>4. CASE t \in Workers /\ \E r \in cast.runs : StartSampling(t, r)
  <2>1. PICK r \in cast.runs : StartSampling(t, r)
    BY <1>4
  <2>2. r \in Runs /\ t \notin AllCleaners
    BY <1>1, <1>4, CastFacts, OneClass
  <2>3. cell[t] \in Cells /\ Spawn(t, r, "resume")
    BY <1>1, <2>1, <2>2 DEF StartSampling, PlaceOk
  <2> QED
    BY <1>3, <2>2, <2>3
<1>5. CASE t \in Adhoc /\ \E r \in cast.runs : AdhocStart(t, r)
  <2>1. PICK r \in cast.runs : AdhocStart(t, r)
    BY <1>5
  <2>2. r \in Runs /\ t \notin AllCleaners
    BY <1>1, <1>5, CastFacts, OneClass
  <2>3. cell[t] \in Cells /\ \E how \in {"resume", "from_cache"} : Spawn(t, r, how)
    BY <1>1, <2>1, <2>2 DEF AdhocStart, PlaceOk
  <2> QED
    BY <1>3, <2>2, <2>3
<1>6. ASSUME NEW gone, Remove(gone), proc' = proc, dirs' \subseteq dirs
      PROVE  FileTypeOK' /\ \A r \in Runs : ProcOk(r)'
  BY <1>6, AfterRemove DEF FileTypeOK, ProcOk, Live
<1>7. CASE UnlinksOne(t)
  BY <1>6, <1>7 DEF UnlinksOne
<1>8. CASE DeleteTree(t)
  BY <1>6, <1>8 DEF DeleteTree
<1> QED
  BY <1>1, <1>2, <1>4, <1>5, <1>7, <1>8, WhoTouchesFiles

LEMMA AnalyzerKeepsFiles ==
  ASSUME LockInv, UNCHANGED cast, NEW r \in cast.runs, AnalyzerNext(r)
  PROVE  FileTypeOK' /\ \A s \in Runs : ProcOk(s)'
<1> USE DEF LockInv
<1>1. r \in Runs /\ ProcOk(r)
  BY CastFacts
<1>2. CASE Seed(r)
  BY <1>1, <1>2, AfterSeed DEF ProcOk, Live
<1>3. CASE WriteChunk(r)
  <2>1. FileTypeOK' /\ \A s \in Runs \ {r} : proc'[s] = proc[s]
    BY <1>1, <1>3, AfterWrite
  <2>2. proc'[r].cell \in Cells /\ proc'[r].next = proc[r].next + 1 /\ proc[r].next \in ChunkIds
    BY <1>1, <1>3, AfterWrite
  <2> QED
    BY <1>1, <2>1, <2>2 DEF ProcOk, Live, ChunkIds
<1>4. CASE Exit(r)
  BY <1>1, <1>4, AfterExit DEF ProcOk, Live
<1> QED
  BY <1>2, <1>3, <1>4 DEF AnalyzerNext

LEMMA LockStep == LockInv /\ [Next]_vars => LockInv' /\ [RegistryNext]_lockVars
<1> SUFFICES ASSUME LockInv, [Next]_vars PROVE LockInv' /\ [RegistryNext]_lockVars
  OBVIOUS
<1> USE DEF LockInv
<1>1. CASE UNCHANGED vars
  <2>1. UNCHANGED <<cast, fileVars, at, cell, run, kind, todo, snap, lockVars>>
    BY <1>1 DEF vars
  <2>2. IInv'
    BY <2>1, OtherStepsKeepInv DEF IInv, CellInv, RegistryTypeOK, lockVars
  <2> QED
    BY <2>1, <2>2 DEF CastOK, FileTypeOK, LocalTypeOK, PlaceOk, HoldOk, ProcOk, Live, fileVars, lockVars
<1>2. ASSUME NEW t \in cast.threads, ThreadNext(t), UNCHANGED cast
      PROVE  LockInv' /\ [RegistryNext]_lockVars
  <2>1. t \in Threads /\ StepOk(t) /\ [RegistryNext]_lockVars
    BY <1>2, ThreadKeepsLocks
  <2>2. IInv'
    BY <2>1, RegistryTypeStep, StepKeepsInv DEF IInv, CellInv
  <2>3. \A u \in Threads : PlaceOk(u)' /\ HoldOk(u)'
    BY <1>2, <2>1, StillKeepsPlace DEF StepOk
  <2>4. FileTypeOK' /\ \A r \in Runs : ProcOk(r)'
    BY <1>2, ThreadKeepsFiles
  <2> QED
    BY <1>2, <2>1, <2>2, <2>3, <2>4 DEF StepOk, CastOK
<1>3. ASSUME NEW r \in cast.runs, AnalyzerNext(r), UNCHANGED cast
      PROVE  LockInv' /\ [RegistryNext]_lockVars
  <2>1. UNCHANGED <<lockVars, at, cell, run, kind, todo, snap>>
    BY <1>3, AnalyzerApart
  <2>2. IInv'
    BY <2>1, OtherStepsKeepInv DEF IInv, CellInv, RegistryTypeOK, lockVars
  <2>3. FileTypeOK' /\ \A s \in Runs : ProcOk(s)'
    BY <1>3, AnalyzerKeepsFiles
  <2>4. CastOK' /\ LocalTypeOK' /\ \A t \in Threads : PlaceOk(t)' /\ HoldOk(t)'
    BY <1>3, <2>1 DEF CastOK, LocalTypeOK, PlaceOk, HoldOk, lockVars
  <2> QED
    BY <2>1, <2>2, <2>3, <2>4
<1> QED
  BY <1>1, <1>2, <1>3 DEF Next

LEMMA LockInit == Init => LockInv
<1> SUFFICES ASSUME Init PROVE LockInv
  OBVIOUS
<1>1. CastOK /\ RegistryInit
  BY DEF Init, CastOK
<1>2. IInv
  BY <1>1, InvInit
<1>3. NoProc \in ProcType /\ NoProc.st = "none"
  BY CellOpsAssumption DEF NoProc, ProcType
<1>4. FileTypeOK
  <2>1. PICK n \in [cast.cells -> 0 .. cast.chunks] :
            /\ dirs = {c \in cast.cells : n[c] > 0}
            /\ chunks = [c \in Cells |-> [i \in ChunkIds |->
                             IF c \in dirs /\ i <= n[c] THEN Past ELSE Absent]]
    BY DEF Init
  <2> QED
    BY <1>1, <1>3, <2>1, CastFacts DEF Init, FileTypeOK
<1>5. LocalTypeOK /\ \A t \in Threads : at[t] = "idle" /\ cell[t] = NoCell
  BY DEF Init, LocalTypeOK, Places
<1>6. \A t \in Threads : held[t] = {} /\ heldGlobal[t] = {}
  BY <1>1 DEF RegistryInit
<1>7. \A t \in Threads : PlaceOk(t) /\ HoldOk(t)
  BY <1>5, <1>6 DEF PlaceOk, HoldOk
<1>8. \A r \in Runs : ProcOk(r)
  BY <1>3 DEF Init, ProcOk, Live
<1> QED
  BY <1>1, <1>2, <1>4, <1>5, <1>7, <1>8 DEF LockInv

(* Where a thread is tells what it holds, and the registry's invariant     *)
(* holds, in every cast.                                                   *)
THEOREM LocksFollowPlaces == Spec => []LockInv
<1> QED
  BY LockInit, LockStep, PTL DEF Spec

(* Every variable keeps its type, for any cast.                            *)
THEOREM FlowsTypeCorrect == Spec => []TypeOK
<1>1. LockInv => TypeOK
  BY DEF LockInv, CastOK, IInv, CellInv, FileTypeOK, LocalTypeOK, ProcType, TypeOK
<1> QED
  BY <1>1, LocksFollowPlaces, PTL

(* The console's threads use the registry as its specification allows:     *)
(* they release only what they took, and publish a run id only for a cell  *)
(* they sample.  So everything proved of the registry holds of the console.*)
THEOREM FlowsUseRegistry == Spec => RegistrySpec
<1>1. Init => RegistryInit
  BY DEF Init
<1> QED
  BY <1>1, LocksFollowPlaces, LockStep, PTL DEF Spec, RegistrySpec

(* No two threads of the console ever hold conflicting operations on one   *)
(* cell, whatever they do (try_acquire_cell, release_cell).                *)
THEOREM FlowsExclude == Spec => []HolderExclusion
<1> QED
  BY FlowsUseRegistry, HoldersExclude, PTL

(* Every way out of every handler returns what it took, and an operation   *)
(* in the registry is held by a thread that is in its handler.             *)
THEOREM LocksAreReturned == Spec => []LocksReturned
<1>1. ASSUME LockInv PROVE LocksReturned
  <2>1. \A t \in Threads : at[t] = "idle" => held[t] = {} /\ heldGlobal[t] = {}
    <3> SUFFICES ASSUME NEW t \in Threads, at[t] = "idle" PROVE held[t] = {} /\ heldGlobal[t] = {}
      OBVIOUS
    <3>1. t \in Workers \cup Adhoc \cup Generators \cup Deleters \cup AllCleaners
      BY CellOpsAssumption DEF AllThreads
    <3> QED
      BY <1>1, <3>1 DEF LockInv, HoldOk
  <2>2. \A c \in Cells : \A op \in registry[c] : op \in CellOperation
                         /\ \E t \in Threads : <<c, op>> \in held[t]
    BY <1>1 DEF LockInv, IInv, CellInv, RegistryTypeOK, RegistryMatchesHolders
  <2> QED
    BY <2>1, <2>2 DEF LocksReturned
<1> QED
  BY <1>1, LocksFollowPlaces, PTL
-----------------------------------------------------------------------------
(* The second part: what the locks mean for the files, in a cast that      *)
(* keeps the discipline.                                                   *)
FilesOf(c) == {c} \X ChunkIds

(* A deleter locks the cell it lists before it unlinks anything of it.     *)
DeleterOk(d) ==
    /\ at[d] = "idle" => snap[d] = {}
    /\ at[d] # "idle" => kind[d] \in cast.kinds
    /\ snap[d] \subseteq FilesOf(cell[d])
    /\ at[d] \in {"acquiring", "unlinking"} => todo[d] \subseteq {cell[d]}
    /\ at[d] = "acquiring" => cell[d] \in todo[d] \/ <<cell[d], "deleting">> \in held[d]
    /\ at[d] = "unlinking" => <<cell[d], "deleting">> \in held[d]

GeneratorOk(g) ==
    /\ snap[g] \subseteq FilesOf(cell[g])
    /\ at[g] = "reading" => snap[g] \subseteq OnDisk

(* A live analyzer is waited for by the worker that started it.            *)
WaitedFor(r) == \E w \in Workers : /\ at[w] \in {"started", "waiting"}
                                   /\ run[w] = r /\ cell[w] = proc[r].cell

RunOk(r) ==
    /\ Live(r) => WaitedFor(r)
    /\ proc[r].st = "sampling" => \A i \in Present(proc[r].cell) : i < proc[r].next

DataOk == /\ \A d \in Deleters : DeleterOk(d)
          /\ \A g \in Generators : GeneratorOk(g)
          /\ \A r \in Runs : RunOk(r)

DataInv == Disciplined => DataOk

(* A disciplined cast has no ad-hoc runs, no cleaners and no worker that   *)
(* gives up, and its deletes work on one cell.                             *)
LEMMA DisciplineFacts ==
  ASSUME LockInv, Disciplined
  PROVE  /\ \A t \in cast.threads : /\ t \in Threads /\ t \notin MayAbandon
                                    /\ t \notin Adhoc /\ t \notin AllCleaners
         /\ cast.kinds \subseteq {"version", "mode", "mode_force"}
BY CastFacts DEF LockInv, Disciplined

(* Conflicting operations of two threads are on different cells.           *)
LEMMA HoldersApart ==
  ASSUME LockInv, NEW t \in Threads, NEW u \in Threads, NEW c1 \in Cells, NEW c2 \in Cells,
         NEW op1 \in CellOperation, NEW op2 \in CellOperation,
         <<c1, op1>> \in held[t], <<c2, op2>> \in held[u],
         <<t, op1>> # <<u, op2>>, Conflict(op1, op2)
  PROVE  c1 # c2
BY DEF LockInv, IInv, CellInv, HolderExclusion

LEMMA LiveIsSampled ==
  ASSUME LockInv, NEW r \in Runs, RunOk(r), Live(r)
  PROVE  \E w \in Workers : /\ w \in Threads /\ run[w] = r
                            /\ <<proc[r].cell, "sampling">> \in held[w]
<1>1. PICK w \in Workers : /\ at[w] \in {"started", "waiting"}
                           /\ run[w] = r /\ cell[w] = proc[r].cell
  BY DEF RunOk, WaitedFor
<1>2. w \in Threads
  BY CellOpsAssumption DEF AllThreads
<1> QED
  BY <1>1, <1>2 DEF LockInv, HoldOk

(* Two live analyzers are never on the same cell.                          *)
LEMMA LiveApart ==
  ASSUME LockInv, NEW r \in Runs, NEW s \in Runs, r # s, RunOk(r), RunOk(s), Live(r), Live(s)
  PROVE  proc[r].cell # proc[s].cell
<1>1. PICK w \in Workers : w \in Threads /\ run[w] = r /\ <<proc[r].cell, "sampling">> \in held[w]
  BY LiveIsSampled
<1>2. PICK v \in Workers : v \in Threads /\ run[v] = s /\ <<proc[s].cell, "sampling">> \in held[v]
  BY LiveIsSampled
<1>3. proc[r].cell \in Cells /\ proc[s].cell \in Cells
  BY DEF LockInv, ProcOk
<1> QED
  BY <1>1, <1>2, <1>3, HoldersApart, Operations DEF Conflict

(* A deleter that unlinks is alone on its cell.                            *)
LEMMA DeleterAlone ==
  ASSUME LockInv, DataOk, NEW d \in Deleters, at[d] = "unlinking"
  PROVE  /\ \A r \in Runs : Live(r) => proc[r].cell # cell[d]
         /\ \A g \in Generators : at[g] = "reading" => cell[g] # cell[d]
<1>1. d \in Threads /\ d \notin Workers /\ d \notin Generators /\ d \notin AllCleaners
  BY CellOpsAssumption, OneClass DEF AllThreads
<1>2. cell[d] \in Cells /\ <<cell[d], "deleting">> \in held[d]
  BY <1>1 DEF LockInv, PlaceOk, DataOk, DeleterOk
<1>3. ASSUME NEW r \in Runs, Live(r) PROVE proc[r].cell # cell[d]
  <2>1. PICK w \in Workers : w \in Threads /\ <<proc[r].cell, "sampling">> \in held[w]
    BY <1>3, LiveIsSampled DEF DataOk
  <2>2. proc[r].cell \in Cells
    BY <1>3 DEF LockInv, ProcOk
  <2> QED
    BY <1>1, <1>2, <2>1, <2>2, HoldersApart, Operations DEF Conflict
<1>4. ASSUME NEW g \in Generators, at[g] = "reading" PROVE cell[g] # cell[d]
  <2>1. g \in Threads /\ g \notin AllCleaners
    BY CellOpsAssumption, OneClass DEF AllThreads
  <2>2. cell[g] \in Cells /\ <<cell[g], "generating">> \in held[g]
    BY <1>4, <2>1 DEF LockInv, PlaceOk, HoldOk
  <2> QED
    BY <1>1, <1>2, <1>4, <2>1, <2>2, HoldersApart, Operations DEF Conflict
<1> QED
  BY <1>3, <1>4

(* In a disciplined cast only samplers add chunks and only deleters, each  *)
(* in its own cell, take them away.                                        *)
LEMMA DisciplinedThread ==
  ASSUME LockInv, DataOk, Disciplined, NEW t \in cast.threads, ThreadNext(t)
  PROVE  \/ UNCHANGED fileVars
         \/ t \in Workers /\ \E r \in cast.runs : StartSampling(t, r)
         \/ /\ t \in Deleters /\ at[t] = "unlinking" /\ proc' = proc
            /\ \E gone \in SUBSET FilesOf(cell[t]) : Remove(gone)
<1>1. t \in Threads /\ t \notin Adhoc /\ t \notin AllCleaners
  BY DisciplineFacts
<1>2. CASE t \in Deleters /\ at[t] = "unlinking" /\ UnlinksOne(t)
  <2>1. snap[t] \subseteq FilesOf(cell[t])
    BY <1>2 DEF DataOk, DeleterOk
  <2> QED
    BY <1>2, <2>1 DEF UnlinksOne
<1>3. CASE t \in Deleters /\ DeleteTree(t)
  <2>1. kind[t] \in cast.kinds /\ at[t] = "unlinking"
    BY <1>3 DEF DataOk, DeleterOk, DeleteTree
  <2>2. kind[t] = "mode_force"
    BY <1>3, <2>1, DisciplineFacts DEF DeleteTree
  <2>3. Remove(FilesOf(cell[t])) /\ proc' = proc
    BY <1>3, <2>2 DEF DeleteTree, FilesOf
  <2> QED
    BY <1>3, <2>1, <2>3
<1> QED
  BY <1>1, <1>2, <1>3, WhoTouchesFiles

(* The steps of a deleter in a disciplined cast: one cell from the request *)
(* to the last file.                                                       *)
LEMMA DeleterKeepsOk ==
  ASSUME LockInv, LockInv', DataOk, Disciplined, UNCHANGED cast,
         NEW d \in Deleters, d \in cast.threads, DeleterNext(d)
  PROVE  DeleterOk(d)'
<1>0. /\ d \in Threads /\ d \notin AllCleaners /\ RegistryTypeOK /\ LocalTypeOK /\ DeleterOk(d)
      /\ cast.kinds \subseteq {"version", "mode", "mode_force"} /\ PlaceOk(d) /\ HoldOk(d)
  BY DisciplineFacts DEF LockInv, IInv, CellInv, DataOk
<1>1. ASSUME NEW k \in cast.kinds, NEW c \in cast.cells, DeleteRequest(d, k, c)
      PROVE  DeleterOk(d)'
  <2>1. ToLock(k, c) = {c}
    BY <1>0 DEF ToLock
  <2>2. /\ at'[d] = "acquiring" /\ cell'[d] = c /\ todo'[d] = {c} /\ kind'[d] = k
        /\ snap'[d] = snap[d]
    BY <1>0, <1>1, <2>1 DEF DeleteRequest, Goto, LocalTypeOK
  <2>3. snap[d] = {}
    BY <1>0, <1>1 DEF DeleterOk, DeleteRequest
  <2> QED
    BY <1>1, <2>2, <2>3 DEF DeleterOk, DeleteRequest
<1>2. CASE DeleteAcquire(d)
  <2>1. /\ at[d] = "acquiring" /\ UNCHANGED <<cell, run, kind, snap>>
        /\ todo[d] \subseteq {cell[d]}
    BY <1>0, <1>2 DEF DeleteAcquire, DeleterOk
  <2>2. CASE Goto(d, "rollback")
    BY <1>0, <2>1, <2>2 DEF DeleterOk, Goto, LocalTypeOK
  <2>3. CASE \E c \in todo[d] : /\ TryAcquireCell(d, c, "deleting", FALSE)
                                /\ todo' = [todo EXCEPT ![d] = @ \ {c}]
                                /\ UNCHANGED at
    <3>1. PICK c \in todo[d] : /\ held' = [held EXCEPT ![d] = @ \cup {<<c, "deleting">>}]
                              /\ todo' = [todo EXCEPT ![d] = @ \ {c}]
                              /\ UNCHANGED at
      BY <2>3 DEF TryAcquireCell
    <3>2. /\ c = cell[d] /\ <<c, "deleting">> \in held'[d] /\ todo'[d] \subseteq todo[d]
      BY <1>0, <2>1, <3>1 DEF RegistryTypeOK, LocalTypeOK
    <3> QED
      BY <1>0, <2>1, <3>1, <3>2 DEF DeleterOk
  <2> QED
    BY <1>2, <2>2, <2>3 DEF DeleteAcquire
<1>3. CASE DeleteStart(d)
  <2>1. /\ at[d] = "acquiring" /\ todo[d] = {} /\ UNCHANGED <<lockVars, cell, run, kind, snap>>
        /\ kind[d] \in cast.kinds
    BY <1>0, <1>3 DEF DeleteStart, DeleterOk
  <2>2. <<cell[d], "deleting">> \in held'[d]
    BY <1>0, <2>1 DEF DeleterOk, lockVars
  <2>3. /\ at'[d] \in {"releasing", "unlinking"}
        /\ at'[d] = "unlinking" => todo'[d] = {cell[d]}
    BY <1>0, <1>3, <2>1 DEF DeleteStart, Goto, LocalTypeOK
  <2> QED
    BY <1>0, <2>1, <2>2, <2>3 DEF DeleterOk
<1>4. CASE DeleteList(d)
  <2>1. /\ at[d] = "unlinking" /\ UNCHANGED <<lockVars, at, cell, run, kind>>
    BY <1>4 DEF DeleteList
  <2>2. PICK c \in todo[d] :
            /\ \E gone \in SUBSET Present(c) :
                   snap' = [snap EXCEPT ![d] = {<<c, i>> : i \in gone}]
            /\ todo' = [todo EXCEPT ![d] = @ \ {c}]
    BY <1>4 DEF DeleteList
  <2>3. c = cell[d] /\ todo'[d] \subseteq {cell[d]}
    BY <1>0, <2>1, <2>2 DEF DeleterOk, LocalTypeOK
  <2>4. snap'[d] \subseteq FilesOf(cell[d])
    BY <1>0, <2>2, <2>3 DEF FilesOf, Present, LocalTypeOK
  <2> QED
    BY <1>0, <2>1, <2>3, <2>4 DEF DeleterOk, lockVars
<1>5. CASE DeleteTree(d) \/ DeleteUnlink(d)
  <2>1. /\ at[d] = "unlinking" /\ UNCHANGED <<lockVars, at, cell, run, kind>>
        /\ todo'[d] \subseteq todo[d] /\ snap'[d] \subseteq snap[d]
    BY <1>0, <1>5 DEF DeleteTree, DeleteUnlink, Unlink, LocalTypeOK
  <2> QED
    BY <1>0, <2>1 DEF DeleterOk, lockVars
<1>6. CASE DeleteDone(d)
  <2>1. /\ at[d] = "unlinking" /\ UNCHANGED <<lockVars, cell, run, kind, todo, snap>>
        /\ at'[d] = "releasing"
    BY <1>0, <1>6 DEF DeleteDone, Goto, LocalTypeOK
  <2> QED
    BY <1>0, <2>1 DEF DeleterOk
<1>7. CASE DeleteRelease(d)
  <2>1. CASE Return(d)
    BY <1>0, <2>1, AfterReturn DEF DeleterOk
  <2>2. CASE UNCHANGED <<at, locals>>
    BY <1>0, <1>7, <2>2 DEF DeleterOk, DeleteRelease, locals
  <2> QED
    BY <1>7, <2>1, <2>2 DEF DeleteRelease
<1> QED
  BY <1>1, <1>2, <1>3, <1>4, <1>5, <1>6, <1>7 DEF DeleterNext

(* A generator that begins to read reads what is on disk.                  *)
LEMMA GeneratorKeepsOk ==
  ASSUME LockInv, DataOk, UNCHANGED cast,
         NEW g \in Generators, g \in cast.threads, GeneratorNext(g)
  PROVE  GeneratorOk(g)'
<1>0. /\ g \in Threads /\ g \notin AllCleaners /\ LocalTypeOK /\ GeneratorOk(g) /\ PlaceOk(g)
  BY CastFacts, OneClass DEF LockInv, DataOk
<1>1. ASSUME NEW c PROVE ListOf(c) \subseteq FilesOf(c)
  BY DEF ListOf, FilesOf, Present
<1>2. ASSUME NEW c \in Cells PROVE ListOf(c) \subseteq OnDisk
  BY DEF ListOf, OnDisk, Present
<1>3. ASSUME NEW c \in cast.cells, Classify(g, c)
      PROVE  GeneratorOk(g)'
  <2>1. at'[g] = "classified" /\ cell'[g] = c /\ snap'[g] = ListOf(c)
    BY <1>0, <1>3 DEF Classify, Goto, LocalTypeOK
  <2> QED
    BY <1>1, <2>1 DEF GeneratorOk
<1>4. CASE GenAcquire(g) \/ GenRelease(g)
  <2>1. CASE Return(g)
    BY <1>0, <2>1, AfterReturn DEF GeneratorOk
  <2>2. CASE Goto(g, "locked") /\ UNCHANGED <<cell, snap>>
    BY <1>0, <2>2 DEF GeneratorOk, Goto, LocalTypeOK
  <2> QED
    BY <1>4, <2>1, <2>2 DEF GenAcquire, GenRelease
<1>5. CASE Scope(g)
  <2>1. cell[g] \in Cells /\ UNCHANGED <<fileVars, cell>>
    BY <1>0, <1>5 DEF Scope, PlaceOk
  <2>2. OnDisk' = OnDisk
    BY <2>1 DEF OnDisk, Present, fileVars
  <2>3. CASE snap' = [snap EXCEPT ![g] = ListOf(cell[g])]
    <3>1. snap'[g] = ListOf(cell[g])
      BY <1>0, <2>3 DEF LocalTypeOK
    <3> QED
      BY <1>1, <1>2, <2>1, <2>2, <3>1 DEF GeneratorOk
  <2>4. CASE /\ Goto(g, IF snap[g] \subseteq OnDisk THEN "reading" ELSE "releasing")
             /\ UNCHANGED snap
    <3>1. at'[g] = "reading" => snap[g] \subseteq OnDisk
      BY <1>0, <2>4 DEF Goto, LocalTypeOK
    <3> QED
      BY <1>0, <2>1, <2>2, <2>4, <3>1 DEF GeneratorOk
  <2> QED
    BY <1>5, <2>3, <2>4 DEF Scope
<1>6. CASE Report(g)
  <2>1. at'[g] = "releasing" /\ UNCHANGED <<cell, snap>>
    BY <1>0, <1>6 DEF Report, Goto, LocalTypeOK
  <2> QED
    BY <1>0, <2>1 DEF GeneratorOk
<1> QED
  BY <1>3, <1>4, <1>5, <1>6 DEF GeneratorNext

(* A generator another thread's step leaves alone keeps its input: what    *)
(* that step removes is of another cell.                                   *)
LEMMA InputStays ==
  ASSUME LockInv, NEW g \in Generators, GeneratorOk(g), UNCHANGED cast, Still(g),
         at[g] = "reading" => \A c \in Cells : Present(c) \ Present(c)' # {} => c # cell[g]
  PROVE  GeneratorOk(g)'
<1>1. ASSUME at[g] = "reading", NEW f \in snap[g] PROVE f \in OnDisk'
  <2>1. /\ f \in Cells \X ChunkIds /\ f[2] \in Present(f[1]) /\ f[1] = cell[g]
    BY <1>1 DEF GeneratorOk, OnDisk, FilesOf
  <2>2. f[2] \in Present(f[1])'
    BY <1>1, <2>1
  <2> QED
    BY <2>1, <2>2 DEF OnDisk
<1> QED
  BY <1>1 DEF GeneratorOk, Still

(* What a step of a thread removes from a cell nobody reads or samples.    *)
LEMMA ThreadRemoves ==
  ASSUME LockInv, DataOk, Disciplined, NEW t \in cast.threads, ThreadNext(t),
         NEW c \in Cells, NEW i \in ChunkIds, chunks'[c][i] # chunks[c][i]
  PROVE  /\ chunks'[c][i] = Absent
         /\ \A r \in Runs : Live(r) => proc[r].cell # c
         /\ \A g \in Generators : at[g] = "reading" => cell[g] # c
<1>1. chunks' # chunks
  OBVIOUS
<1>2. /\ t \in Deleters /\ at[t] = "unlinking"
      /\ \E gone \in SUBSET FilesOf(cell[t]) : Remove(gone)
  BY <1>1, DisciplinedThread DEF fileVars, StartSampling, Spawn
<1>3. PICK gone \in SUBSET FilesOf(cell[t]) : Remove(gone)
  BY <1>2
<1>4. <<c, i>> \in gone /\ chunks'[c][i] = Absent
  BY <1>3, AfterRemove DEF LockInv
<1>5. c = cell[t]
  BY <1>4 DEF FilesOf
<1> QED
  BY <1>2, <1>4, <1>5, DeleterAlone

(* A thread's step leaves every live analyzer its worker and its numbering.*)
LEMMA ThreadKeepsRuns ==
  ASSUME LockInv, DataOk, Disciplined, UNCHANGED cast,
         NEW t \in cast.threads, ThreadNext(t), NEW r \in Runs
  PROVE  RunOk(r)'
<1>0. /\ t \in Threads /\ t \notin MayAbandon /\ t \notin Adhoc /\ t \notin AllCleaners
      /\ \A u \in Threads \ {t} : Still(u)
      /\ FileTypeOK /\ LocalTypeOK /\ PlaceOk(t) /\ RunOk(r)
  BY DisciplineFacts, ThreadKeepsLocks DEF StepOk, LockInv, DataOk
<1>1. CASE proc'[r] # proc[r]
  <2>1. t \in Workers /\ \E s \in cast.runs : StartSampling(t, s)
    BY <1>1, DisciplinedThread DEF fileVars
  <2>2. PICK s \in cast.runs : StartSampling(t, s)
    BY <2>1
  <2>3. s \in Runs /\ at[t] = "holding" /\ cell[t] \in Cells /\ Spawn(t, s, "resume")
    BY <1>0, <2>1, <2>2, CastFacts DEF StartSampling, PlaceOk, LockInv
  <2>4. r = s /\ proc'[r].cell = cell[t] /\ proc'[r].st = "seeding"
    BY <1>0, <1>1, <2>3, AfterSpawn
  <2>5. at'[t] \in {"started", "waiting"} /\ run'[t] = s /\ cell'[t] = cell[t]
    BY <1>0, <2>2 DEF StartSampling, Goto, LocalTypeOK
  <2> QED
    BY <2>1, <2>4, <2>5 DEF RunOk, WaitedFor
<1>2. CASE proc'[r] = proc[r]
  <2>1. ASSUME Live(r) PROVE WaitedFor(r)'
    <3>1. PICK w \in Workers : /\ at[w] \in {"started", "waiting"}
                               /\ run[w] = r /\ cell[w] = proc[r].cell
      BY <1>0, <2>1 DEF RunOk, WaitedFor
    <3>2. w \in Threads
      BY CellOpsAssumption DEF AllThreads
    <3>3. CASE w # t
      BY <1>0, <1>2, <3>1, <3>2, <3>3 DEF WaitedFor, Still
    <3>4. CASE w = t
      <4>1. WorkerNext(t)
        BY <1>0, <3>4, OneClass DEF ThreadNext
      <4>2. PublishRunId(t)
        BY <1>0, <2>1, <3>1, <3>4, <4>1
           DEF WorkerNext, AcquireSampling, StartSampling, LeaveBeforeStart, FinishWait, Abandon
      <4>3. at'[t] = "waiting" /\ run'[t] = run[t] /\ cell'[t] = cell[t]
        BY <1>0, <4>2 DEF PublishRunId, Goto, LocalTypeOK
      <4> QED
        BY <1>2, <3>1, <3>4, <4>3 DEF WaitedFor
    <3> QED
      BY <3>3, <3>4
  <2>2. ASSUME proc[r].st = "sampling"
        PROVE  \A i \in Present(proc[r].cell)' : i < proc[r].next
    <3>1. proc[r].cell \in Cells
      BY <2>2 DEF LockInv, ProcOk, Live
    <3>2. \A c \in Cells : Present(c)' \subseteq Present(c)
      <4>1. CASE chunks' = chunks
        BY <4>1 DEF Present
      <4>2. ASSUME NEW gone, Remove(gone) PROVE \A c \in Cells : Present(c)' \subseteq Present(c)
        BY <1>0, <4>2, AfterRemove
      <4> QED
        BY <4>1, <4>2, DisciplinedThread DEF fileVars, StartSampling, Spawn
    <3> QED
      BY <1>0, <1>2, <2>2, <3>1, <3>2 DEF RunOk
  <2>3. (proc[r].st = "sampling")' => \A i \in Present(proc[r].cell)' : i < proc'[r].next
    BY <1>2, <2>2
  <2>4. Live(r)' => WaitedFor(r)'
    BY <1>2, <2>1 DEF Live
  <2> QED
    BY <1>2, <2>3, <2>4 DEF RunOk
<1> QED
  BY <1>1, <1>2

(* So does a step of an analyzer: what another one writes is elsewhere.    *)
LEMMA AnalyzerKeepsRuns ==
  ASSUME LockInv, DataOk, UNCHANGED cast, NEW s \in cast.runs, AnalyzerNext(s), NEW r \in Runs
  PROVE  RunOk(r)'
<1>0. /\ s \in Runs /\ ProcOk(s) /\ RunOk(s) /\ RunOk(r) /\ FileTypeOK /\ CastOK
      /\ UNCHANGED <<at, cell, run>>
  BY CastFacts, AnalyzerApart DEF LockInv, DataOk
<1>1. CASE Seed(s)
  <2>1. /\ chunks' = chunks /\ proc[s].st = "seeding"
        /\ proc'[s].cell = proc[s].cell /\ proc'[s].st = "sampling"
        /\ \A i \in Present(proc[s].cell) : i < proc'[s].next
        /\ \A q \in Runs \ {s} : proc'[q] = proc[q]
    BY <1>0, <1>1, AfterSeed
  <2> QED
    BY <1>0, <2>1 DEF RunOk, WaitedFor, Live, Present
<1>2. CASE Exit(s)
  <2>1. /\ chunks' = chunks /\ proc'[s].st = "exited"
        /\ \A q \in Runs \ {s} : proc'[q] = proc[q]
    BY <1>0, <1>2, AfterExit
  <2> QED
    BY <1>0, <2>1 DEF RunOk, WaitedFor, Live, Present
<1>3. CASE WriteChunk(s)
  <2>1. /\ proc[s].st = "sampling" /\ proc[s].cell \in Cells /\ proc[s].next \in ChunkIds
        /\ proc'[s].cell = proc[s].cell /\ proc'[s].st = "sampling"
        /\ proc'[s].next = proc[s].next + 1
        /\ \A q \in Runs \ {s} : proc'[q] = proc[q]
        /\ \A c \in Cells : Present(c)' = IF c = proc[s].cell THEN Present(c) \cup {proc[s].next}
                                          ELSE Present(c)
    BY <1>0, <1>3, AfterWrite
  <2>2. Live(r)' => WaitedFor(r)'
    BY <1>0, <2>1 DEF RunOk, WaitedFor, Live
  <2>3. CASE r = s
    <3>1. \A i \in Present(proc[s].cell) : i < proc[s].next /\ i \in ChunkIds
      BY <1>0, <2>1 DEF RunOk, Present
    <3>2. \A i \in Present(proc[s].cell) \cup {proc[s].next} : i < proc[s].next + 1
      BY <2>1, <3>1 DEF ChunkIds
    <3> QED
      BY <2>1, <2>2, <2>3, <3>2 DEF RunOk
  <2>4. CASE r # s /\ proc[r].st = "sampling"
    <3>1. proc[r].cell # proc[s].cell /\ proc[r].cell \in Cells
      BY <1>0, <2>1, <2>4, LiveApart DEF Live, LockInv, ProcOk
    <3> QED
      BY <1>0, <2>1, <2>2, <2>4, <3>1 DEF RunOk
  <2>5. CASE r # s /\ proc[r].st # "sampling"
    BY <2>1, <2>2, <2>5 DEF RunOk
  <2> QED
    BY <2>3, <2>4, <2>5
<1> QED
  BY <1>1, <1>2, <1>3 DEF AnalyzerNext

LEMMA DataStep == LockInv /\ LockInv' /\ DataInv /\ [Next]_vars => DataInv'
<1> SUFFICES ASSUME LockInv, LockInv', DataInv, [Next]_vars, Disciplined'
             PROVE  DataOk'
  BY DEF DataInv
<1>1. cast' = cast /\ Disciplined /\ DataOk
  BY DEF vars, Next, Disciplined, DataInv
<1>2. CASE UNCHANGED vars
  BY <1>1, <1>2 DEF vars, fileVars, lockVars, DataOk, DeleterOk, GeneratorOk, RunOk, WaitedFor, Live,
                    OnDisk, Present
<1>3. ASSUME NEW t \in cast.threads, ThreadNext(t)
      PROVE  DataOk'
  <2>1. t \in Threads /\ \A u \in Threads \ {t} : Still(u)
    BY <1>1, <1>3, ThreadKeepsLocks DEF StepOk
  <2>2. ASSUME NEW d \in Deleters PROVE DeleterOk(d)'
    <3>1. d \in Threads /\ DeleterOk(d)
      BY <1>1, CellOpsAssumption DEF AllThreads, DataOk
    <3>2. CASE d = t
      BY <1>1, <1>3, <3>1, <3>2, OneClass, DeleterKeepsOk DEF ThreadNext
    <3>3. CASE d # t
      BY <1>1, <2>1, <3>1, <3>3 DEF DeleterOk, Still
    <3> QED
      BY <3>2, <3>3
  <2>3. ASSUME NEW g \in Generators PROVE GeneratorOk(g)'
    <3>1. g \in Threads /\ GeneratorOk(g)
      BY <1>1, CellOpsAssumption DEF AllThreads, DataOk
    <3>2. CASE g = t
      BY <1>1, <1>3, <3>1, <3>2, OneClass, GeneratorKeepsOk DEF ThreadNext
    <3>3. CASE g # t
      <4>1. Still(g)
        BY <2>1, <3>1, <3>3
      <4>2. ASSUME at[g] = "reading", NEW c \in Cells, Present(c) \ Present(c)' # {} PROVE c # cell[g]
        <5>1. PICK i \in ChunkIds : i \in Present(c) /\ i \notin Present(c)'
          BY <4>2 DEF Present
        <5>2. chunks'[c][i] # chunks[c][i]
          BY <5>1 DEF Present
        <5> QED
          BY <1>1, <1>3, <4>2, <5>2, ThreadRemoves
      <4> QED
        BY <1>1, <3>1, <4>1, <4>2, InputStays
    <3> QED
      BY <3>2, <3>3
  <2> QED
    BY <1>1, <1>3, <2>2, <2>3, ThreadKeepsRuns DEF DataOk
<1>4. ASSUME NEW s \in cast.runs, AnalyzerNext(s)
      PROVE  DataOk'
  <2>1. UNCHANGED <<lockVars, at, cell, run, kind, todo, snap>>
    BY <1>4, AnalyzerApart
  <2>2. \A d \in Deleters : DeleterOk(d)'
    BY <1>1, <2>1 DEF DataOk, DeleterOk, lockVars
  <2>3. \A c \in Cells : Present(c) \ Present(c)' = {}
    <3>1. s \in Runs /\ ProcOk(s) /\ FileTypeOK /\ CastOK
      BY <1>4, CastFacts DEF LockInv
    <3>2. CASE Seed(s) \/ Exit(s)
      BY <3>2 DEF Seed, Exit, Present
    <3>3. CASE WriteChunk(s)
      BY <3>1, <3>3, AfterWrite
    <3> QED
      BY <1>4, <3>2, <3>3 DEF AnalyzerNext
  <2>4. ASSUME NEW g \in Generators PROVE GeneratorOk(g)'
    <3>1. Still(g) /\ GeneratorOk(g)
      BY <1>1, <2>1 DEF DataOk, Still, lockVars
    <3> QED
      BY <1>1, <2>3, <3>1, InputStays
  <2> QED
    BY <1>1, <1>4, <2>2, <2>4, AnalyzerKeepsRuns DEF DataOk
<1> QED
  BY <1>1, <1>2, <1>3, <1>4 DEF Next

LEMMA DataInit == Init => DataInv
<1> SUFFICES ASSUME Init PROVE DataOk
  BY DEF DataInv
<1>1. \A t \in Threads : at[t] = "idle" /\ snap[t] = {}
  BY DEF Init
<1>2. \A r \in Runs : proc[r].st = "none"
  BY DEF Init, NoProc
<1>3. Deleters \subseteq Threads /\ Generators \subseteq Threads
  BY CellOpsAssumption DEF AllThreads
<1> QED
  BY <1>1, <1>2, <1>3 DEF DataOk, DeleterOk, GeneratorOk, RunOk, Live

(* Locks and files together.                                               *)
THEOREM FilesFollowLocks == Spec => [](LockInv /\ DataInv)
<1> QED
  BY LockInit, LockStep, DataInit, DataStep, PTL DEF Spec

(* In a disciplined cast the chunks a report is made from are on disk      *)
(* while it is made (_run_generate_report under GENERATING).               *)
THEOREM InputIsPresent == Spec => []ReportInputPresent
<1>1. DataInv => ReportInputPresent
  BY DEF DataInv, DataOk, GeneratorOk, ReportInputPresent
<1> QED
  BY <1>1, FilesFollowLocks, PTL

(* In a disciplined cast no chunk on disk is replaced by another run's,    *)
(* and none disappears under a live analyzer or a report being read.       *)
THEOREM LiveDataKept == Spec => NoLiveDataLost
<1> DEFINE Kept1 == Disciplined => \A c \in Cells, i \in ChunkIds :
               chunks[c][i] # Absent /\ chunks'[c][i] # chunks[c][i] =>
                   /\ chunks'[c][i] = Absent
                   /\ \A r \in Runs : Live(r) => proc[r].cell # c
                   /\ \A g \in Generators : at[g] = "reading" => cell[g] # c
<1>1. LockInv /\ DataInv /\ [Next]_vars => [Kept1]_vars
  <2> SUFFICES ASSUME LockInv, DataInv, Next, Disciplined, NEW c \in Cells, NEW i \in ChunkIds,
                      chunks[c][i] # Absent, chunks'[c][i] # chunks[c][i]
               PROVE  /\ chunks'[c][i] = Absent
                      /\ \A r \in Runs : Live(r) => proc[r].cell # c
                      /\ \A g \in Generators : at[g] = "reading" => cell[g] # c
    OBVIOUS
  <2>1. CASE \E t \in cast.threads : ThreadNext(t)
    BY <2>1, ThreadRemoves DEF DataInv
  <2>2. ASSUME NEW s \in cast.runs, AnalyzerNext(s) PROVE FALSE
    <3>1. s \in Runs /\ ProcOk(s) /\ RunOk(s) /\ FileTypeOK /\ CastOK
      BY <2>2, CastFacts DEF LockInv, DataInv, DataOk
    <3>2. WriteChunk(s)
      BY <2>2 DEF AnalyzerNext, Seed, Exit
    <3>3. c = proc[s].cell /\ i = proc[s].next /\ proc[s].st = "sampling" /\ proc[s].next \in ChunkIds
      BY <3>1, <3>2, AfterWrite
    <3>4. i \in Present(c)
      BY DEF Present
    <3> QED
      BY <3>1, <3>3, <3>4 DEF RunOk, ChunkIds
  <2> QED
    BY <2>1, <2>2 DEF Next
<1> QED
  BY <1>1, FilesFollowLocks, PTL DEF Spec, NoLiveDataLost
-----------------------------------------------------------------------------
(* The third part: the retention quota, in a cast of tiered deletes and    *)
(* cleanups.  What a list made under no lock may name is bounded by index, *)
(* not by what is on disk when the list is worked through.                 *)
Tiered == cast.kinds \subseteq {"mode", "machine"}

ListOk(t) == \A f \in snap[t] : f[2] > Keep

(* A cell has every index up to the quota below any chunk it has.          *)
Filled == \A c \in Cells : \A i \in Present(c) : \A j \in ChunkIds :
              j <= Keep /\ j < i => j \in Present(c)

NumberOk(r) == proc[r].st = "sampling" =>
                   \A j \in ChunkIds : j <= Keep /\ j < proc[r].next => j \in Present(proc[r].cell)

QuotaOk == /\ \A d \in Deleters : at[d] # "idle" => kind[d] \in cast.kinds
           /\ \A t \in Deleters \cup AllCleaners : ListOk(t)
           /\ Filled
           /\ \A r \in Runs : NumberOk(r)

QuotaInv == Tiered => QuotaOk

LEMMA ChunkIdsFinite == IsFiniteSet(ChunkIds) /\ ChunkIds \subseteq Int
BY CellOpsAssumption, FS_Interval DEF ChunkIds

(* Only a chunk above the quota is ever listed for removal.                *)
LEMMA DeletableIsHigh ==
  ASSUME NEW c \in Cells, NEW i \in Deletable(c)
  PROVE  i \in ChunkIds /\ i > Keep
<1> DEFINE below == {j \in Present(c) : j < i}
<1>1. i \in ChunkIds /\ i \in Present(c) /\ Keep \in Nat
  BY CellOpsAssumption DEF Deletable, Present
<1>2. ~(Cardinality(below) < Keep)
  BY <1>1 DEF Deletable, Kept
<1>3. below \subseteq 1 .. (i - 1) /\ i \in Int /\ i >= 1
  BY <1>1, ChunkIdsFinite DEF Present, ChunkIds
<1> HIDE DEF below
<1>4. IsFiniteSet(1 .. (i - 1)) /\ Cardinality(1 .. (i - 1)) = i - 1
  <2>1. i - 1 \in Int /\ 1 \in Int /\ 1 <= (i - 1) + 1
    BY <1>3
  <2>2. Cardinality(1 .. (i - 1)) = IF 1 > i - 1 THEN 0 ELSE (i - 1) - 1 + 1
    BY <2>1, FS_Interval
  <2> QED
    BY <1>3, <2>1, <2>2, FS_Interval
<1>5. Cardinality(below) <= i - 1 /\ IsFiniteSet(below)
  BY <1>3, <1>4, FS_Subset
<1>6. Cardinality(below) \in Nat
  BY <1>5, FS_CardinalityType
<1> QED
  BY <1>1, <1>2, <1>3, <1>5, <1>6

(* A set of indexes that has all of 1..Keep has at least Keep elements.    *)
LEMMA QuotaCounted ==
  ASSUME NEW S \in SUBSET ChunkIds, \A j \in 1 .. Keep : j \in S
  PROVE  Cardinality(S) >= Keep
<1>1. Keep \in Nat
  BY CellOpsAssumption
<1>2. IsFiniteSet(S)
  BY ChunkIdsFinite, FS_Subset
<1>3. Cardinality(1 .. Keep) <= Cardinality(S)
  <2>1. 1 .. Keep \subseteq S
    OBVIOUS
  <2> QED
    BY <1>2, <2>1, FS_Subset
<1>4. Cardinality(1 .. Keep) = Keep
  <2>1. Cardinality(1 .. Keep) = IF 1 > Keep THEN 0 ELSE Keep - 1 + 1
    BY <1>1, FS_Interval
  <2> QED
    BY <1>1, <2>1
<1>5. Cardinality(S) \in Nat
  BY <1>2, FS_CardinalityType
<1> QED
  BY <1>1, <1>3, <1>4, <1>5

(* In a tiered cast files go one by one, from the lists.                   *)
LEMMA TieredThread ==
  ASSUME QuotaOk, Tiered, NEW t \in Threads, ThreadNext(t)
  PROVE  \/ UNCHANGED fileVars
         \/ \E r \in cast.runs : StartSampling(t, r) \/ AdhocStart(t, r)
         \/ t \in Deleters \cup AllCleaners /\ UnlinksOne(t)
<1>1. ASSUME t \in Deleters, DeleteTree(t) PROVE FALSE
  BY <1>1 DEF QuotaOk, Tiered, DeleteTree
<1> QED
  BY <1>1, WhoTouchesFiles

(* The lists of a thread after its own step.                               *)
LEMMA ListsStayHigh ==
  ASSUME LockInv, QuotaOk, Tiered, UNCHANGED cast, NEW t \in cast.threads, ThreadNext(t),
         t \in Deleters \cup AllCleaners
  PROVE  ListOk(t)' /\ (t \in Deleters => (at[t] # "idle" => kind[t] \in cast.kinds)')
<1>0. /\ t \in Threads /\ LocalTypeOK /\ ListOk(t)
      /\ t \in Deleters => (at[t] # "idle" => kind[t] \in cast.kinds)
  BY CastFacts DEF LockInv, QuotaOk
<1>1. CASE Return(t)
  BY <1>0, <1>1, AfterReturn DEF ListOk
<1>2. CASE t \in Deleters /\ DeleterNext(t) /\ ~Return(t)
  <2>1. ASSUME NEW k \in cast.kinds, NEW c \in cast.cells, DeleteRequest(t, k, c)
        PROVE  kind'[t] = k /\ snap' = snap
    BY <1>0, <2>1 DEF DeleteRequest, LocalTypeOK
  <2>2. CASE DeleteList(t)
    <3>1. /\ UNCHANGED <<at, kind>> /\ kind[t] \in {"mode", "machine"}
      BY <1>0, <1>2, <2>2 DEF DeleteList, Tiered
    <3>2. PICK c \in todo[t] : snap' = [snap EXCEPT ![t] = {<<c, i>> : i \in Deletable(c)}]
      BY <2>2, <3>1 DEF DeleteList
    <3>3. c \in Cells /\ snap'[t] = {<<c, i>> : i \in Deletable(c)}
      BY <1>0, <3>2 DEF LocalTypeOK
    <3>4. ListOk(t)'
      BY <3>3, DeletableIsHigh DEF ListOk
    <3> QED
      BY <1>0, <1>2, <3>1, <3>4
  <2>3. CASE DeleteUnlink(t)
    <3>1. snap'[t] \subseteq snap[t] /\ UNCHANGED <<at, kind>>
      BY <1>0, <2>3 DEF DeleteUnlink, Unlink, LocalTypeOK
    <3> QED
      BY <1>0, <1>2, <3>1 DEF ListOk
  <2>4. CASE \/ DeleteAcquire(t) \/ DeleteStart(t) \/ DeleteTree(t)
             \/ DeleteDone(t) \/ DeleteRelease(t)
    <3>1. UNCHANGED <<kind, snap>> /\ at[t] # "idle"
      BY <1>2, <2>4 DEF DeleteAcquire, DeleteStart, DeleteTree, DeleteDone, DeleteRelease, locals
    <3> QED
      BY <1>0, <1>2, <3>1 DEF ListOk
  <2> QED
    BY <1>0, <1>2, <2>1, <2>2, <2>3, <2>4 DEF DeleterNext, ListOk
<1>3. CASE t \in AllCleaners /\ CleanerNext(t) /\ ~Return(t)
  <2>0. t \notin Deleters
    BY <1>0, <1>3, OneClass
  <2>1. CASE CleanList(t)
    <3>1. snap'[t] = {f \in OnDisk : f[1] \in todo[t] /\ f[2] \in Deletable(f[1])}
      BY <1>0, <2>1 DEF CleanList, LocalTypeOK
    <3>2. \A f \in snap'[t] : f[1] \in Cells /\ f[2] \in Deletable(f[1])
      BY <3>1 DEF OnDisk
    <3> QED
      BY <2>0, <3>2, DeletableIsHigh DEF ListOk
  <2>2. CASE CleanUnlink(t)
    <3>1. snap'[t] \subseteq snap[t]
      BY <1>0, <2>2 DEF CleanUnlink, Unlink, LocalTypeOK
    <3> QED
      BY <1>0, <2>0, <3>1 DEF ListOk
  <2>3. CASE CleanGate(t) \/ CleanReadInUse(t)
    BY <1>0, <2>0, <2>3 DEF CleanGate, CleanReadInUse, ListOk
  <2> QED
    BY <1>3, <2>1, <2>2, <2>3 DEF CleanerNext, CleanDone
<1> QED
  BY <1>0, <1>1, <1>2, <1>3, OneClass DEF ThreadNext

LEMMA ThreadKeepsQuota ==
  ASSUME LockInv, QuotaOk, Tiered, UNCHANGED cast, NEW t \in cast.threads, ThreadNext(t)
  PROVE  QuotaOk'
<1>0. /\ t \in Threads /\ \A u \in Threads \ {t} : Still(u)
      /\ FileTypeOK /\ LocalTypeOK /\ Keep \in Nat
      /\ Deleters \cup AllCleaners \subseteq Threads
  BY ThreadKeepsLocks, CellOpsAssumption DEF StepOk, LockInv, AllThreads
<1>1. \A d \in Deleters : at'[d] # "idle" => kind'[d] \in cast.kinds
  BY <1>0, ListsStayHigh DEF QuotaOk, Still
<1>2. ASSUME NEW u \in Deleters \cup AllCleaners PROVE ListOk(u)'
  <2>1. CASE u = t
    BY <2>1, ListsStayHigh
  <2>2. CASE u # t
    BY <1>0, <2>2 DEF QuotaOk, ListOk, Still
  <2> QED
    BY <2>1, <2>2
<1>3. /\ \A c \in Cells : \A j \in ChunkIds : j <= Keep /\ j \in Present(c) => j \in Present(c)'
      /\ \A c \in Cells : Present(c)' \subseteq Present(c)
  <2>1. CASE chunks' = chunks
    BY <2>1 DEF Present
  <2>2. CASE t \in Deleters \cup AllCleaners /\ UnlinksOne(t)
    <3>1. PICK f \in snap[t] : Remove({f})
      BY <2>2 DEF UnlinksOne
    <3>2. f \in Cells \X ChunkIds /\ f[2] > Keep
      BY <1>0, <2>2, <3>1 DEF LocalTypeOK, QuotaOk, ListOk
    <3>3. \A c \in Cells : Present(c)' = {i \in Present(c) : <<c, i>> \notin {f}}
      BY <1>0, <3>1, AfterRemove
    <3>4. ASSUME NEW c \in Cells, NEW j \in ChunkIds, j <= Keep, <<c, j>> = f PROVE FALSE
      <4>1. f[2] = j
        BY <3>4
      <4> QED
        BY <1>0, <3>2, <3>4, <4>1, ChunkIdsFinite
    <3> QED
      BY <3>3, <3>4
  <2> QED
    BY <1>0, <2>1, <2>2, TieredThread DEF fileVars, StartSampling, AdhocStart, Spawn
<1>4. Filled'
  BY <1>3 DEF QuotaOk, Filled
<1>5. ASSUME NEW r \in Runs PROVE NumberOk(r)'
  <2>1. proc'[r] = proc[r] \/ proc'[r].st = "seeding"
    <3>1. ASSUME NEW s \in cast.runs, StartSampling(t, s) \/ AdhocStart(t, s)
          PROVE  proc'[r] = proc[r] \/ proc'[r].st = "seeding"
      <4>1. s \in Runs /\ \E how \in {"resume", "from_cache"} : Spawn(t, s, how)
        BY <3>1, CastFacts DEF StartSampling, AdhocStart, LockInv
      <4> QED
        BY <1>0, <4>1 DEF Spawn, FileTypeOK
    <3> QED
      BY <1>0, <3>1, TieredThread DEF fileVars, UnlinksOne
  <2>2. CASE proc'[r].st = "seeding"
    BY <2>2 DEF NumberOk
  <2>3. CASE proc'[r] = proc[r] /\ proc[r].st = "sampling"
    <3>1. proc[r].cell \in Cells
      BY <2>3 DEF LockInv, ProcOk, Live
    <3> QED
      BY <1>3, <2>3, <3>1 DEF QuotaOk, NumberOk
  <2>4. CASE proc'[r] = proc[r] /\ proc[r].st # "sampling"
    BY <2>4 DEF NumberOk
  <2> QED
    BY <2>1, <2>2, <2>3, <2>4
<1> QED
  BY <1>1, <1>2, <1>4, <1>5 DEF QuotaOk

LEMMA AnalyzerKeepsQuota ==
  ASSUME LockInv, QuotaOk, UNCHANGED cast, NEW s \in cast.runs, AnalyzerNext(s)
  PROVE  QuotaOk'
<1>0. /\ s \in Runs /\ ProcOk(s) /\ FileTypeOK /\ CastOK /\ Keep \in Nat /\ ChunkIds \subseteq Int
      /\ UNCHANGED <<at, kind, snap>>
  BY CastFacts, AnalyzerApart, ChunkIdsFinite DEF LockInv
<1>1. /\ \A d \in Deleters : at'[d] # "idle" => kind'[d] \in cast.kinds
      /\ \A t \in Deleters \cup AllCleaners : ListOk(t)'
  BY <1>0 DEF QuotaOk, ListOk
<1>2. CASE Seed(s)
  <2>1. /\ chunks' = chunks /\ proc[s].cell \in Cells
        /\ proc'[s].cell = proc[s].cell /\ proc'[s].next - 1 \in {0} \cup Present(proc[s].cell)
        /\ \A q \in Runs \ {s} : proc'[q] = proc[q]
        /\ proc'[s] \in ProcType
    BY <1>0, <1>2, AfterSeed DEF FileTypeOK
  <2>2. \A c : Present(c)' = Present(c)
    BY <2>1 DEF Present
  <2>3. ASSUME NEW j \in ChunkIds, j <= Keep, j < proc'[s].next PROVE j \in Present(proc[s].cell)
    <3>1. j >= 1 /\ j \in Int /\ proc'[s].next \in Int
      BY <2>1 DEF ChunkIds, ProcType
    <3>2. proc'[s].next - 1 \in Present(proc[s].cell)
      BY <2>1, <2>3, <3>1
    <3>3. j = proc'[s].next - 1 \/ j < proc'[s].next - 1
      BY <2>3, <3>1
    <3> QED
      BY <2>1, <2>3, <3>2, <3>3 DEF QuotaOk, Filled
  <2>4. NumberOk(s)'
    BY <2>1, <2>3 DEF NumberOk, Present
  <2>5. \A r \in Runs \ {s} : NumberOk(r)'
    BY <1>0, <2>1 DEF QuotaOk, NumberOk, Present
  <2>6. Filled'
    BY <2>1 DEF QuotaOk, Filled, Present
  <2> QED
    BY <1>1, <2>4, <2>5, <2>6 DEF QuotaOk
<1>3. CASE Exit(s)
  <2>1. /\ chunks' = chunks /\ proc'[s].st = "exited"
        /\ \A q \in Runs \ {s} : proc'[q] = proc[q]
    BY <1>0, <1>3, AfterExit
  <2>2. \A r \in Runs : NumberOk(r)'
    BY <1>0, <2>1 DEF QuotaOk, NumberOk, Present
  <2>3. Filled'
    BY <2>1 DEF QuotaOk, Filled, Present
  <2> QED
    BY <1>1, <2>2, <2>3 DEF QuotaOk
<1>4. CASE WriteChunk(s)
  <2>1. /\ proc[s].st = "sampling" /\ proc[s].cell \in Cells /\ proc[s].next \in ChunkIds
        /\ proc'[s].cell = proc[s].cell /\ proc'[s].next = proc[s].next + 1
        /\ \A q \in Runs \ {s} : proc'[q] = proc[q]
        /\ \A c \in Cells : Present(c)' = IF c = proc[s].cell THEN Present(c) \cup {proc[s].next}
                                          ELSE Present(c)
    BY <1>0, <1>4, AfterWrite
  <2>2. \A j \in ChunkIds : j <= Keep /\ j < proc[s].next => j \in Present(proc[s].cell)
    BY <1>0, <2>1 DEF QuotaOk, NumberOk
  <2>3. Filled'
    BY <1>0, <2>1, <2>2 DEF QuotaOk, Filled
  <2>4. NumberOk(s)'
    <3>1. ASSUME NEW j \in ChunkIds, j <= Keep, j < proc[s].next + 1
          PROVE  j \in Present(proc[s].cell) \cup {proc[s].next}
      <4>1. j \in Int /\ proc[s].next \in Int
        BY <2>1, ChunkIdsFinite
      <4>2. j = proc[s].next \/ j < proc[s].next
        BY <3>1, <4>1
      <4> QED
        BY <2>2, <3>1, <4>2
    <3> QED
      BY <2>1, <3>1 DEF NumberOk
  <2>5. ASSUME NEW r \in Runs \ {s} PROVE NumberOk(r)'
    <3>1. proc[r].st = "sampling" => proc[r].cell \in Cells
      BY DEF LockInv, ProcOk, Live
    <3>2. NumberOk(r) /\ proc'[r] = proc[r]
      BY <2>1 DEF QuotaOk
    <3> QED
      BY <2>1, <3>1, <3>2 DEF NumberOk
  <2> QED
    BY <1>1, <2>3, <2>4, <2>5 DEF QuotaOk
<1> QED
  BY <1>2, <1>3, <1>4 DEF AnalyzerNext

LEMMA QuotaStep == LockInv /\ QuotaInv /\ [Next]_vars => QuotaInv'
<1> SUFFICES ASSUME LockInv, QuotaInv, [Next]_vars, Tiered'
             PROVE  QuotaOk'
  BY DEF QuotaInv
<1>1. cast' = cast /\ Tiered /\ QuotaOk
  BY DEF vars, Next, Tiered, QuotaInv
<1>2. CASE UNCHANGED vars
  BY <1>1, <1>2 DEF vars, fileVars, QuotaOk, ListOk, Filled, NumberOk, Present
<1> QED
  BY <1>1, <1>2, ThreadKeepsQuota, AnalyzerKeepsQuota DEF Next

LEMMA QuotaInit == Init => QuotaInv
<1> SUFFICES ASSUME Init, Tiered PROVE QuotaOk
  BY DEF QuotaInv
<1>1. (\A t \in Threads : at[t] = "idle" /\ snap[t] = {}) /\ \A r \in Runs : proc[r].st = "none"
  BY DEF Init, NoProc
<1>2. Deleters \cup AllCleaners \subseteq Threads
  BY CellOpsAssumption DEF AllThreads
<1>3. Filled
  <2>1. PICK n \in [cast.cells -> 0 .. cast.chunks] :
            /\ dirs = {c \in cast.cells : n[c] > 0}
            /\ chunks = [c \in Cells |-> [i \in ChunkIds |->
                             IF c \in dirs /\ i <= n[c] THEN Past ELSE Absent]]
    BY DEF Init
  <2>2. Past # Absent /\ ChunkIds \subseteq Int
    BY CellOpsAssumption, ChunkIdsFinite
  <2>3. \A c \in Cells, i \in ChunkIds : i \in Present(c) <=> c \in dirs /\ i <= n[c]
    BY <2>1, <2>2 DEF Present
  <2>4. \A c \in dirs : n[c] \in Int
    BY <2>1
  <2>5. \A c \in Cells : Present(c) \subseteq ChunkIds
    BY DEF Present
  <2>6. ASSUME NEW c \in Cells, NEW i \in Present(c), NEW j \in ChunkIds, j < i
        PROVE  j \in Present(c)
    <3>1. i \in ChunkIds /\ c \in dirs /\ i <= n[c] /\ n[c] \in Int
      BY <2>3, <2>4, <2>5
    <3>2. j <= n[c]
      BY <2>2, <2>6, <3>1
    <3> QED
      BY <2>3, <3>1, <3>2
  <2> QED
    BY <2>6 DEF Filled
<1> QED
  BY <1>1, <1>2, <1>3 DEF QuotaOk, ListOk, NumberOk

(* No tiered delete and no cleanup takes a cell below its quota, although  *)
(* each works through a list made earlier while analyzers write            *)
(* (_classify_chunks, delete_rawdata, _auto_cleanup_for_space).            *)
THEOREM QuotaKept == Spec => RetentionQuota
<1> DEFINE Leaves == cast.kinds \subseteq {"mode", "machine"} =>
               \A c \in Cells : Present(c) \ Present(c)' # {} => Cardinality(Present(c)') >= Keep
<1>1. LockInv /\ LockInv' /\ QuotaInv /\ QuotaInv' /\ [Next]_vars => [Leaves]_vars
  <2> SUFFICES ASSUME LockInv, QuotaOk, QuotaOk', Next, Tiered, NEW c \in Cells,
                      Present(c) \ Present(c)' # {}
               PROVE  Cardinality(Present(c)') >= Keep
    BY DEF QuotaInv, Tiered, Next
  <2>1. PICK i \in ChunkIds : i \in Present(c) /\ i \notin Present(c)'
    BY DEF Present
  <2>2. CastOK /\ FileTypeOK /\ LocalTypeOK /\ Keep \in Nat /\ MaxChunk \in Nat
    BY CellOpsAssumption DEF LockInv
  <2>3. ASSUME NEW t \in Threads, t \in Deleters \cup AllCleaners, UnlinksOne(t)
        PROVE  Cardinality(Present(c)') >= Keep
    <3>1. PICK f \in snap[t] : Remove({f})
      BY <2>3 DEF UnlinksOne
    <3>2. Present(c)' = {j \in Present(c) : <<c, j>> \notin {f}}
      BY <2>2, <3>1, AfterRemove
    <3>3. f = <<c, i>> /\ i > Keep
      BY <2>1, <2>3, <3>1, <3>2 DEF QuotaOk, ListOk
    <3>4. \A j \in 1 .. Keep : j \in ChunkIds /\ j < i
      BY <2>2, <3>3 DEF ChunkIds
    <3>5. \A j \in 1 .. Keep : j \in Present(c)
      BY <2>1, <2>2, <3>4 DEF QuotaOk, Filled
    <3>6. \A j \in 1 .. Keep : j \in Present(c)'
      BY <3>2, <3>3, <3>4, <3>5, <2>2
    <3>7. Present(c)' \in SUBSET ChunkIds
      BY <3>2 DEF Present
    <3> QED
      BY <3>6, <3>7, QuotaCounted
  <2>4. CASE \E t \in cast.threads : ThreadNext(t)
    <3>1. PICK t \in cast.threads : ThreadNext(t)
      BY <2>4
    <3>2. t \in Threads /\ chunks' # chunks
      BY <2>1, <2>2, CastFacts DEF Present
    <3> QED
      BY <2>3, <3>1, <3>2, TieredThread DEF fileVars, StartSampling, AdhocStart, Spawn
  <2>5. ASSUME NEW s \in cast.runs, AnalyzerNext(s) PROVE FALSE
    <3>1. s \in Runs /\ ProcOk(s)
      BY <2>2, CastFacts DEF LockInv
    <3>2. CASE Seed(s) \/ Exit(s)
      BY <2>1, <3>2 DEF Seed, Exit, Present
    <3>3. CASE WriteChunk(s)
      BY <2>1, <2>2, <3>1, <3>3, AfterWrite
    <3> QED
      BY <2>5, <3>2, <3>3 DEF AnalyzerNext
  <2> QED
    BY <2>4, <2>5 DEF Next
<1> QED
  BY <1>1, LockInit, LockStep, QuotaInit, QuotaStep, PTL DEF Spec, RetentionQuota
-----------------------------------------------------------------------------
(* The report store of a cell (ReportIndex), for any versions, producers   *)
(* and maintenance calls.  StoreInv is inductive: where each producer is   *)
(* determines its directory and row (PlacesOk); nothing is listed before   *)
(* its summary was written (ListedOk); what a call holding DELETING wrote  *)
(* aside is still so (NoneBeside, GuardHolds); an entry without its report *)
(* is owed by a call that will drop it (RemovedOk, EntriesTell).           *)

(* The entries index.json and latest.json hold.                            *)
StoreEntries == [rv : Versions, sf : Versions, created : 0..MaxClock]
MaintFields == {"pc", "of", "one", "idx", "full"}
MaintPcs(p) ==
    CASE p \in {"delete_version", "delete_run"} -> {"idle", "read", "write", "latest"}
      [] p = "cleanup"   -> {"idle", "remove", "read", "write", "latest"}
      [] p = "tag"       -> {"idle", "write"}
      [] p = "prune"     -> {"idle", "check", "remove", "write"}
      [] p = "reconcile" -> {"idle", "read", "scan", "write"}
      [] p = "wipe"      -> {"idle", "tree", "dirs", "files"}

CallOk(p) ==
    /\ DOMAIN m[p] = MaintFields
    /\ m[p].pc \in MaintPcs(p)
    /\ m[p].of \subseteq Versions /\ m[p].full \subseteq Versions
    /\ m[p].idx \in Seq(StoreEntries)
OnesOk ==
    /\ \A p \in {"delete_version", "delete_run", "cleanup"} :
          m[p].pc \in {"read", "write", "latest"} => m[p].of # {}
    /\ m["cleanup"].pc # "idle" => m["cleanup"].one \in Versions
    /\ m["prune"].pc \in {"check", "remove"} => m["prune"].one \in {None, "deleted"}
    /\ m["prune"].pc = "remove" => m["prune"].of # {}
    /\ m["prune"].pc = "write" => m["prune"].one \in 0..MaxClock
    /\ m["reconcile"].pc = "write" => m["reconcile"].one \in Seq(StoreEntries)
CallsOk ==
    /\ DOMAIN m = Maint
    /\ \A p \in Maint : CallOk(p)
    /\ OnesOk
FilesOk ==
    /\ dir \in [Versions -> {"none", "partial", "full"}]
    /\ row \in [Versions -> {"none", "active", "done", "failed"}]
    /\ index \in Seq(StoreEntries) /\ read \in Seq(StoreEntries)
    /\ latest = None \/ latest \in StoreEntries
    /\ lock \in Versions \cup {None}
    /\ pc \in [Versions -> {"new", "begun", "running", "built", "locked", "end", "failed"}]
    /\ stamp \in [Versions -> 0..MaxClock]
    /\ clock \in 0..MaxClock /\ exposed \subseteq Versions

(* Where a version's directory and row are while its producer is at each   *)
(* point.                                                                  *)
PlacesOk ==
    /\ \A v \in Versions :
         /\ pc[v] = "new" => dir[v] = "none" /\ row[v] = "none"
         /\ pc[v] = "begun" => dir[v] # "full" /\ (Origin[v] = "import" => dir[v] = "none")
         /\ pc[v] = "running" => dir[v] # "full"
         /\ pc[v] \in {"built", "locked"} =>
                dir[v] = "full" \/ v \in exposed
         /\ pc[v] = "locked" <=> lock = v
    /\ lock = None => read = <<>>

Listed(v) ==
    \/ v \in Rvs(index) \/ v \in Rvs(read)
    \/ \E p \in Maint : v \in Rvs(m[p].idx) \/ v \in m[p].full
    \/ m["reconcile"].pc = "write" /\ v \in Rvs(m["reconcile"].one)
ListedOk == \A v \in Versions : Listed(v) =>
    /\ pc[v] \in {"built", "locked", "end", "failed"}
    /\ dir[v] = "partial" => v \in exposed

EndedListed == \A v \in Versions \ exposed : dir[v] = "full" =>
    /\ pc[v] = "end" => v \in Rvs(index)
    /\ v \in Rvs(index) /\ lock # None => v \in Rvs(read)

Deleting == {"delete_version", "tag"}
NoneBeside == \A p \in Deleting : m[p].pc # "idle" =>
    \A v \in Versions : pc[v] \in {"new", "end", "failed"} \/ Origin[v] = "import"
GuardHolds == \A p \in Deleting : m[p].pc \in {"write", "latest"} =>
    \A v \in Guarded(p) \ exposed : v \in Rvs(m[p].idx) /\ v \in Rvs(index)

Removers == {"delete_version", "delete_run", "cleanup"}
RemovedOk == \A p \in Removers : m[p].pc # "idle" =>
    \A v \in m[p].of \ exposed :
        pc[v] \in {"end", "failed"} /\ (m[p].pc # "remove" => dir[v] # "full")

Owed(v) ==
    \/ \E p \in Removers : m[p].pc \in {"read", "write"} /\ v \in m[p].of
    \/ m["prune"].pc \in {"check", "remove"} /\ m["prune"].one # None
    \/ m["prune"].pc = "write"
    \/ m["wipe"].pc = "files"
EntriesTell == \A v \in Versions \ exposed :
    v \in Rvs(index) \/ v \in Rvs(read) => dir[v] = "full" \/ Owed(v)

RepairOk == m["reconcile"].pc = "write" =>
    /\ m["reconcile"].full \subseteq Rvs(m["reconcile"].one)
    /\ Rvs(m["reconcile"].one) \subseteq
          Rvs(m["reconcile"].idx) \cup m["reconcile"].full
    /\ \A v \in Rvs(m["reconcile"].one) :
          dir[v] # "none" => v \in m["reconcile"].of \cup m["reconcile"].full

Names(l, s) == IF l = None THEN s = <<>> ELSE l.rv \in Rvs(s)
LatestTells == exposed = {} =>
    \/ Names(latest, index)
    \/ m["delete_version"].pc = "latest" /\ latest # None
         /\ latest.rv \in m["delete_version"].of
    \/ m["delete_run"].pc = "latest"
    \/ m["cleanup"].pc = "latest" /\ latest # None

StoreInv ==
    /\ FilesOk /\ CallsOk /\ PlacesOk /\ ListedOk
    /\ EndedListed /\ NoneBeside /\ GuardHolds /\ RemovedOk
    /\ EntriesTell /\ RepairOk /\ LatestTells
-----------------------------------------------------------------------------
(* Numbers, lists and what the list operators do to the versions listed.   *)
LEMMA LeastNatural ==
    ASSUME NEW S \in SUBSET Nat, S # {}
    PROVE  \E x \in S : \A y \in S : x <= y
<1> DEFINE R == {ss \in Nat \X Nat : ss[1] < ss[2]}
<1>1. PICK x \in S : \A y \in S : ~(<<y, x>> \in R)
  BY WFMin, NatLessThanWellFounded DEF OpToRel
<1>2. \A y \in S : ~(y < x)
  BY <1>1
<1> QED BY <1>1, <1>2

LEMMA FiniteMax ==
    ASSUME NEW S \in SUBSET Nat, IsFiniteSet(S), S # {}
    PROVE  Max(S) \in S /\ \A y \in S : y <= Max(S)
<1> DEFINE Topped(T) == \E x \in T : \A y \in T : y <= x
           Bad == {k \in Nat : \E T \in SUBSET Nat :
                     IsFiniteSet(T) /\ T # {} /\ Cardinality(T) = k /\ ~Topped(T)}
<1>1. SUFFICES Topped(S)
  BY DEF Max
<1>2. SUFFICES ASSUME ~Topped(S) PROVE FALSE
  OBVIOUS
<1> HIDE DEF Topped
<1>3. Cardinality(S) \in Bad /\ Bad \in SUBSET Nat
  BY <1>2, FS_CardinalityType
<1> HIDE DEF Bad
<1>4. PICK k \in Bad : \A j \in Bad : k <= j
  BY <1>3, LeastNatural
<1>5. PICK T \in SUBSET Nat :
          IsFiniteSet(T) /\ T # {} /\ Cardinality(T) = k /\ ~Topped(T)
  BY <1>4 DEF Bad
<1>6. PICK x \in T : TRUE
  BY <1>5
<1>7. IsFiniteSet(T \ {x}) /\ Cardinality(T \ {x}) = k - 1 /\ k - 1 \in Nat
  <2>1. IsFiniteSet(T \ {x}) /\ Cardinality(T \ {x}) = k - 1
    BY <1>5, <1>6, FS_RemoveElement
  <2> QED BY <2>1, FS_CardinalityType
<1>8. T \ {x} = {} \/ Topped(T \ {x})
  BY <1>4, <1>7 DEF Bad
<1>9. Topped(T)
  <2>1. CASE T \ {x} = {}
    BY <2>1, <1>6 DEF Topped
  <2>2. CASE Topped(T \ {x})
    <3>1. PICK z \in T \ {x} : \A y \in T \ {x} : y <= z
      BY <2>2 DEF Topped
    <3> QED BY <3>1, <1>6 DEF Topped
  <2> QED BY <2>1, <2>2, <1>8
<1> QED BY <1>5, <1>9

(* The ranks of n numbers are 1 to n.                                      *)
LEMMA RanksReached ==
    ASSUME NEW S \in SUBSET Nat, IsFiniteSet(S), NEW i \in 1..Cardinality(S)
    PROVE  Nth(S, i) \in S /\ Cardinality({y \in S : y <= Nth(S, i)}) = i
<1> DEFINE Rank(T, x) == Cardinality({y \in T : y <= x})
           Ranked(T) == \A j \in 1..Cardinality(T) : \E x \in T : Rank(T, x) = j
           Bad == {k \in Nat : \E T \in SUBSET Nat :
                     IsFiniteSet(T) /\ Cardinality(T) = k /\ ~Ranked(T)}
<1>1. SUFFICES Ranked(S)
  BY DEF Nth
<1>2. SUFFICES ASSUME ~Ranked(S) PROVE FALSE
  OBVIOUS
<1> HIDE DEF Ranked
<1>3. Cardinality(S) \in Bad /\ Bad \in SUBSET Nat
  BY <1>2, FS_CardinalityType
<1> HIDE DEF Bad
<1>4. PICK k \in Bad : \A j \in Bad : k <= j
  BY <1>3, LeastNatural
<1>5. PICK T \in SUBSET Nat : IsFiniteSet(T) /\ Cardinality(T) = k /\ ~Ranked(T)
  BY <1>4 DEF Bad
<1>6. k \in Nat
  BY <1>3, <1>4
<1>7. T # {}
  BY <1>5, FS_EmptySet DEF Ranked
<1> DEFINE z == Max(T)
           U == T \ {z}
<1>8. z \in T /\ \A y \in T : y <= z
  BY <1>5, <1>7, FiniteMax
<1>9. IsFiniteSet(U) /\ Cardinality(U) = k - 1 /\ k - 1 \in Nat /\ U \in SUBSET Nat
  <2>1. IsFiniteSet(U) /\ Cardinality(U) = k - 1
    BY <1>5, <1>8, FS_RemoveElement
  <2> QED BY <2>1, FS_CardinalityType
<1>10. Ranked(U)
  BY <1>4, <1>9, <1>6 DEF Bad
<1> HIDE DEF z
<1>11. Rank(T, z) = k
  <2>1. {y \in T : y <= z} = T
    BY <1>8
  <2> QED BY <2>1, <1>5
<1>12. ASSUME NEW x \in U PROVE Rank(T, x) = Rank(U, x)
  <2>1. {y \in T : y <= x} = {y \in U : y <= x}
    BY <1>8, <1>9
  <2> QED BY <2>1
<1>13. Ranked(T)
  <2> SUFFICES ASSUME NEW j \in 1..k PROVE \E x \in T : Rank(T, x) = j
    BY <1>5 DEF Ranked
  <2>1. CASE j = k
    BY <2>1, <1>11, <1>8
  <2>2. CASE j # k
    <3>1. j \in 1..Cardinality(U)
      BY <2>2, <1>9, <1>6
    <3>2. PICK x \in U : Rank(U, x) = j
      BY <3>1, <1>10 DEF Ranked
    <3> QED BY <3>2, <1>12
  <2> QED BY <2>1, <2>2
<1> QED BY <1>5, <1>13

LEMMA RanksDiffer ==
    ASSUME NEW S \in SUBSET Nat, IsFiniteSet(S), NEW x \in S
    PROVE  \E i \in 1..Cardinality(S) : Nth(S, i) = x
<1> DEFINE Upto(y) == {z \in S : z <= y}
           i == Cardinality(Upto(x))
<1>1. \A y \in S : IsFiniteSet(Upto(y)) /\ Upto(y) \subseteq S
  BY FS_Subset
<1>2. i \in Nat /\ i <= Cardinality(S) /\ Cardinality(S) \in Nat
  BY <1>1, FS_Subset, FS_CardinalityType
<1>3. i # 0
  <2>1. x \in Upto(x)
    OBVIOUS
  <2> QED BY <2>1, <1>1, FS_EmptySet
<1>4. i \in 1..Cardinality(S)
  BY <1>2, <1>3
<1> DEFINE w == Nth(S, i)
<1>5. w \in S /\ Cardinality(Upto(w)) = i
  BY <1>4, RanksReached
<1> HIDE DEF w, i
<1>6. \A a, b \in S : a < b => Cardinality(Upto(a)) # Cardinality(Upto(b))
  <2> SUFFICES ASSUME NEW a \in S, NEW b \in S, a < b,
                      Cardinality(Upto(a)) = Cardinality(Upto(b))
               PROVE  FALSE
    OBVIOUS
  <2>1. a \in Nat /\ b \in Nat /\ \A z \in S : z \in Nat
    OBVIOUS
  <2>2. Upto(a) \in SUBSET Upto(b)
    <3>1. \A z \in S : z <= a => z <= b
      BY <2>1
    <3> QED BY <3>1
  <2>3. b \in Upto(b) /\ b \notin Upto(a)
    <3>1. b <= b /\ ~(b <= a)
      BY <2>1
    <3> QED BY <3>1
  <2>4. Upto(a) = Upto(b)
    BY <2>2, <1>1, FS_Subset
  <2> QED BY <2>3, <2>4
<1>7. w = x
  BY <1>5, <1>6 DEF i
<1> QED BY <1>4, <1>7 DEF w

LEMMA WithoutLists ==
    ASSUME NEW s \in Seq(StoreEntries), NEW vs
    PROVE  Without(s, vs) \in Seq(StoreEntries) /\ Rvs(Without(s, vs)) = Rvs(s) \ vs
<1> DEFINE kept == {i \in DOMAIN s : s[i].rv \notin vs}
           k == Cardinality(kept)
           ws == Without(s, vs)
<1>1. DOMAIN s = 1..Len(s) /\ Len(s) \in Nat /\ \A i \in DOMAIN s : s[i] \in StoreEntries
  OBVIOUS
<1>2. kept \in SUBSET Nat /\ IsFiniteSet(kept) /\ k \in Nat
  <2>1. IsFiniteSet(1..Len(s)) /\ kept \in SUBSET (1..Len(s))
    BY <1>1, FS_Interval
  <2>2. IsFiniteSet(kept)
    BY <2>1, FS_Subset
  <2> HIDE DEF kept
  <2> QED BY <2>1, <2>2, FS_CardinalityType
<1>3. ws = [i \in 1..k |-> s[Nth(kept, i)]]
  BY DEF Without
<1>4. kept \subseteq DOMAIN s /\ \A i \in kept : s[i].rv \notin vs
  OBVIOUS
<1>5. \A i \in DOMAIN s : i \in kept \/ s[i].rv \in vs
  OBVIOUS
<1> HIDE DEF kept, ws
<1>6. \A i \in 1..k : Nth(kept, i) \in kept
  BY <1>2, RanksReached
<1>7. \A j \in kept : \E i \in 1..k : Nth(kept, i) = j
  BY <1>2, RanksDiffer
<1> HIDE DEF k
<1>8. ws \in Seq(StoreEntries) /\ DOMAIN ws = 1..k
  <2>1. ws \in [1..k -> StoreEntries]
    BY <1>1, <1>3, <1>4, <1>6
  <2> QED BY <2>1, <1>2
<1>9. Rvs(ws) = Rvs(s) \ vs
  BY <1>3, <1>4, <1>5, <1>6, <1>7, <1>8 DEF Rvs
<1> QED BY <1>8, <1>9 DEF ws

LEMMA EntriesList ==
    ASSUME NEW vs \in SUBSET Versions, NEW t \in 0..MaxClock
    PROVE  Entries(vs, t) \in Seq(StoreEntries) /\ Rvs(Entries(vs, t)) = vs
<1> DEFINE k == Cardinality(vs)
           es == Entries(vs, t)
<1>1. vs \in SUBSET Nat /\ IsFiniteSet(vs) /\ k \in Nat
  BY StoreAssumption, FS_Subset, FS_CardinalityType
<1>2. \A i \in 1..k : Nth(vs, i) \in vs
  BY <1>1, RanksReached
<1>3. \A j \in vs : \E i \in 1..k : Nth(vs, i) = j
  BY <1>1, RanksDiffer
<1>4. es = [i \in 1..k |-> [rv |-> Nth(vs, i), sf |-> Nth(vs, i), created |-> t]]
  BY DEF Entries, Entry
<1> HIDE DEF k, es
<1>5. es \in Seq(StoreEntries)
  <2>1. \A i \in 1..k : Nth(vs, i) \in Versions
    BY <1>2
  <2>2. \A v \in Versions : [rv |-> v, sf |-> v, created |-> t] \in StoreEntries
    BY DEF StoreEntries
  <2>3. es \in [1..k -> StoreEntries]
    BY <2>1, <2>2, <1>4
  <2> QED BY <2>3, <1>1
<1>6. Rvs(es) = vs
  BY <1>2, <1>3, <1>4 DEF Rvs
<1> QED BY <1>5, <1>6 DEF es

LEMMA ListsJoin ==
    ASSUME NEW s \in Seq(StoreEntries), NEW u \in Seq(StoreEntries)
    PROVE  s \o u \in Seq(StoreEntries) /\ Rvs(s \o u) = Rvs(s) \cup Rvs(u)
<1>1. s \o u \in Seq(StoreEntries) /\ DOMAIN s = 1..Len(s) /\ DOMAIN u = 1..Len(u)
        /\ DOMAIN (s \o u) = 1..(Len(s) + Len(u)) /\ Len(s) \in Nat /\ Len(u) \in Nat
  OBVIOUS
<1>2. \A i \in 1..Len(s) : (s \o u)[i] = s[i]
  OBVIOUS
<1>3. \A i \in 1..Len(u) : (s \o u)[Len(s) + i] = u[i]
  OBVIOUS
<1>4. \A i \in 1..(Len(s) + Len(u)) :
          i \in 1..Len(s) \/ \E j \in 1..Len(u) : i = Len(s) + j
  <2> SUFFICES ASSUME NEW i \in 1..(Len(s) + Len(u)), i \notin 1..Len(s)
               PROVE  \E j \in 1..Len(u) : i = Len(s) + j
    OBVIOUS
  <2>1. i - Len(s) \in 1..Len(u) /\ i = Len(s) + (i - Len(s))
    BY <1>1
  <2> QED BY <2>1
<1>5. Rvs(s) \cup Rvs(u) \subseteq Rvs(s \o u)
  <2>1. \A i \in 1..Len(s) : i \in 1..(Len(s) + Len(u))
    BY <1>1
  <2>2. \A j \in 1..Len(u) : Len(s) + j \in 1..(Len(s) + Len(u))
    BY <1>1
  <2>3. Rvs(s) \subseteq Rvs(s \o u)
    BY <2>1, <1>1, <1>2 DEF Rvs
  <2>4. Rvs(u) \subseteq Rvs(s \o u)
    BY <2>2, <1>1, <1>3 DEF Rvs
  <2> QED BY <2>3, <2>4
<1>6. Rvs(s \o u) \subseteq Rvs(s) \cup Rvs(u)
  BY <1>1, <1>2, <1>3, <1>4 DEF Rvs
<1> QED BY <1>1, <1>5, <1>6

LEMMA AppendLists ==
    ASSUME NEW s \in Seq(StoreEntries), NEW v \in Versions, NEW t \in 0..MaxClock
    PROVE  /\ Append(s, Entry(v, t)) \in Seq(StoreEntries)
           /\ Rvs(Append(s, Entry(v, t))) = Rvs(s) \cup {v}
<1> DEFINE e == Entry(v, t)
           a == Append(s, e)
<1>1. e \in StoreEntries /\ e.rv = v
  BY DEF Entry, StoreEntries
<1> HIDE DEF e
<1>2. a \in Seq(StoreEntries) /\ DOMAIN a = 1..(Len(s) + 1) /\ DOMAIN s = 1..Len(s)
        /\ Len(s) \in Nat /\ a[Len(s) + 1] = e /\ \A i \in 1..Len(s) : a[i] = s[i]
  BY <1>1
<1> HIDE DEF a
<1>3. \A i \in 1..(Len(s) + 1) : i \in 1..Len(s) \/ i = Len(s) + 1
  BY <1>2
<1>4. Rvs(a) = Rvs(s) \cup {v}
  BY <1>1, <1>2, <1>3 DEF Rvs
<1> QED BY <1>2, <1>4 DEF a, e

LEMMA ListedAreVersions ==
    ASSUME NEW s \in Seq(StoreEntries)
    PROVE  /\ Rvs(s) \subseteq Versions
           /\ Rvs(s) = {} <=> s = <<>>
           /\ Rvs(<<>>) = {}
<1>1. DOMAIN s = 1..Len(s) /\ Len(s) \in Nat /\ \A i \in DOMAIN s : s[i] \in StoreEntries
  OBVIOUS
<1>2. Rvs(s) \subseteq Versions
  BY <1>1 DEF Rvs, StoreEntries
<1>3. s # <<>> => 1 \in DOMAIN s
  BY <1>1
<1>4. Rvs(<<>>) = {}
  BY DEF Rvs
<1>5. s # <<>> => s[1].rv \in Rvs(s)
  BY <1>3 DEF Rvs
<1> QED BY <1>2, <1>4, <1>5

(* The positions with the highest value of a bounded field.                *)
LEMMA HighestField ==
    ASSUME NEW I \in SUBSET Nat, I # {}, NEW f, NEW T \in SUBSET Nat, IsFiniteSet(T),
           \A i \in I : f[i] \in T
    PROVE  \E i \in I : \A j \in I : f[j] <= f[i]
<1> DEFINE C == {f[i] : i \in I}
<1>1. C \in SUBSET Nat /\ C # {} /\ IsFiniteSet(C)
  <2>1. C \in SUBSET T /\ C # {}
    OBVIOUS
  <2> QED BY <2>1, FS_Subset
<1>2. Max(C) \in C /\ \A c \in C : c <= Max(C)
  BY <1>1, FiniteMax
<1>3. PICK i \in I : f[i] = Max(C)
  BY <1>2
<1>4. \A j \in I : f[j] \in C
  OBVIOUS
<1> QED BY <1>2, <1>3, <1>4

LEMMA ListFields ==
    ASSUME NEW s \in Seq(StoreEntries), s # <<>>
    PROVE  /\ DOMAIN s \in SUBSET Nat /\ DOMAIN s # {} /\ IsFiniteSet(DOMAIN s)
           /\ \A i \in DOMAIN s : s[i] \in StoreEntries /\ s[i].rv \in Rvs(s)
           /\ \A i \in DOMAIN s : s[i].created \in 0..MaxClock /\ s[i].rv \in Versions
           /\ 0..MaxClock \in SUBSET Nat /\ IsFiniteSet(0..MaxClock)
           /\ Versions \in SUBSET Nat /\ IsFiniteSet(Versions)
<1>1. DOMAIN s = 1..Len(s) /\ Len(s) \in Nat /\ \A i \in DOMAIN s : s[i] \in StoreEntries
  OBVIOUS
<1>2. IsFiniteSet(1..Len(s)) /\ IsFiniteSet(0..MaxClock)
  <2>1. Len(s) \in Int /\ MaxClock \in Int /\ 0 \in Int /\ 1 \in Int
    BY <1>1, StoreAssumption
  <2> QED BY <2>1, FS_Interval
<1>3. DOMAIN s # {}
  <2>1. 1 \in DOMAIN s
    BY <1>1
  <2> QED BY <2>1
<1>4. \A i \in DOMAIN s : s[i].rv \in Rvs(s)
  BY DEF Rvs
<1>5. \A i \in DOMAIN s : s[i].created \in 0..MaxClock /\ s[i].rv \in Versions
  BY <1>1 DEF StoreEntries
<1> QED BY <1>1, <1>2, <1>3, <1>4, <1>5, StoreAssumption

(* Each of the four choices of a newest entry returns one of the list.     *)
LEMMA NewestListed ==
    ASSUME NEW s \in Seq(StoreEntries)
    PROVE  IF s = <<>> THEN Newest(s) = None
           ELSE Newest(s) \in StoreEntries /\ Newest(s).rv \in Rvs(s)
<1>1. CASE s = <<>>
  BY <1>1 DEF Newest
<1>2. CASE s # <<>>
  <2> DEFINE P(i) == \A j \in DOMAIN s :
                s[j].created < s[i].created \/ (s[j].created = s[i].created /\ j <= i)
  <2>1. PICK i \in DOMAIN s : P(i)
    <3> DEFINE f == [j \in DOMAIN s |-> s[j].created]
    <3>1. PICK h \in DOMAIN s : \A j \in DOMAIN s : f[j] <= f[h]
      <4>1. \A j \in DOMAIN s : f[j] \in 0..MaxClock
        BY <1>2, ListFields
      <4> HIDE DEF f
      <4> QED BY <4>1, <1>2, ListFields, HighestField
    <3> DEFINE I == {j \in DOMAIN s : s[j].created = s[h].created}
    <3>2. I \in SUBSET Nat /\ I # {} /\ IsFiniteSet(I)
      <4>1. I \in SUBSET DOMAIN s /\ h \in I
        OBVIOUS
      <4> HIDE DEF I
      <4> QED BY <4>1, <1>2, ListFields, FS_Subset
    <3>3. Max(I) \in I /\ \A j \in I : j <= Max(I)
      BY <3>2, FiniteMax
    <3>4. \A j \in DOMAIN s : s[j].created \in Nat /\ s[j].created <= s[h].created
      BY <3>1, <1>2, ListFields
    <3>5. \A j \in DOMAIN s : s[j].created < s[h].created \/ s[j].created = s[h].created
      BY <3>4
    <3> QED BY <3>3, <3>5
  <2>2. Newest(s) = s[CHOOSE k \in DOMAIN s : P(k)]
    BY <1>2 DEF Newest
  <2> HIDE DEF P
  <2>3. (CHOOSE k \in DOMAIN s : P(k)) \in DOMAIN s
    BY <2>1
  <2> QED BY <2>2, <2>3, <1>2, ListFields
<1> QED BY <1>1, <1>2

LEMMA NewestByNameListed ==
    ASSUME NEW s \in Seq(StoreEntries)
    PROVE  IF s = <<>> THEN NewestByName(s) = None
           ELSE NewestByName(s) \in StoreEntries /\ NewestByName(s).rv \in Rvs(s)
<1>1. CASE s = <<>>
  BY <1>1 DEF NewestByName
<1>2. CASE s # <<>>
  <2> DEFINE P(i) == \A j \in DOMAIN s :
              \/ s[j].created < s[i].created
              \/ s[j].created = s[i].created /\ s[j].rv < s[i].rv
              \/ s[j].created = s[i].created /\ s[j].rv = s[i].rv /\ j <= i
  <2>1. PICK i \in DOMAIN s : P(i)
    <3> DEFINE f == [j \in DOMAIN s |-> s[j].created]
               g == [j \in DOMAIN s |-> s[j].rv]
    <3>1. PICK h \in DOMAIN s : \A j \in DOMAIN s : f[j] <= f[h]
      <4>1. \A j \in DOMAIN s : f[j] \in 0..MaxClock
        BY <1>2, ListFields
      <4> HIDE DEF f
      <4> QED BY <4>1, <1>2, ListFields, HighestField
    <3> DEFINE I == {j \in DOMAIN s : s[j].created = s[h].created}
    <3>2. I \in SUBSET DOMAIN s /\ h \in I
      OBVIOUS
    <3>3. PICK l \in I : \A j \in I : g[j] <= g[l]
      <4>1. \A j \in I : g[j] \in Versions
        BY <1>2, ListFields
      <4>2. I \in SUBSET Nat /\ I # {}
        BY <3>2, <1>2, ListFields
      <4> HIDE DEF g, I
      <4> QED BY <4>1, <4>2, <1>2, ListFields, HighestField
    <3> DEFINE J == {j \in I : s[j].rv = s[l].rv}
    <3>4. J \in SUBSET Nat /\ J # {} /\ IsFiniteSet(J)
      <4>1. J \in SUBSET DOMAIN s /\ l \in J
        BY <3>2
      <4> HIDE DEF J
      <4> QED BY <4>1, <1>2, ListFields, FS_Subset
    <3>5. Max(J) \in J /\ \A j \in J : j <= Max(J)
      BY <3>4, FiniteMax
    <3>6. \A j \in DOMAIN s : s[j].created \in Nat /\ s[j].created <= s[h].created
      BY <3>1, <1>2, ListFields
    <3>7. \A j \in DOMAIN s : s[j].created < s[h].created \/ j \in I
      BY <3>6
    <3>8. \A j \in I : s[j].rv \in Nat /\ s[j].rv <= s[l].rv
      BY <3>3, <1>2, ListFields
    <3>9. \A j \in I : s[j].rv < s[l].rv \/ j \in J
      BY <3>8
    <3> DEFINE i == Max(J)
    <3>10. i \in DOMAIN s /\ s[i].rv = s[l].rv /\ s[i].created = s[h].created
      BY <3>5
    <3> HIDE DEF i
    <3>11. \A j \in J : s[j].created = s[h].created /\ s[j].rv = s[l].rv /\ j <= i
      BY <3>5 DEF i
    <3>12. \A j \in I : s[j].created = s[h].created
      OBVIOUS
    <3> HIDE DEF I, J
    <3>13. P(i)
      BY <3>7, <3>9, <3>10, <3>11, <3>12
    <3> QED BY <3>10, <3>13
  <2>2. NewestByName(s) = s[CHOOSE k \in DOMAIN s : P(k)]
    BY <1>2 DEF NewestByName
  <2> HIDE DEF P
  <2>3. (CHOOSE k \in DOMAIN s : P(k)) \in DOMAIN s
    BY <2>1
  <2> QED BY <2>2, <2>3, <1>2, ListFields
<1> QED BY <1>1, <1>2

LEMMA HighestNameListed ==
    ASSUME NEW s \in Seq(StoreEntries), s # <<>>
    PROVE  LET top == CHOOSE i \in DOMAIN s : \A j \in DOMAIN s :
                         s[j].rv < s[i].rv \/ (s[j].rv = s[i].rv /\ i <= j)
           IN s[top] \in StoreEntries /\ s[top].rv \in Rvs(s)
<1> DEFINE P(i) == \A j \in DOMAIN s :
                       s[j].rv < s[i].rv \/ (s[j].rv = s[i].rv /\ i <= j)
           g == [j \in DOMAIN s |-> s[j].rv]
<1>1. PICK l \in DOMAIN s : \A j \in DOMAIN s : g[j] <= g[l]
  <2>1. \A j \in DOMAIN s : g[j] \in Versions
    BY ListFields
  <2> HIDE DEF g
  <2> QED BY <2>1, ListFields, HighestField
<1> DEFINE J == {j \in DOMAIN s : s[j].rv = s[l].rv}
<1>2. J \in SUBSET Nat /\ J # {}
  BY ListFields
<1>3. PICK i \in J : \A j \in J : i <= j
  BY <1>2, LeastNatural
<1>4. \A j \in DOMAIN s : s[j].rv \in Nat /\ s[j].rv <= s[l].rv
  BY <1>1, ListFields
<1>5. \A j \in DOMAIN s : s[j].rv < s[l].rv \/ j \in J
  BY <1>4
<1>6. i \in DOMAIN s /\ P(i)
  BY <1>3, <1>5
<1> HIDE DEF P
<1>7. (CHOOSE k \in DOMAIN s : P(k)) \in DOMAIN s
  BY <1>6
<1>8. s[CHOOSE k \in DOMAIN s : P(k)] \in StoreEntries
        /\ s[CHOOSE k \in DOMAIN s : P(k)].rv \in Rvs(s)
  BY <1>7, ListFields
<1> QED BY <1>8 DEF P

LEMMA LastListed ==
    ASSUME NEW s \in Seq(StoreEntries), s # <<>>
    PROVE  s[Len(s)] \in StoreEntries /\ s[Len(s)].rv \in Rvs(s)
<1>1. Len(s) \in DOMAIN s
  OBVIOUS
<1> QED BY <1>1, ListFields
-----------------------------------------------------------------------------
(* What the steps of the maintenance calls leave of each call's record.    *)
Becomes(p, where, of, one, idx, full) ==
    /\ DOMAIN m' = Maint /\ \A q \in Maint \ {p} : m'[q] = m[q]
    /\ DOMAIN m'[p] = MaintFields
    /\ m'[p].pc = where /\ m'[p].of = of /\ m'[p].one = one
    /\ m'[p].idx = idx /\ m'[p].full = full

LEMMA IdleFields ==
    /\ DOMAIN Idle = MaintFields /\ Idle.pc = "idle" /\ Idle.of = {}
    /\ Idle.one = None /\ Idle.idx = <<>> /\ Idle.full = {}
BY DEF Idle, MaintFields

LEMMA StartDoes ==
    ASSUME CallsOk, NEW p \in Maint, NEW r, NEW f, Start(p, r, f), DOMAIN r = MaintFields
    PROVE  m[p].pc = "idle" /\ Becomes(p, r.pc, r.of, r.one, r.idx, r.full)
BY IdleFields DEF CallsOk, CallOk, Start, Becomes

LEMMA EndDoes ==
    ASSUME CallsOk, NEW p \in Maint, End(p)
    PROVE  Becomes(p, "idle", {}, None, <<>>, {})
BY IdleFields DEF CallsOk, CallOk, End, Becomes

LEMMA FieldsKeep ==
    ASSUME CallsOk, NEW p \in Maint
    PROVE  DOMAIN m = Maint /\ DOMAIN m[p] = {"pc", "of", "one", "idx", "full"}
BY DEF CallsOk, CallOk, MaintFields

LEMMA ReadDoes ==
    ASSUME CallsOk, NEW p \in Maint, NEW from, NEW to, ReadIndex(p, from, to)
    PROVE  m[p].pc = from /\ Becomes(p, to, m[p].of, m[p].one, index, FullDirs)
BY FieldsKeep DEF ReadIndex, Becomes, MaintFields

LEMMA WriteBackDoes ==
    ASSUME CallsOk, NEW p \in Maint, NEW from, NEW to, NEW g, WriteBack(p, from, to, g)
    PROVE  m[p].pc = from /\ Becomes(p, to, m[p].of, m[p].one, m[p].idx, {})
BY FieldsKeep DEF WriteBack, Becomes, MaintFields

(* A well-formed record leaves the calls well-formed.                      *)
OneOk(p, where, of, one) ==
    /\ p \in {"delete_version", "delete_run", "cleanup"} /\ where \in {"read", "write", "latest"} =>
          of # {}
    /\ p = "cleanup" /\ where # "idle" => one \in Versions
    /\ p = "prune" /\ where \in {"check", "remove"} => one \in {None, "deleted"}
    /\ p = "prune" /\ where = "remove" => of # {}
    /\ p = "prune" /\ where = "write" => one \in 0..MaxClock
    /\ p = "reconcile" /\ where = "write" => one \in Seq(StoreEntries)

LEMMA CallsKeep ==
    ASSUME CallsOk, NEW p \in Maint, NEW where \in MaintPcs(p), NEW of \in SUBSET Versions,
           NEW one, NEW idx \in Seq(StoreEntries), NEW full \in SUBSET Versions,
           Becomes(p, where, of, one, idx, full), OneOk(p, where, of, one)
    PROVE  CallsOk'
<1>1. \A q \in Maint : CallOk(q)'
  BY DEF CallsOk, CallOk, Becomes
<1>2. OnesOk'
  BY DEF CallsOk, OnesOk, Becomes, OneOk, Maint
<1> QED BY <1>1, <1>2 DEF CallsOk, Becomes
-----------------------------------------------------------------------------
(* A step of call p that leaves the manifests alone: it moves to `where`,  *)
(* and of the directories of vs, if any, some are gone and some have lost  *)
(* their summary, which exposes them.                                      *)
Clears(vs) ==
    /\ vs \subseteq Versions /\ vs \cap InFlight \subseteq exposed'
    /\ exposed \subseteq exposed' /\ exposed' \subseteq Versions
    /\ dir' \in [Versions -> {"none", "partial", "full"}]
    /\ \A v \in Versions :
          \/ dir'[v] = dir[v]
          \/ v \in vs /\ dir'[v] = "none"
          \/ v \in vs /\ dir'[v] = "partial" /\ dir[v] = "full" /\ v \in exposed'
    /\ row' \in [Versions -> {"none", "active", "done", "failed"}]
    /\ \A v \in Versions : row'[v] \in {row[v], "none"}
    /\ index' = index /\ latest' = latest /\ lock' = lock /\ read' = read
    /\ pc' = pc /\ stamp' = stamp /\ clock' = clock

LEMMA ClearsKeeps ==
    ASSUME StoreInv, NEW vs, Clears(vs),
           NEW p \in Maint, NEW where \in MaintPcs(p), NEW of \in SUBSET Versions,
           NEW one, NEW idx \in Seq(StoreEntries), NEW full \in SUBSET Versions,
           Becomes(p, where, of, one, idx, full), OneOk(p, where, of, one),
           \A v \in Rvs(idx) : Listed(v), \A v \in full : Listed(v) \/ dir[v] = "full",
           p = "reconcile" /\ where = "write" =>
               /\ full \subseteq Rvs(one) /\ Rvs(one) \subseteq Rvs(idx) \cup full
               /\ \A v \in Rvs(one) : dir'[v] # "none" => v \in of \cup full,
           p \in Deleting => \/ m[p].pc # "idle" \/ where = "idle"
                             \/ \A v \in Versions : pc[v] \in {"new", "end", "failed"} \/ Origin[v] = "import",
           p \in Deleting /\ where = "write" => idx = index,
           p \in Removers /\ where # "idle" => \A v \in of \ exposed' :
               pc[v] \in {"end", "failed"} /\ (where # "remove" => dir'[v] # "full"),
           \A v \in Versions : Owed(v) => Owed(v)',
           \A v \in vs \ exposed' :
               dir'[v] = dir[v] \/ Owed(v)' \/ (v \notin Rvs(index) /\ v \notin Rvs(read)),
           m[p].pc # "latest", where # "latest"
    PROVE  StoreInv'
<1>1. FilesOk /\ CallsOk /\ PlacesOk /\ ListedOk /\ EndedListed /\ NoneBeside
        /\ GuardHolds /\ RemovedOk /\ EntriesTell /\ RepairOk /\ LatestTells
  BY DEF StoreInv
<1>2. FilesOk'
  BY <1>1 DEF FilesOk, Clears
<1>3. CallsOk'
  BY <1>1, CallsKeep
<1>4. /\ dir \in [Versions -> {"none", "partial", "full"}]
      /\ dir' \in [Versions -> {"none", "partial", "full"}]
      /\ \A v \in Versions :
            \/ dir'[v] = dir[v]
            \/ v \in vs /\ dir'[v] = "none"
            \/ v \in vs /\ dir'[v] = "partial" /\ dir[v] = "full" /\ v \in exposed'
  BY <1>1 DEF FilesOk, Clears
<1>5. PlacesOk'
  <2>1. \A v \in vs : pc[v] \in {"built", "locked"} => v \in exposed'
    BY DEF Clears, InFlight
  <2> QED BY <1>1, <1>4, <2>1 DEF PlacesOk, Clears, FilesOk
<1>6. \A v \in Versions : Listed(v)' => Listed(v) \/ dir[v] = "full"
  <2> SUFFICES ASSUME NEW v \in Versions, Listed(v)' PROVE Listed(v) \/ dir[v] = "full"
    OBVIOUS
  <2>1. index' = index /\ read' = read
    BY DEF Clears
  <2>2. CASE v \in Rvs(index') \/ v \in Rvs(read')
    BY <2>1, <2>2 DEF Listed
  <2>3. CASE \E q \in Maint : v \in Rvs(m'[q].idx) \/ v \in m'[q].full
    BY <2>3 DEF Listed, Becomes
  <2>4. CASE m'["reconcile"].pc = "write" /\ v \in Rvs(m'["reconcile"].one)
    <3>1. CASE p = "reconcile"
      BY <2>4, <3>1 DEF Becomes
    <3>2. CASE p # "reconcile"
      BY <2>4, <3>2 DEF Becomes, Listed, Maint
    <3> QED BY <3>1, <3>2
  <2> QED BY <2>2, <2>3, <2>4 DEF Listed
<1>7. ListedOk'
  BY <1>1, <1>4, <1>6 DEF ListedOk, PlacesOk, Clears, FilesOk
<1>8. EndedListed'
  BY <1>1, <1>4 DEF EndedListed, Clears
<1>9. NoneBeside'
  BY <1>1 DEF NoneBeside, Becomes, Clears, Deleting, Maint
<1>10. GuardHolds'
  <2> SUFFICES ASSUME NEW q \in Deleting, m'[q].pc \in {"write", "latest"},
                      NEW v \in Guarded(q)' \ exposed'
               PROVE  v \in Rvs(m'[q].idx) /\ v \in Rvs(index')
    BY DEF GuardHolds
  <2>1. /\ v \in Versions \ exposed /\ dir[v] = "full" /\ dir'[v] = "full"
        /\ Origin[v] # "import" /\ pc' = pc /\ index' = index
        /\ pc[v] = "failed" => v \in Rvs(m'[q].idx)
    BY <1>4 DEF Guarded, FullDirs, Imports, Clears
  <2>2. CASE p # q
    <3>1. m'[q] = m[q]
      BY <2>2 DEF Becomes, Deleting, Maint
    <3>2. v \in Guarded(q)
      BY <2>1, <3>1 DEF Guarded, FullDirs, Imports
    <3> QED BY <1>1, <2>1, <3>1, <3>2 DEF GuardHolds
  <2>3. CASE p = q
    <3>1. m'[q].idx = index /\ m'[q].pc # "idle"
      BY <2>3 DEF Becomes
    <3>2. pc[v] \in {"new", "end", "failed"}
      BY <1>9, <2>1, <3>1 DEF NoneBeside
    <3>3. pc[v] # "new"
      BY <1>1, <2>1 DEF PlacesOk
    <3> QED BY <1>1, <2>1, <3>1, <3>2, <3>3 DEF EndedListed
  <2> QED BY <2>2, <2>3
<1>11. RemovedOk'
  <2> SUFFICES ASSUME NEW q \in Removers, m'[q].pc # "idle", NEW v \in m'[q].of \ exposed'
               PROVE  pc'[v] \in {"end", "failed"} /\ (m'[q].pc # "remove" => dir'[v] # "full")
    BY DEF RemovedOk
  <2>1. pc' = pc /\ exposed \subseteq exposed'
    BY DEF Clears
  <2>2. q \in Maint
    BY DEF Removers, Maint
  <2>3. m'[q].of \subseteq Versions
    BY <1>3, <2>2 DEF CallsOk, CallOk
  <2>4. CASE p # q
    BY <1>1, <1>4, <2>1, <2>2, <2>3, <2>4 DEF RemovedOk, Becomes
  <2>5. CASE p = q
    BY <1>4, <2>1, <2>3, <2>5 DEF Becomes
  <2> QED BY <2>4, <2>5
<1>12. EntriesTell'
  BY <1>1, <1>4 DEF EntriesTell, Clears
<1>13. RepairOk'
  <2>1. CASE p = "reconcile"
    BY <2>1 DEF RepairOk, Becomes
  <2>2. CASE p # "reconcile"
    <3>1. m'["reconcile"] = m["reconcile"]
      BY <2>2 DEF Becomes, Maint
    <3>2. m["reconcile"].pc = "write" => Rvs(m["reconcile"].one) \subseteq Versions
      BY <1>1, ListedAreVersions DEF CallsOk, OnesOk
    <3> QED BY <1>1, <1>4, <3>1, <3>2 DEF RepairOk
  <2> QED BY <2>1, <2>2
<1>14. LatestTells'
  BY <1>1 DEF LatestTells, Becomes, Clears, Names, Maint
<1> QED BY <1>2, <1>3, <1>5, <1>7, <1>8, <1>9, <1>10, <1>11, <1>12, <1>13, <1>14 DEF StoreInv

(* A step of call p that writes a manifest: the list becomes `list`, and   *)
(* what it lists is what the invariant asks of it.                         *)
Rewrites(list) ==
    /\ index' = list /\ list \in Seq(StoreEntries)
    /\ latest' = None \/ latest' \in StoreEntries
    /\ exposed \subseteq exposed' /\ exposed' \subseteq Versions
    /\ row' \in [Versions -> {"none", "active", "done", "failed"}]
    /\ \A v \in Versions : row'[v] \in {row[v], "none"}
    /\ dir' = dir /\ lock' = lock /\ read' = read
    /\ pc' = pc /\ stamp' = stamp /\ clock' = clock

LEMMA RewritesKeeps ==
    ASSUME StoreInv, NEW list, Rewrites(list),
           NEW p \in Maint, NEW where \in MaintPcs(p), NEW of \in SUBSET Versions,
           NEW one, NEW idx \in Seq(StoreEntries), NEW full \in SUBSET Versions,
           Becomes(p, where, of, one, idx, full), OneOk(p, where, of, one),
           m[p].pc \notin {"idle", "remove"},
           \/ where = "idle" /\ idx = <<>> /\ full = {} /\ of = {}
           \/ /\ of = m[p].of /\ full \subseteq m[p].full /\ idx = m[p].idx
              /\ p = "wipe" \/ (p \in Removers /\ where = "latest" /\ m[p].pc = "write"),
           p = "reconcile" => where # "write",
           \A v \in Rvs(list) : Listed(v),
           \A v \in Versions \ exposed' : dir[v] = "full" =>
               /\ v \in Rvs(index) => v \in Rvs(list)
               /\ v \in Rvs(list) /\ lock # None => v \in Rvs(index),
           \A v \in Versions \ exposed' :
               v \in Rvs(list) \/ v \in Rvs(read) => dir[v] = "full" \/ Owed(v)',
           LatestTells'
    PROVE  StoreInv'
<1>1. FilesOk /\ CallsOk /\ PlacesOk /\ ListedOk /\ EndedListed /\ NoneBeside
        /\ GuardHolds /\ RemovedOk /\ EntriesTell /\ RepairOk /\ LatestTells
  BY DEF StoreInv
<1>2. FilesOk'
  BY <1>1 DEF FilesOk, Rewrites
<1>3. CallsOk'
  BY <1>1, CallsKeep
<1>4. dir' = dir /\ pc' = pc /\ read' = read /\ lock' = lock
        /\ exposed \subseteq exposed' /\ index' = list
  BY DEF Rewrites
<1>5. PlacesOk'
  BY <1>1 DEF PlacesOk, Rewrites
<1>6. \A v \in Versions : Listed(v)' => Listed(v)
  <2> SUFFICES ASSUME NEW v \in Versions, Listed(v)' PROVE Listed(v)
    OBVIOUS
  <2>1. CASE v \in Rvs(index') \/ v \in Rvs(read')
    BY <1>4, <2>1 DEF Listed
  <2>2. CASE \E q \in Maint : v \in Rvs(m'[q].idx) \/ v \in m'[q].full
    BY <2>2, ListedAreVersions DEF Listed, Becomes
  <2>3. CASE m'["reconcile"].pc = "write" /\ v \in Rvs(m'["reconcile"].one)
    BY <2>3 DEF Becomes, Listed, Maint
  <2> QED BY <2>1, <2>2, <2>3 DEF Listed
<1>7. ListedOk'
  BY <1>1, <1>4, <1>6 DEF ListedOk
<1>8. EndedListed'
  BY <1>1, <1>4 DEF EndedListed
<1>9. NoneBeside'
  BY <1>1, <1>4 DEF NoneBeside, Becomes, Deleting, Maint
<1>10. GuardHolds'
  <2> SUFFICES ASSUME NEW q \in Deleting, m'[q].pc \in {"write", "latest"},
                      NEW v \in Guarded(q)' \ exposed'
               PROVE  v \in Rvs(m'[q].idx) /\ v \in Rvs(index')
    BY DEF GuardHolds
  <2>1. m'[q].idx = m[q].idx /\ m[q].pc \in {"write", "latest"}
    BY DEF Becomes, Deleting, Maint, Removers
  <2>2. v \in Guarded(q) \ exposed /\ dir[v] = "full" /\ v \in Versions
    BY <1>4, <2>1 DEF Guarded, FullDirs, Imports
  <2> QED BY <1>1, <1>4, <2>1, <2>2 DEF GuardHolds
<1>11. RemovedOk'
  <2> SUFFICES ASSUME NEW q \in Removers, m'[q].pc # "idle", NEW v \in m'[q].of \ exposed'
               PROVE  pc'[v] \in {"end", "failed"} /\ (m'[q].pc # "remove" => dir'[v] # "full")
    BY DEF RemovedOk
  <2>1. m'[q].of = m[q].of /\ m[q].pc # "idle" /\ (m'[q].pc # "remove" => m[q].pc # "remove")
    BY DEF Becomes, Removers, Maint
  <2> QED BY <1>1, <1>4, <2>1 DEF RemovedOk
<1>12. EntriesTell'
  BY <1>4 DEF EntriesTell
<1>13. RepairOk'
  <2>1. CASE p = "reconcile"
    BY <2>1 DEF RepairOk, Becomes
  <2>2. CASE p # "reconcile"
    <3>1. m'["reconcile"] = m["reconcile"]
      BY <2>2 DEF Becomes, Maint
    <3> QED BY <1>1, <1>4, <3>1 DEF RepairOk
  <2> QED BY <2>1, <2>2
<1> QED BY <1>2, <1>3, <1>5, <1>7, <1>8, <1>9, <1>10, <1>11, <1>12, <1>13 DEF StoreInv
-----------------------------------------------------------------------------
(* A producer's step before it has the lock.                               *)
Produces(v, where, d) ==
    /\ pc' = [pc EXCEPT ![v] = where] /\ dir' = [dir EXCEPT ![v] = d]
    /\ row' \in [Versions -> {"none", "active", "done", "failed"}]
    /\ \A u \in Versions \ {v} : row'[u] = row[u]
    /\ stamp' \in [Versions -> 0..MaxClock] /\ clock' \in 0..MaxClock
    /\ index' = index /\ latest' = latest /\ lock' = lock /\ read' = read
    /\ m' = m /\ exposed' = exposed

LEMMA ProducesKeeps ==
    ASSUME StoreInv, NEW v \in Versions,
           NEW where \in {"begun", "running", "built", "failed"},
           NEW d \in {"none", "partial", "full"}, Produces(v, where, d),
           pc[v] \in {"new", "begun", "running"},
           where = "built" => d = "full" /\ pc[v] = "running",
           d = "full" => where \in {"built", "failed"},
           where = "begun" /\ Origin[v] = "import" => d = "none",
           pc[v] = "new" /\ Origin[v] # "import" => \A p \in Deleting : m[p].pc = "idle"
    PROVE  StoreInv'
<1>1. FilesOk /\ CallsOk /\ PlacesOk /\ ListedOk /\ EndedListed /\ NoneBeside
        /\ GuardHolds /\ RemovedOk /\ EntriesTell /\ RepairOk /\ LatestTells
  BY DEF StoreInv
<1>2. FilesOk'
  BY <1>1 DEF FilesOk, Produces
<1>3. CallsOk'
  BY <1>1 DEF CallsOk, CallOk, OnesOk, Produces
<1>4. /\ \A u \in Versions : u # v => pc'[u] = pc[u] /\ dir'[u] = dir[u]
      /\ pc'[v] = where /\ dir'[v] = d
      /\ exposed' = exposed /\ index' = index /\ read' = read /\ lock' = lock
  BY <1>1 DEF FilesOk, Produces
<1>5. PlacesOk'
  BY <1>1, <1>4 DEF PlacesOk, Produces
<1>6. \A u \in Versions : Listed(u)' <=> Listed(u)
  BY DEF Listed, Produces
<1>7. ~Listed(v)
  BY <1>1 DEF ListedOk
<1>8. ListedOk'
  <2> SUFFICES ASSUME NEW u \in Versions, Listed(u)'
               PROVE  /\ pc'[u] \in {"built", "locked", "end", "failed"}
                      /\ dir'[u] = "partial" => u \in exposed'
    BY DEF ListedOk
  <2>1. Listed(u) /\ u # v
    BY <1>6, <1>7
  <2> QED BY <1>1, <1>4, <2>1 DEF ListedOk
<1>9. EndedListed'
  <2>1. v \notin Rvs(index)
    BY <1>7 DEF Listed
  <2> QED BY <1>1, <1>4, <2>1 DEF EndedListed
<1>10. \A p \in Deleting : m[p].pc # "idle" => pc[v] = "new" \/ Origin[v] = "import"
  BY <1>1 DEF NoneBeside
<1>11. NoneBeside'
  BY <1>1, <1>4, <1>10 DEF NoneBeside, Produces
<1>12. GuardHolds'
  <2> SUFFICES ASSUME NEW q \in Deleting, m[q].pc \in {"write", "latest"},
                      NEW u \in Guarded(q)' \ exposed
               PROVE  u \in Rvs(m[q].idx) /\ u \in Rvs(index)
    BY DEF GuardHolds, Produces
  <2>1. /\ u \in Versions /\ dir'[u] = "full" /\ Origin[u] # "import"
        /\ pc'[u] = "failed" => u \in Rvs(m[q].idx)
    BY DEF Guarded, FullDirs, Imports, Produces
  <2>2. v \notin Rvs(m[q].idx)
    BY <1>7 DEF Listed, Deleting, Maint
  <2>3. u # v
    BY <1>4, <1>10, <2>1, <2>2
  <2>4. u \in Guarded(q)
    BY <1>4, <2>1, <2>3 DEF Guarded, FullDirs, Imports
  <2> QED BY <1>1, <2>4 DEF GuardHolds
<1>13. RemovedOk'
  <2>1. \A p \in Removers : m[p].of \subseteq Versions
    BY <1>1 DEF CallsOk, CallOk, Removers, Maint
  <2> QED BY <1>1, <1>4, <2>1 DEF RemovedOk, Produces
<1>14. v \notin Rvs(index) /\ v \notin Rvs(read)
  BY <1>7 DEF Listed
<1>15. EntriesTell'
  <2>1. \A u \in Versions : Owed(u)' <=> Owed(u)
    BY DEF Owed, Produces
  <2> QED BY <1>1, <1>4, <1>14, <2>1 DEF EntriesTell, Produces
<1>16. RepairOk'
  <2>1. m["reconcile"].pc = "write" => v \notin Rvs(m["reconcile"].one)
    BY <1>7 DEF Listed
  <2>2. m["reconcile"].pc = "write" => Rvs(m["reconcile"].one) \subseteq Versions
    BY <1>1, ListedAreVersions DEF CallsOk, OnesOk
  <2> QED BY <1>1, <1>4, <2>1, <2>2 DEF RepairOk, Produces
<1>17. LatestTells'
  BY <1>1 DEF LatestTells, Names, Produces
<1> QED BY <1>2, <1>3, <1>5, <1>8, <1>9, <1>11, <1>12, <1>13, <1>15, <1>16, <1>17 DEF StoreInv

LEMMA BeginKeeps ==
    ASSUME StoreInv, NEW v \in Versions, Begin(v)
    PROVE  StoreInv'
<1>1. FilesOk /\ CallsOk
  BY DEF StoreInv
<1>2. \A p \in Deleting : m[p].pc = "idle"
  <2> SUFFICES ASSUME \E p \in Deleting : m[p].pc # "idle" PROVE FALSE
    OBVIOUS
  <2>1. "deleting" \in CellOps
    BY DEF CellOps, Deleting
  <2> QED BY <2>1 DEF Begin, CanTake, Refused
<1>3. Produces(v, "begun", "partial")
  BY <1>1 DEF Begin, Produces, FilesOk
<1> QED BY <1>2, <1>3, ProducesKeeps DEF Begin, NextReport

LEMMA ImportRowKeeps ==
    ASSUME StoreInv, NEW v \in Versions, ImportRow(v)
    PROVE  StoreInv'
<1>1. FilesOk /\ CallsOk
  BY DEF StoreInv
<1>2. dir = [dir EXCEPT ![v] = "none"]
  BY <1>1 DEF ImportRow, NextReport, FilesOk
<1>3. Produces(v, "begun", "none")
  BY <1>1, <1>2 DEF ImportRow, Produces, FilesOk
<1> QED BY <1>3, ProducesKeeps DEF ImportRow, NextReport

LEMMA RegisterKeeps ==
    ASSUME StoreInv, NEW v \in Versions, Register(v)
    PROVE  StoreInv'
<1>1. FilesOk /\ PlacesOk
  BY DEF StoreInv
<1>2. dir = [dir EXCEPT ![v] = dir[v]] /\ dir[v] \in {"none", "partial"}
  BY <1>1 DEF Register, FilesOk, PlacesOk
<1>3. Produces(v, "running", dir[v])
  BY <1>1, <1>2 DEF Register, Produces, FilesOk
<1> QED BY <1>2, <1>3, ProducesKeeps DEF Register

LEMMA ImportCopyKeeps ==
    ASSUME StoreInv, NEW v \in Versions, ImportCopy(v)
    PROVE  StoreInv'
<1>1. FilesOk
  BY DEF StoreInv
<1>2. Produces(v, "running", "partial")
  BY <1>1 DEF ImportCopy, Produces, FilesOk
<1> QED BY <1>2, ProducesKeeps DEF ImportCopy

LEMMA WrittenKeeps ==
    ASSUME StoreInv, NEW v \in Versions, Written(v), Completed(v) \/ UNCHANGED row
    PROVE  StoreInv'
<1>1. FilesOk
  BY DEF StoreInv
<1>2. /\ row' \in [Versions -> {"none", "active", "done", "failed"}]
      /\ \A u \in Versions \ {v} : row'[u] = row[u]
  BY <1>1 DEF Completed, FilesOk
<1>3. Produces(v, "built", "full")
  BY <1>1, <1>2 DEF Written, Produces, FilesOk
<1> QED BY <1>3, ProducesKeeps DEF Written

LEMMA FailsKeep ==
    ASSUME StoreInv, NEW v \in Versions,
           GenerateFails(v) \/ SampleFails(v) \/ ImportRollback(v)
    PROVE  StoreInv'
<1>1. FilesOk /\ PlacesOk
  BY DEF StoreInv
<1>2. PICK left \in {"none", "partial", "full"}, f \in {0, 1} : Failing(v, left, f)
  BY DEF GenerateFails, SampleFails, ImportRollback
<1>3. /\ row' \in [Versions -> {"none", "active", "done", "failed"}]
      /\ \A u \in Versions \ {v} : row'[u] = row[u]
  BY <1>1 DEF GenerateFails, SampleFails, ImportRollback, FailRow, FilesOk
<1>4. PICK d \in {"none", "partial", "full"} : dir' = [dir EXCEPT ![v] = d]
  BY <1>1, <1>2 DEF Failing, FilesOk
<1>5. Produces(v, "failed", d) /\ pc[v] = "running"
  BY <1>1, <1>2, <1>3, <1>4 DEF Failing, Produces, FilesOk
<1> QED BY <1>5, ProducesKeeps

(* The producer that has the lock.                                         *)
LEMMA AppendReadKeeps ==
    ASSUME StoreInv, NEW v \in Versions, AppendRead(v) \/ AppendReadFails(v)
    PROVE  StoreInv'
<1>1. FilesOk /\ CallsOk /\ PlacesOk /\ ListedOk /\ EndedListed /\ NoneBeside
        /\ GuardHolds /\ RemovedOk /\ EntriesTell /\ RepairOk /\ LatestTells
  BY DEF StoreInv
<1>2. /\ pc[v] = "built" /\ lock = None /\ lock' = v
      /\ dir' = dir /\ row' = row /\ index' = index /\ latest' = latest
      /\ stamp' = stamp /\ m' = m /\ clock' = clock
      /\ pc'[v] = "locked" /\ \A u \in Versions : u # v => pc'[u] = pc[u]
      /\ pc' \in [Versions -> {"new", "begun", "running", "built", "locked", "end", "failed"}]
  BY <1>1 DEF AppendRead, AppendReadFails, store, FilesOk
<1>0. /\ exposed \subseteq exposed' /\ exposed' \subseteq Versions
      /\ Rvs(read') \subseteq Rvs(index) /\ read' \in Seq(StoreEntries)
      /\ read' = index \/ Rvs(index) \subseteq exposed'
  <2>1. Rvs(index) \subseteq Versions /\ Rvs(<<>>) = {} /\ <<>> \in Seq(StoreEntries)
    BY <1>1, ListedAreVersions DEF FilesOk
  <2> QED BY <1>1, <2>1 DEF AppendRead, AppendReadFails, FilesOk
<1>3. FilesOk'
  BY <1>0, <1>1, <1>2 DEF FilesOk
<1>4. CallsOk'
  BY <1>1, <1>2 DEF CallsOk, CallOk, OnesOk
<1>5. PlacesOk'
  BY <1>0, <1>1, <1>2, StoreAssumption DEF PlacesOk
<1>6. ListedOk'
  <2>1. \A u \in Versions : Listed(u)' => Listed(u)
    BY <1>0, <1>2 DEF Listed
  <2> QED BY <1>0, <1>1, <1>2, <2>1 DEF ListedOk
<1>7. EndedListed'
  BY <1>0, <1>1, <1>2 DEF EndedListed
<1>8. NoneBeside'
  BY <1>1, <1>2 DEF NoneBeside
<1>9. GuardHolds'
  BY <1>0, <1>1, <1>2 DEF GuardHolds, Guarded, FullDirs, Imports
<1>10. RemovedOk'
  <2>1. \A p \in Removers : m[p].of \subseteq Versions
    BY <1>1 DEF CallsOk, CallOk, Removers, Maint
  <2> QED BY <1>0, <1>1, <1>2, <2>1 DEF RemovedOk
<1>11. EntriesTell'
  <2>1. \A u \in Versions : Owed(u)' <=> Owed(u)
    BY <1>2 DEF Owed
  <2> QED BY <1>0, <1>1, <1>2, <2>1 DEF EntriesTell
<1>12. RepairOk' /\ LatestTells'
  BY <1>0, <1>1, <1>2 DEF RepairOk, LatestTells, Names
<1> QED BY <1>3, <1>4, <1>5, <1>6, <1>7, <1>8, <1>9, <1>10, <1>11, <1>12 DEF StoreInv

LEMMA AppendWriteKeeps ==
    ASSUME StoreInv, NEW v \in Versions, AppendWrite(v)
    PROVE  StoreInv'
<1>1. FilesOk /\ CallsOk /\ PlacesOk /\ ListedOk /\ EndedListed /\ NoneBeside
        /\ GuardHolds /\ RemovedOk /\ EntriesTell /\ RepairOk /\ LatestTells
  BY DEF StoreInv
<1>2. /\ pc[v] = "locked" /\ lock' = None /\ read' = <<>>
      /\ dir' = dir /\ m' = m /\ clock' = clock /\ exposed' = exposed
      /\ pc'[v] = "end" /\ \A u \in Versions : u # v => pc'[u] = pc[u]
  BY <1>1 DEF AppendWrite, FilesOk
<1>3. lock = v /\ lock # None
  BY <1>1, <1>2, StoreAssumption DEF PlacesOk
<1>4. index' \in Seq(StoreEntries) /\ Rvs(index') = Rvs(read) \cup {v}
  BY <1>1, AppendLists DEF AppendWrite, FilesOk
<1>5. index' # <<>>
  BY <1>4, ListedAreVersions
<1>6. latest' \in StoreEntries /\ latest'.rv \in Rvs(index')
  BY <1>4, <1>5, NewestListed DEF AppendWrite
<1>7. /\ row' \in [Versions -> {"none", "active", "done", "failed"}]
      /\ \A u \in Versions \ {v} : row'[u] = row[u]
      /\ stamp' \in [Versions -> 0..MaxClock]
  BY <1>1, StoreAssumption DEF AppendWrite, Completed, FilesOk
<1>8. FilesOk'
  BY <1>1, <1>2, <1>4, <1>6, <1>7 DEF AppendWrite, FilesOk
<1>9. CallsOk'
  BY <1>1, <1>2 DEF CallsOk, CallOk, OnesOk
<1>10. Rvs(read') = {}
  BY <1>1, <1>2, ListedAreVersions DEF FilesOk
<1>11. PlacesOk'
  BY <1>1, <1>2, <1>3, <1>7, StoreAssumption DEF PlacesOk
<1>12. ListedOk'
  <2>1. \A u \in Versions : Listed(u)' => Listed(u) \/ u = v
    BY <1>2, <1>4, <1>10 DEF Listed
  <2>2. dir[v] = "partial" => v \in exposed
    BY <1>1, <1>2 DEF PlacesOk
  <2> QED BY <1>1, <1>2, <2>1, <2>2 DEF ListedOk
<1>13. EndedListed'
  BY <1>1, <1>2, <1>3, <1>4 DEF EndedListed
<1>14. NoneBeside'
  BY <1>1, <1>2 DEF NoneBeside
<1>15. GuardHolds'
  <2> SUFFICES ASSUME NEW q \in Deleting, m[q].pc \in {"write", "latest"},
                      NEW u \in Guarded(q)' \ exposed
               PROVE  u \in Rvs(m[q].idx) /\ u \in Rvs(index')
    BY <1>2 DEF GuardHolds
  <2>1. u \in Guarded(q) /\ dir[u] = "full" /\ u \in Versions
    BY <1>2 DEF Guarded, FullDirs, Imports
  <2>2. u \in Rvs(m[q].idx) /\ u \in Rvs(index)
    BY <1>1, <2>1 DEF GuardHolds
  <2> QED BY <1>1, <1>3, <1>4, <2>1, <2>2 DEF EndedListed
<1>16. RemovedOk'
  <2>1. \A p \in Removers : m[p].of \subseteq Versions
    BY <1>1 DEF CallsOk, CallOk, Removers, Maint
  <2> QED BY <1>1, <1>2, <2>1 DEF RemovedOk
<1>17. EntriesTell'
  <2>1. \A u \in Versions : Owed(u)' <=> Owed(u)
    BY <1>2 DEF Owed
  <2>2. dir[v] = "full" \/ v \in exposed
    BY <1>1, <1>2 DEF PlacesOk
  <2> QED BY <1>1, <1>2, <1>4, <1>10, <2>1, <2>2 DEF EntriesTell
<1>18. RepairOk'
  BY <1>1, <1>2 DEF RepairOk
<1>19. LatestTells'
  <2>1. latest' # None
    BY <1>6, StoreAssumption DEF StoreEntries
  <2> QED BY <1>6, <2>1 DEF LatestTells, Names
<1> QED BY <1>8, <1>9, <1>11, <1>12, <1>13, <1>14, <1>15, <1>16, <1>17, <1>18, <1>19 DEF StoreInv
(* An append that raises: the producer is done with, the lock is free.     *)
LEMMA AppendFailsKeeps ==
    ASSUME StoreInv, NEW v \in Versions, AppendFails(v)
    PROVE  StoreInv'
<1>1. FilesOk /\ CallsOk /\ PlacesOk /\ ListedOk /\ EndedListed /\ NoneBeside
        /\ GuardHolds /\ RemovedOk /\ EntriesTell /\ RepairOk /\ LatestTells
  BY DEF StoreInv
<1>2. /\ pc[v] \in {"built", "locked"}
      /\ dir' = dir /\ m' = m /\ clock' = clock /\ latest' = latest
      /\ pc'[v] = "failed" /\ \A u \in Versions : u # v => pc'[u] = pc[u]
      /\ IF lock = v THEN lock' = None /\ read' = <<>> ELSE lock' = lock /\ read' = read
  BY <1>1 DEF AppendFails, FilesOk
<1>3. (lock = v <=> pc[v] = "locked") /\ v # None
  BY <1>1, StoreAssumption DEF PlacesOk
<1>4. /\ index' \in Seq(StoreEntries) /\ exposed \subseteq exposed' /\ exposed' \subseteq Versions
      /\ \/ index' = index
         \/ lock = v /\ Rvs(index') = Rvs(read) \cup {v} /\ v \in exposed'
  <2>1. CASE index' = index /\ exposed' = exposed
    BY <1>1, <2>1 DEF FilesOk
  <2>2. CASE pc[v] = "locked" /\ index' = Append(read, Entry(v, stamp[v]))
               /\ exposed' = exposed \cup {v}
    <3>1. read \in Seq(StoreEntries) /\ stamp[v] \in 0..MaxClock /\ exposed \subseteq Versions
      BY <1>1 DEF FilesOk
    <3>2. index' \in Seq(StoreEntries) /\ Rvs(index') = Rvs(read) \cup {v}
      BY <2>2, <3>1, AppendLists
    <3> QED BY <1>3, <2>2, <3>1, <3>2
  <2> QED BY <2>1, <2>2 DEF AppendFails
<1>5. /\ row' \in [Versions -> {"none", "active", "done", "failed"}]
      /\ \A u \in Versions \ {v} : row'[u] = row[u]
      /\ stamp' \in [Versions -> 0..MaxClock]
      /\ pc' \in [Versions -> {"new", "begun", "running", "built", "locked", "end", "failed"}]
  <2>1. row' = row \/ row' = [row EXCEPT ![v] = IF @ = "none" THEN @ ELSE "failed"]
    BY DEF AppendFails, FailRow
  <2>2. stamp' = [stamp EXCEPT ![v] = 0] /\ pc' = [pc EXCEPT ![v] = "failed"]
    BY DEF AppendFails
  <2> QED BY <1>1, <2>1, <2>2, StoreAssumption DEF FilesOk
<1>6. Rvs(<<>>) = {} /\ <<>> \in Seq(StoreEntries)
  BY DEF Rvs
<1>7. FilesOk'
  BY <1>1, <1>2, <1>4, <1>5, <1>6 DEF FilesOk
<1>8. CallsOk'
  BY <1>1, <1>2 DEF CallsOk, CallOk, OnesOk
<1>9. PlacesOk'
  <2>1. lock' = None => read' = <<>>
    BY <1>1, <1>2 DEF PlacesOk
  <2>2. \A u \in Versions : pc'[u] = "locked" <=> lock' = u
    BY <1>1, <1>2, <1>3, StoreAssumption DEF PlacesOk
  <2>3. ASSUME NEW u \in Versions
        PROVE  /\ pc'[u] = "new" => dir[u] = "none" /\ row'[u] = "none"
               /\ pc'[u] = "begun" => dir[u] # "full" /\ (Origin[u] = "import" => dir[u] = "none")
               /\ pc'[u] = "running" => dir[u] # "full"
               /\ pc'[u] \in {"built", "locked"} => dir[u] = "full" \/ u \in exposed'
    BY <1>1, <1>2, <1>4, <1>5 DEF PlacesOk
  <2> QED BY <1>2, <2>1, <2>2, <2>3 DEF PlacesOk
<1>10. ListedOk'
  <2>1. \A u \in Versions : Listed(u)' => Listed(u) \/ u = v
    BY <1>2, <1>4, <1>6 DEF Listed
  <2>2. dir[v] = "partial" => v \in exposed
    BY <1>1, <1>2 DEF PlacesOk
  <2> QED BY <1>1, <1>2, <1>4, <2>1, <2>2 DEF ListedOk
<1>11. \A u \in Versions \ exposed' :
          dir[u] = "full" /\ u \in Rvs(index) => u \in Rvs(index')
  BY <1>1, <1>3, <1>4 DEF EndedListed
<1>12. EndedListed'
  BY <1>1, <1>2, <1>3, <1>4, <1>11 DEF EndedListed
<1>13. NoneBeside'
  BY <1>1, <1>2 DEF NoneBeside
<1>14. GuardHolds'
  <2> SUFFICES ASSUME NEW q \in Deleting, m[q].pc \in {"write", "latest"},
                      NEW u \in Guarded(q)' \ exposed'
               PROVE  u \in Rvs(m[q].idx) /\ u \in Rvs(index')
    BY <1>2 DEF GuardHolds
  <2>1. u \in Guarded(q) /\ dir[u] = "full" /\ u \in Versions
    BY <1>2 DEF Guarded, FullDirs, Imports
  <2> QED BY <1>1, <1>4, <1>11, <2>1 DEF GuardHolds
<1>15. RemovedOk'
  <2>1. \A p \in Removers : m[p].of \subseteq Versions
    BY <1>1 DEF CallsOk, CallOk, Removers, Maint
  <2> QED BY <1>1, <1>2, <1>4, <2>1 DEF RemovedOk
<1>16. EntriesTell'
  <2>1. \A u \in Versions : Owed(u)' <=> Owed(u)
    BY <1>2 DEF Owed
  <2> QED BY <1>1, <1>2, <1>4, <1>6, <2>1 DEF EntriesTell
<1>17. RepairOk'
  BY <1>1, <1>2 DEF RepairOk
<1>18. LatestTells'
  BY <1>1, <1>2, <1>4 DEF LatestTells, Names
<1> QED BY <1>7, <1>8, <1>9, <1>10, <1>12, <1>13, <1>14, <1>15, <1>16, <1>17, <1>18 DEF StoreInv
-----------------------------------------------------------------------------
(* Maintenance calls: starting, reading, deciding and removing.            *)
LEMMA NothingCleared ==
    ASSUME FilesOk, exposed \subseteq exposed', exposed' \subseteq Versions,
           dir' = dir, row' = row, index' = index, latest' = latest, lock' = lock,
           read' = read, pc' = pc, stamp' = stamp, clock' = clock
    PROVE  Clears({})
BY DEF Clears, FilesOk

(* A removal, with or without a fault.                                     *)
LEMMA TreesGo ==
    ASSUME FilesOk, NEW vs \in SUBSET Versions, NEW f, RmTree(vs, f), Gutted(vs) \subseteq exposed',
           vs \cap InFlight \subseteq exposed', exposed \subseteq exposed', exposed' \subseteq Versions,
           row' = row \/ (\E w \in SUBSET Versions : DropRows(w)),
           index' = index, latest' = latest, lock' = lock,
           read' = read, pc' = pc, stamp' = stamp, clock' = clock
    PROVE  /\ Clears(vs)
           /\ \A v \in Versions \ vs : dir'[v] = dir[v]
           /\ \A v \in vs : dir'[v] \in {"none", dir[v]} \/ (dir'[v] = "partial" /\ v \in exposed')
           /\ f = 0 => \A v \in vs : dir'[v] = "none"
<1>1. PICK left \in [vs -> {"none", "partial", "full"}] :
        /\ \A v \in vs : left[v] \in {"none", dir[v]} \/ (left[v] = "partial" /\ dir[v] = "full")
        /\ f = 0 <=> \A v \in vs : left[v] = "none"
        /\ dir' = [v \in Versions |-> IF v \in vs THEN left[v] ELSE dir[v]]
  BY DEF RmTree
<1>2. dir' \in [Versions -> {"none", "partial", "full"}]
  BY <1>1 DEF FilesOk
<1>3. \A v \in Versions : dir'[v] = IF v \in vs THEN left[v] ELSE dir[v]
  BY <1>1
<1>4. \A v \in vs : dir[v] = "full" /\ left[v] = "partial" => v \in exposed'
  BY <1>3 DEF Gutted
<1>5. /\ row' \in [Versions -> {"none", "active", "done", "failed"}]
      /\ \A v \in Versions : row'[v] \in {row[v], "none"}
  BY DEF DropRows, FilesOk
<1>6. \A v \in Versions :
         \/ dir'[v] = dir[v]
         \/ v \in vs /\ dir'[v] = "none"
         \/ v \in vs /\ dir'[v] = "partial" /\ dir[v] = "full" /\ v \in exposed'
  BY <1>1, <1>3, <1>4
<1>7. Clears(vs)
  BY <1>2, <1>5, <1>6 DEF Clears
<1> QED BY <1>1, <1>3, <1>6, <1>7

LEMMA ReadIndexKeeps ==
    ASSUME StoreInv, NEW p \in {"delete_version", "delete_run", "cleanup", "reconcile"},
           ReadIndex(p, "read", IF p = "reconcile" THEN "scan" ELSE "write")
    PROVE  StoreInv'
<1> DEFINE to == IF p = "reconcile" THEN "scan" ELSE "write"
<1>1. FilesOk /\ CallsOk /\ RemovedOk /\ p \in Maint
  BY DEF StoreInv, Maint
<1>2. m[p].pc = "read" /\ Becomes(p, to, m[p].of, m[p].one, index, FullDirs)
  BY <1>1, ReadDoes
<1>3. Clears({})
  BY <1>1, NothingCleared DEF ReadIndex, store, FilesOk
<1>4. /\ to \in MaintPcs(p) /\ m[p].of \in SUBSET Versions /\ index \in Seq(StoreEntries)
      /\ FullDirs \in SUBSET Versions
  BY <1>1 DEF CallsOk, CallOk, FilesOk, FullDirs, MaintPcs
<1>5. OneOk(p, to, m[p].of, m[p].one)
  BY <1>1, <1>2 DEF OneOk, CallsOk, OnesOk
<1>6. \A v \in Versions : Owed(v) => Owed(v)'
  BY <1>2 DEF Owed, Becomes, Removers, Maint
<1>7. (\A v \in Rvs(index) : Listed(v)) /\ \A v \in FullDirs : dir[v] = "full"
  BY DEF Listed, FullDirs
<1>8. p \in Removers => \A v \in m[p].of \ exposed' :
         pc[v] \in {"end", "failed"} /\ dir'[v] # "full"
  <2>1. dir' = dir /\ exposed \subseteq exposed'
    BY <1>3 DEF ReadIndex, store, Clears
  <2> QED BY <1>1, <1>2, <2>1 DEF RemovedOk
<1>9. p = "reconcile" => to # "write" /\ p \notin Removers /\ p \notin Deleting
  BY DEF Removers, Deleting
<1>10. to # "latest" /\ m[p].pc # "latest" /\ m[p].pc # "idle"
  BY <1>2
<1> HIDE DEF to
<1> QED BY <1>1, <1>2, <1>3, <1>4, <1>5, <1>6, <1>7, <1>8, <1>9, <1>10, ClearsKeeps

(* Nothing happens to the removers' debts when another call moves.         *)
LEMMA DebtsKept ==
    ASSUME NEW p \in Maint, NEW where, NEW of, NEW one, NEW idx, NEW full,
           Becomes(p, where, of, one, idx, full),
           p \in Removers => m[p].pc \notin {"read", "write"},
           p = "prune" /\ m[p].pc \in {"check", "remove"} /\ m[p].one # None =>
               (where \in {"check", "remove"} /\ one # None) \/ where = "write",
           p = "prune" => m[p].pc # "write", p = "wipe" => m[p].pc # "files"
    PROVE  \A v \in Versions : Owed(v) => Owed(v)'
BY DEF Owed, Becomes, Removers, Maint

LEMMA IndexListed ==
    /\ \A v \in Rvs(index) : Listed(v)
    /\ \A v \in FullDirs : Listed(v) \/ dir[v] = "full"
    /\ FullDirs \in SUBSET Versions /\ Rvs(<<>>) = {}
BY DEF Listed, FullDirs, Rvs

LEMMA TagStaleKeeps ==
    ASSUME StoreInv, TagStale
    PROVE  StoreInv'
<1> DEFINE p == "tag"
           r == [Idle EXCEPT !.pc = "write", !.idx = index, !.full = FullDirs]
<1>1. FilesOk /\ CallsOk /\ p \in Maint
  BY DEF StoreInv, Maint
<1>2. DOMAIN r = MaintFields /\ r.pc = "write" /\ r.of = {} /\ r.one = None
        /\ r.idx = index /\ r.full = FullDirs
  BY DEF Idle, MaintFields
<1>3. Start(p, r, 0)
  BY DEF TagStale
<1> HIDE DEF r
<1>4. m[p].pc = "idle" /\ Becomes(p, "write", {}, None, index, FullDirs)
  BY <1>1, <1>2, <1>3, StartDoes
<1>5. Clears({})
  BY <1>1, NothingCleared DEF TagStale, store, FilesOk
<1>6. \A v \in Versions : Owed(v) => Owed(v)'
  BY <1>1, <1>4, DebtsKept DEF Removers
<1>7. \A v \in Versions : pc[v] \in {"new", "end", "failed"} \/ Origin[v] = "import"
  <2> SUFFICES ASSUME NEW v \in Versions, pc[v] \notin {"new", "end", "failed"}, Origin[v] # "import"
               PROVE  FALSE
    OBVIOUS
  <2>1. "sampling" \in CellOps \/ "generating" \in CellOps
    BY StoreAssumption DEF CellOps, InFlight
  <2> QED BY <2>1 DEF TagStale, CanTake, Refused
<1>8. index \in Seq(StoreEntries) /\ "write" \in MaintPcs(p) /\ OneOk(p, "write", {}, None)
  BY <1>1 DEF FilesOk, MaintPcs, OneOk
<1>9. p \notin Removers /\ p # "reconcile"
  BY DEF Removers
<1> HIDE DEF p
<1> QED BY <1>1, <1>4, <1>5, <1>6, <1>7, <1>8, <1>9, IndexListed, ClearsKeeps

LEMMA PruneKeeps ==
    ASSUME StoreInv, Prune
    PROVE  StoreInv'
<1> DEFINE p == "prune"
           r == [Idle EXCEPT !.pc = "check", !.of = Dropped]
<1>1. FilesOk /\ CallsOk /\ p \in Maint
  BY DEF StoreInv, Maint
<1>2. DOMAIN r = MaintFields /\ r.pc = "check" /\ r.of = Dropped /\ r.one = None
        /\ r.idx = <<>> /\ r.full = {}
  BY DEF Idle, MaintFields
<1>3. Start(p, r, 0)
  BY DEF Prune
<1> HIDE DEF r
<1>4. m[p].pc = "idle" /\ Becomes(p, "check", Dropped, None, <<>>, {})
  BY <1>1, <1>2, <1>3, StartDoes
<1>5. Clears({})
  BY <1>1, NothingCleared DEF Prune, store, FilesOk
<1>6. \A v \in Versions : Owed(v) => Owed(v)'
  BY <1>1, <1>4, DebtsKept DEF Removers
<1>7. Dropped \in SUBSET Versions /\ "check" \in MaintPcs(p) /\ OneOk(p, "check", Dropped, None)
        /\ <<>> \in Seq(StoreEntries)
  BY DEF Dropped, DirsOnDisk, MaintPcs, OneOk
<1>8. p \notin Removers /\ p \notin Deleting /\ p # "reconcile"
  BY DEF Removers, Deleting
<1> HIDE DEF p
<1> QED BY <1>1, <1>4, <1>5, <1>6, <1>7, <1>8, IndexListed, ClearsKeeps

LEMMA ReconcileKeeps ==
    ASSUME StoreInv, Reconcile
    PROVE  StoreInv'
<1> DEFINE p == "reconcile"
           active == {v \in Versions : row[v] = "active"}
           r == [Idle EXCEPT !.pc = "read", !.of = active]
<1>1. FilesOk /\ CallsOk /\ p \in Maint /\ active \in SUBSET Versions
  BY DEF StoreInv, Maint
<1>2. DOMAIN r = MaintFields /\ r.pc = "read" /\ r.of = active /\ r.one = None
        /\ r.idx = <<>> /\ r.full = {}
  BY DEF Idle, MaintFields
<1>3. Start(p, r, 0)
  BY DEF Reconcile
<1> HIDE DEF r, active
<1>4. m[p].pc = "idle" /\ Becomes(p, "read", active, None, <<>>, {})
  BY <1>1, <1>2, <1>3, StartDoes
<1>5. Clears({})
  BY <1>1, NothingCleared DEF Reconcile, store, FilesOk
<1>6. \A v \in Versions : Owed(v) => Owed(v)'
  BY <1>1, <1>4, DebtsKept DEF Removers
<1>7. "read" \in MaintPcs(p) /\ OneOk(p, "read", active, None) /\ <<>> \in Seq(StoreEntries)
  BY DEF MaintPcs, OneOk
<1>8. p \notin Removers /\ p \notin Deleting
  BY DEF Removers, Deleting
<1> HIDE DEF p
<1> QED BY <1>1, <1>4, <1>5, <1>6, <1>7, <1>8, IndexListed, ClearsKeeps

LEMMA PruneScanKeeps ==
    ASSUME StoreInv, PruneScan
    PROVE  StoreInv'
<1> DEFINE p == "prune"
<1>1. FilesOk /\ CallsOk /\ p \in Maint /\ m[p].pc = "check"
  BY DEF StoreInv, Maint, PruneScan
<1>2. Clears({})
  BY <1>1, NothingCleared DEF PruneScan, store, FilesOk
<1>3. p \notin Removers /\ p \notin Deleting /\ p # "reconcile"
  BY DEF Removers, Deleting
<1>4. <<>> \in Seq(StoreEntries) /\ index \in Seq(StoreEntries) /\ {} \in SUBSET Versions
        /\ m[p].of \in SUBSET Versions /\ clock \in 0..MaxClock
  BY <1>1 DEF FilesOk, CallsOk, CallOk
<1>5. CASE m[p].one = None
  <2>1. Becomes(p, "idle", {}, None, <<>>, {})
    BY <1>1, <1>5, EndDoes DEF PruneScan, End
  <2>2. \A v \in Versions : Owed(v) => Owed(v)'
    BY <1>1, <1>5, <2>1, DebtsKept DEF Removers
  <2>3. "idle" \in MaintPcs(p) /\ OneOk(p, "idle", {}, None)
    BY DEF MaintPcs, OneOk
  <2> HIDE DEF p
  <2> QED BY <1>1, <1>2, <1>3, <1>4, <2>1, <2>2, <2>3, IndexListed, ClearsKeeps
<1>6. CASE m[p].one # None
  <2>1. Becomes(p, "write", m[p].of, clock, index, FullDirs)
    BY <1>1, <1>6, FieldsKeep DEF PruneScan, Becomes, MaintFields
  <2>2. \A v \in Versions : Owed(v) => Owed(v)'
    BY <1>1, <2>1, DebtsKept DEF Removers
  <2>3. "write" \in MaintPcs(p) /\ OneOk(p, "write", m[p].of, clock)
    BY <1>4 DEF MaintPcs, OneOk
  <2> HIDE DEF p
  <2> QED BY <1>1, <1>2, <1>3, <1>4, <2>1, <2>2, <2>3, IndexListed, ClearsKeeps
<1> QED BY <1>5, <1>6

LEMMA HighestOf ==
    ASSUME NEW S \in SUBSET Versions, S # {}
    PROVE  Max(S) \in S
<1>1. S \in SUBSET Nat /\ IsFiniteSet(S)
  BY StoreAssumption, FS_Subset
<1> QED BY <1>1, FiniteMax

LEMMA PruneCheckKeeps ==
    ASSUME StoreInv, PruneCheck
    PROVE  StoreInv'
<1> DEFINE p == "prune"
           v == Max(m[p].of)
<1>1. FilesOk /\ CallsOk /\ p \in Maint /\ m[p].pc = "check" /\ m[p].of # {}
  BY DEF StoreInv, Maint, PruneCheck
<1>2. Clears({})
  BY <1>1, NothingCleared DEF PruneCheck, store, FilesOk
<1>3. p \notin Removers /\ p \notin Deleting /\ p # "reconcile"
  BY DEF Removers, Deleting
<1>4. m[p].of \in SUBSET Versions /\ m[p].idx \in Seq(StoreEntries) /\ m[p].full \in SUBSET Versions
        /\ m[p].one \in {None, "deleted"}
  BY <1>1 DEF CallsOk, CallOk, OnesOk
<1>5. (\A u \in Rvs(m[p].idx) : Listed(u)) /\ \A u \in m[p].full : Listed(u)
  BY <1>1 DEF Listed
<1>6. "check" \in MaintPcs(p) /\ "remove" \in MaintPcs(p)
  BY DEF MaintPcs
<1>7. CASE row[v] = "active"
  <2>1. Becomes(p, "check", m[p].of \ {v}, m[p].one, m[p].idx, m[p].full)
    BY <1>1, <1>7, FieldsKeep DEF PruneCheck, Becomes, MaintFields
  <2> HIDE DEF v
  <2>2. \A u \in Versions : Owed(u) => Owed(u)'
    BY <1>1, <2>1, DebtsKept DEF Removers
  <2>3. OneOk(p, "check", m[p].of \ {v}, m[p].one) /\ m[p].of \ {v} \in SUBSET Versions
    BY <1>4 DEF OneOk
  <2> HIDE DEF p
  <2> QED BY <1>1, <1>2, <1>3, <1>4, <1>5, <1>6, <2>1, <2>2, <2>3, ClearsKeeps
<1>8. CASE row[v] # "active"
  <2>1. Becomes(p, "remove", m[p].of, m[p].one, m[p].idx, m[p].full)
    BY <1>1, <1>8, FieldsKeep DEF PruneCheck, Becomes, MaintFields
  <2> HIDE DEF v
  <2>2. \A u \in Versions : Owed(u) => Owed(u)'
    BY <1>1, <2>1, DebtsKept DEF Removers
  <2>3. OneOk(p, "remove", m[p].of, m[p].one)
    BY <1>1, <1>4 DEF OneOk
  <2> HIDE DEF p
  <2> QED BY <1>1, <1>2, <1>3, <1>4, <1>5, <1>6, <2>1, <2>2, <2>3, ClearsKeeps
<1> QED BY <1>7, <1>8

LEMMA PruneRemoveKeeps ==
    ASSUME StoreInv, PruneRemove
    PROVE  StoreInv'
<1> DEFINE p == "prune"
<1>1. FilesOk /\ CallsOk /\ p \in Maint /\ m[p].pc = "remove" /\ m[p].of # {}
  BY DEF StoreInv, Maint, PruneRemove, CallsOk, OnesOk
<1>2. p \notin Removers /\ p \notin Deleting /\ p # "reconcile"
  BY DEF Removers, Deleting
<1>3. m[p].of \in SUBSET Versions /\ m[p].idx \in Seq(StoreEntries) /\ m[p].full \in SUBSET Versions
  BY <1>1 DEF CallsOk, CallOk
<1>4. (\A u \in Rvs(m[p].idx) : Listed(u)) /\ \A u \in m[p].full : Listed(u)
  BY <1>1 DEF Listed
<1>5. PICK v \in Versions : v = Max(m[p].of)
  BY <1>1, <1>3, HighestOf
<1>6. PICK f \in {0, 1} :
        /\ RmTree({v}, f)
        /\ IF f = 0 THEN DropRows({v}) ELSE row' = row
        /\ m' = [m EXCEPT ![p].pc = "check", ![p].of = @ \ {v},
                          ![p].one = IF f = 0 THEN "deleted" ELSE @]
  BY <1>5 DEF PruneRemove
<1>7. /\ index' = index /\ latest' = latest /\ lock' = lock /\ read' = read
      /\ pc' = pc /\ stamp' = stamp /\ clock' = clock
      /\ exposed' = exposed \cup ({v} \cap InFlight) \cup Gutted({v})
  BY <1>5 DEF PruneRemove
<1> DEFINE one == IF f = 0 THEN "deleted" ELSE m[p].one
<1>8. Becomes(p, "check", m[p].of \ {v}, one, m[p].idx, m[p].full)
  BY <1>1, <1>6, FieldsKeep DEF Becomes, MaintFields
<1>9. /\ Clears({v})
      /\ dir'[v] \in {"none", dir[v]} \/ v \in exposed'
  <2>1. exposed \subseteq exposed' /\ exposed' \subseteq Versions /\ {v} \in SUBSET Versions
    BY <1>1, <1>5, <1>7 DEF FilesOk, Gutted
  <2>2. row' = row \/ \E w \in SUBSET Versions : DropRows(w)
    BY <1>6, <2>1
  <2> QED BY <1>1, <1>6, <1>7, <2>1, <2>2, TreesGo
<1>10. (\A u \in Versions : Owed(u) => Owed(u)') /\ (one # None => Owed(v)')
  BY <1>1, <1>8, StoreAssumption DEF Owed, Becomes, Removers, Maint
<1>11. one # None \/ dir'[v] = dir[v] \/ v \in exposed'
  <2>1. f = 0 => one # None
    BY StoreAssumption
  <2>2. f = 1 => dir'[v] # "none"
    BY <1>5, <1>6 DEF RmTree, FilesOk
  <2> QED BY <2>1, <2>2, <1>9
<1>12. OneOk(p, "check", m[p].of \ {v}, one) /\ m[p].of \ {v} \in SUBSET Versions
         /\ "check" \in MaintPcs(p)
  <2>1. one \in {None, "deleted"}
    BY <1>1 DEF CallsOk, OnesOk
  <2> QED BY <1>3, <2>1 DEF OneOk, MaintPcs
<1>13. m[p].pc # "latest"
  BY <1>1
<1> HIDE DEF p, one
<1> DEFINE of == m[p].of \ {v}
           vs == {v}
<1>14. \A u \in vs \ exposed' :
          dir'[u] = dir[u] \/ Owed(u)' \/ (u \notin Rvs(index) /\ u \notin Rvs(read))
  BY <1>10, <1>11
<1>15. Clears(vs) /\ of \in SUBSET Versions /\ "check" \in MaintPcs(p)
         /\ Becomes(p, "check", of, one, m[p].idx, m[p].full) /\ OneOk(p, "check", of, one)
  BY <1>8, <1>9, <1>12
<1> HIDE DEF of, vs
<1> QED BY <1>1, <1>2, <1>3, <1>4, <1>10, <1>13, <1>14, <1>15, ClearsKeeps

LEMMA RecScanKeeps ==
    ASSUME StoreInv, RecScan
    PROVE  StoreInv'
<1> DEFINE p == "reconcile"
           bare == {v \in Versions : dir[v] = "partial"}
<1>1. FilesOk /\ CallsOk /\ ListedOk /\ PlacesOk /\ p \in Maint /\ m[p].pc = "scan"
  BY DEF StoreInv, Maint, RecScan
<1>2. PICK gone \in SUBSET bare, f \in {0, 1} :
        /\ RmTree(gone, f)
        /\ exposed' = exposed \cup (gone \cap InFlight)
        /\ m' = [m EXCEPT ![p].full = FullDirs, ![p].pc = "write", ![p].of = bare \ gone,
                          ![p].one = Repaired(m[p].idx, gone, clock)]
  BY DEF RecScan
<1> DEFINE new == Repaired(m[p].idx, gone, clock)
<1>3. Becomes(p, "write", bare \ gone, new, m[p].idx, FullDirs)
  BY <1>1, <1>2, FieldsKeep DEF Becomes, MaintFields
<1>4. /\ Clears(gone)
      /\ \A v \in Versions \ gone : dir'[v] = dir[v]
  <2>1. exposed \subseteq exposed' /\ exposed' \subseteq Versions /\ gone \in SUBSET Versions
          /\ gone \cap InFlight \subseteq exposed'
    BY <1>1, <1>2 DEF FilesOk
  <2>2. Gutted(gone) = {}
    BY DEF Gutted
  <2>3. /\ row' = row /\ index' = index /\ latest' = latest /\ lock' = lock /\ read' = read
        /\ pc' = pc /\ stamp' = stamp /\ clock' = clock
    BY DEF RecScan
  <2> QED BY <1>1, <1>2, <2>1, <2>2, <2>3, TreesGo
<1>5. m[p].idx \in Seq(StoreEntries) /\ clock \in 0..MaxClock /\ FullDirs \in SUBSET Versions
        /\ bare \ gone \in SUBSET Versions
  BY <1>1 DEF CallsOk, CallOk, FilesOk, FullDirs
<1>6. new \in Seq(StoreEntries) /\ Rvs(new) = (Rvs(m[p].idx) \ gone) \cup (FullDirs \ Rvs(m[p].idx))
  <2> DEFINE a == Without(m[p].idx, gone)
             b == Entries(FullDirs \ Rvs(m[p].idx), clock)
  <2>1. a \in Seq(StoreEntries) /\ Rvs(a) = Rvs(m[p].idx) \ gone
    BY <1>5, WithoutLists
  <2>2. b \in Seq(StoreEntries) /\ Rvs(b) = FullDirs \ Rvs(m[p].idx)
    BY <1>5, EntriesList
  <2>3. new = a \o b
    BY DEF Repaired
  <2> HIDE DEF a, b
  <2> QED BY <2>1, <2>2, <2>3, ListsJoin
<1> HIDE DEF new
<1>7. /\ FullDirs \subseteq Rvs(new) /\ Rvs(new) \subseteq Rvs(m[p].idx) \cup FullDirs
      /\ \A v \in Rvs(new) : dir'[v] # "none" => v \in (bare \ gone) \cup FullDirs
  <2>1. FullDirs \subseteq Rvs(new)
    BY <1>2, <1>6 DEF FullDirs
  <2>2. Rvs(m[p].idx) \subseteq Versions /\ dir \in [Versions -> {"none", "partial", "full"}]
    BY <1>1, <1>5, ListedAreVersions DEF FilesOk
  <2>3. \A v \in Rvs(new) : v \in Versions \ gone
    BY <1>2, <1>6, <2>2 DEF FullDirs
  <2> QED BY <2>1, <2>2, <2>3, <1>4, <1>6 DEF FullDirs
<1>8. \A v \in Rvs(m[p].idx) : Listed(v)
  BY <1>1 DEF Listed
<1>9. \A v \in gone \ exposed' : v \notin Rvs(index) /\ v \notin Rvs(read)
  BY <1>1, <1>2 DEF ListedOk, Listed
<1>10. p \notin Removers /\ p \notin Deleting
  BY DEF Removers, Deleting
<1>11. \A v \in Versions : Owed(v) => Owed(v)'
  BY <1>1, <1>3, DebtsKept DEF Removers
<1>12. "write" \in MaintPcs(p) /\ OneOk(p, "write", bare \ gone, new)
  BY <1>6 DEF MaintPcs, OneOk
<1> HIDE DEF p, bare
<1> QED BY <1>1, <1>3, <1>4, <1>5, <1>7, <1>8, <1>9, <1>10, <1>11, <1>12,
           IndexListed, ClearsKeeps

(* A version that has a directory or an entry has had its producer at      *)
(* work, and so has one with a row: it is in flight or ended.              *)
LEMMA BeganOrEnded ==
    ASSUME StoreInv, NEW v \in Versions,
           dir[v] # "none" \/ v \in Rvs(index) \/ row[v] # "none", v \notin InFlight
    PROVE  pc[v] \in {"end", "failed"}
<1>1. pc[v] \in {"new", "end", "failed"}
  BY DEF InFlight
<1>2. v \in Rvs(index) => pc[v] # "new"
  BY DEF StoreInv, ListedOk, Listed
<1> QED BY <1>1, <1>2 DEF StoreInv, PlacesOk

LEMMA DeleteVersionKeeps ==
    ASSUME StoreInv, NEW v \in Versions, DeleteVersion(v)
    PROVE  StoreInv'
<1> DEFINE p == "delete_version"
           r == [Idle EXCEPT !.pc = "read", !.of = {v}]
<1>1. FilesOk /\ CallsOk /\ p \in Maint
  BY DEF StoreInv, Maint
<1>2. DOMAIN r = MaintFields /\ r.pc = "read" /\ r.of = {v} /\ r.one = None
        /\ r.idx = <<>> /\ r.full = {}
  BY DEF Idle, MaintFields
<1>3. Start(p, r, 0)
  BY DEF DeleteVersion
<1> HIDE DEF r
<1>4. m[p].pc = "idle" /\ Becomes(p, "read", {v}, None, <<>>, {})
  BY <1>1, <1>2, <1>3, StartDoes
<1>5. Clears({v}) /\ dir'[v] = "none"
  <2>1. exposed' = exposed \cup ({v} \cap InFlight) /\ RmTree({v}, 0) /\ DropRows({v})
    BY DEF DeleteVersion
  <2>2. Gutted({v}) = {}
    BY <2>1 DEF RmTree, Gutted, FilesOk
  <2>3. index' = index /\ latest' = latest /\ lock' = lock /\ read' = read
        /\ pc' = pc /\ stamp' = stamp /\ clock' = clock
    BY DEF DeleteVersion
  <2>4. exposed \subseteq exposed' /\ exposed' \subseteq Versions /\ {v} \in SUBSET Versions
    BY <1>1, <2>1 DEF FilesOk
  <2> QED BY <1>1, <2>1, <2>2, <2>3, <2>4, TreesGo
<1>6. \A u \in Versions : Owed(u) => Owed(u)'
  BY <1>1, <1>4, DebtsKept DEF Removers
<1>7. Owed(v)'
  BY <1>4 DEF Owed, Becomes, Removers
<1>8. v \in exposed' \/ pc[v] \in {"end", "failed"}
  <2>1. dir[v] # "none" \/ v \in Rvs(index)
    BY DEF DeleteVersion, DirsOnDisk
  <2>2. v \in InFlight => v \in exposed'
    BY <1>5 DEF Clears
  <2> QED BY <2>1, <2>2, BeganOrEnded
<1>9. \A u \in Versions : pc[u] \in {"new", "end", "failed"} \/ Origin[u] = "import"
  <2> SUFFICES ASSUME NEW u \in Versions, pc[u] \notin {"new", "end", "failed"}, Origin[u] # "import"
               PROVE  FALSE
    OBVIOUS
  <2>1. "sampling" \in CellOps \/ "generating" \in CellOps
    BY StoreAssumption DEF CellOps, InFlight
  <2> QED BY <2>1 DEF DeleteVersion, CanTake, Refused
<1>10. "read" \in MaintPcs(p) /\ OneOk(p, "read", {v}, None) /\ p # "reconcile"
         /\ <<>> \in Seq(StoreEntries) /\ {v} \in SUBSET Versions
  BY DEF MaintPcs, OneOk
<1> HIDE DEF p
<1> QED BY <1>1, <1>4, <1>5, <1>6, <1>7, <1>8, <1>9, <1>10, IndexListed, ClearsKeeps

LEMMA DeleteVersionFailsKeeps ==
    ASSUME StoreInv, NEW v \in Versions, DeleteVersionFails(v)
    PROVE  StoreInv'
<1> DEFINE p == "delete_version"
<1>1. FilesOk /\ CallsOk /\ p \in Maint /\ p \in Removers
  BY DEF StoreInv, Maint, Removers
<1>2. /\ m' = m /\ m[p] = Idle /\ RmTree({v}, 1) /\ DropRows({v})
      /\ exposed' = exposed \cup ({v} \cap InFlight) \cup Gutted({v})
      /\ index' = index /\ latest' = latest /\ lock' = lock /\ read' = read
      /\ pc' = pc /\ stamp' = stamp /\ clock' = clock
  BY DEF DeleteVersionFails
<1>3. Becomes(p, "idle", {}, None, <<>>, {}) /\ m[p].pc = "idle"
  BY <1>1, <1>2, IdleFields DEF Becomes, CallsOk
<1>4. exposed \subseteq exposed' /\ exposed' \subseteq Versions /\ {v} \in SUBSET Versions
  BY <1>1, <1>2 DEF FilesOk, Gutted
<1>5. Clears({v}) /\ (dir'[v] \in {"none", dir[v]} \/ v \in exposed')
  BY <1>1, <1>2, <1>4, TreesGo
<1>6. dir'[v] # "none"
  BY <1>1, <1>2 DEF RmTree, FilesOk
<1>7. \A u \in Versions : Owed(u) => Owed(u)'
  BY <1>2 DEF Owed
<1>8. "idle" \in MaintPcs(p) /\ OneOk(p, "idle", {}, None) /\ p # "reconcile"
        /\ <<>> \in Seq(StoreEntries) /\ {} \in SUBSET Versions
  BY DEF MaintPcs, OneOk
<1> HIDE DEF p
<1> QED BY <1>1, <1>3, <1>4, <1>5, <1>6, <1>7, <1>8, IndexListed, ClearsKeeps

LEMMA DeleteRunKeeps ==
    ASSUME StoreInv, NEW v \in Versions, DeleteRun(v)
    PROVE  StoreInv'
<1> DEFINE p == "delete_run"
           r == [Idle EXCEPT !.pc = "read", !.of = {v}]
<1>1. FilesOk /\ CallsOk /\ p \in Maint
  BY DEF StoreInv, Maint
<1>2. DOMAIN r = MaintFields /\ r.pc = "read" /\ r.of = {v} /\ r.one = None
        /\ r.idx = <<>> /\ r.full = {}
  BY DEF Idle, MaintFields
<1>3. PICK f \in {0, 1} : Start(p, r, f) /\ RmTree({v}, f)
  BY DEF DeleteRun
<1> HIDE DEF r
<1>4. m[p].pc = "idle" /\ Becomes(p, "read", {v}, None, <<>>, {})
  BY <1>1, <1>2, <1>3, StartDoes
<1>5. Clears({v}) /\ (dir'[v] # "full" \/ v \in exposed')
  <2>1. exposed' = exposed \cup ({v} \cap InFlight) \cup Gutted({v}) \cup Unmoved({v})
    BY DEF DeleteRun
  <2>2. /\ row' = row /\ index' = index /\ latest' = latest /\ lock' = lock /\ read' = read
        /\ pc' = pc /\ stamp' = stamp /\ clock' = clock
    BY DEF DeleteRun
  <2>3. exposed \subseteq exposed' /\ exposed' \subseteq Versions /\ {v} \in SUBSET Versions
    BY <1>1, <2>1 DEF FilesOk, Gutted, Unmoved
  <2>4. dir'[v] = "full" => v \in exposed'
    BY <2>1 DEF Unmoved
  <2> QED BY <1>1, <1>3, <2>1, <2>2, <2>3, <2>4, TreesGo
<1>6. \A u \in Versions : Owed(u) => Owed(u)'
  BY <1>1, <1>4, DebtsKept DEF Removers
<1>7. Owed(v)'
  BY <1>4 DEF Owed, Becomes, Removers
<1>8. v \in exposed' \/ pc[v] \in {"end", "failed"}
  <2>1. row[v] # "none"
    BY DEF DeleteRun
  <2>2. v \in InFlight => v \in exposed'
    BY <1>5 DEF Clears
  <2> QED BY <2>1, <2>2, BeganOrEnded
<1>9. "read" \in MaintPcs(p) /\ OneOk(p, "read", {v}, None) /\ p # "reconcile"
         /\ <<>> \in Seq(StoreEntries) /\ {v} \in SUBSET Versions /\ p \notin Deleting
  BY DEF MaintPcs, OneOk, Deleting
<1>10. \A u \in {v} \ exposed' : pc[u] \in {"end", "failed"} /\ dir'[u] # "full" /\ Owed(u)'
  BY <1>5, <1>7, <1>8
<1> HIDE DEF p
<1> QED BY <1>1, <1>4, <1>5, <1>6, <1>9, <1>10, IndexListed, ClearsKeeps

LEMMA CleanupKeeps ==
    ASSUME StoreInv, Cleanup
    PROVE  StoreInv'
<1> DEFINE p == "cleanup"
           r == [Idle EXCEPT !.pc = "remove", !.of = CleanupVictims, !.one = Survivor]
<1>1. FilesOk /\ CallsOk /\ p \in Maint
  BY DEF StoreInv, Maint
<1>2. DOMAIN r = MaintFields /\ r.pc = "remove" /\ r.of = CleanupVictims /\ r.one = Survivor
        /\ r.idx = <<>> /\ r.full = {}
  BY DEF Idle, MaintFields
<1>3. Start(p, r, 0)
  BY DEF Cleanup
<1> HIDE DEF r
<1>4. m[p].pc = "idle" /\ Becomes(p, "remove", CleanupVictims, Survivor, <<>>, {})
  BY <1>1, <1>2, <1>3, StartDoes
<1>5. CleanupVictims \subseteq DirsOnDisk /\ DirsOnDisk \subseteq Versions
        /\ Survivor \in DirsOnDisk
  <2>1. CleanupVictims \subseteq DirsOnDisk /\ DirsOnDisk \subseteq Versions /\ DirsOnDisk # {}
    BY DEF CleanupVictims, DirsOnDisk, Cleanup
  <2>2. Current \in SUBSET DirsOnDisk
    BY DEF Current
  <2> QED BY <2>1, <2>2, HighestOf DEF Survivor
<1>6. exposed' = exposed \cup ((CleanupVictims \cup {Survivor}) \cap InFlight)
  BY DEF Cleanup
<1>7. exposed \subseteq exposed' /\ exposed' \subseteq Versions
  BY <1>1, <1>5, <1>6 DEF FilesOk
<1>8. Clears({})
  BY <1>1, <1>7, NothingCleared DEF Cleanup, store
<1>9. \A u \in Versions : Owed(u) => Owed(u)'
  BY <1>1, <1>4, DebtsKept DEF Removers
<1>10. \A v \in CleanupVictims \ exposed' : pc[v] \in {"end", "failed"}
  <2> SUFFICES ASSUME NEW v \in CleanupVictims \ exposed' PROVE pc[v] \in {"end", "failed"}
    OBVIOUS
  <2>1. v \in Versions /\ dir[v] # "none" /\ v \notin InFlight
    BY <1>5, <1>6 DEF DirsOnDisk
  <2> QED BY <2>1, BeganOrEnded
<1>11. "remove" \in MaintPcs(p) /\ OneOk(p, "remove", CleanupVictims, Survivor)
         /\ p # "reconcile" /\ <<>> \in Seq(StoreEntries) /\ CleanupVictims \in SUBSET Versions
         /\ p \notin Deleting
  BY <1>5 DEF MaintPcs, OneOk, Deleting
<1> HIDE DEF p
<1> QED BY <1>1, <1>4, <1>8, <1>9, <1>10, <1>11, IndexListed, ClearsKeeps

LEMMA CleanupRemoveKeeps ==
    ASSUME StoreInv, CleanupRemove
    PROVE  StoreInv'
<1> DEFINE p == "cleanup"
           of == m[p].of
<1>1. FilesOk /\ CallsOk /\ RemovedOk /\ p \in Maint /\ m[p].pc = "remove"
  BY DEF StoreInv, Maint, CleanupRemove
<1>2. of \in SUBSET Versions /\ m[p].idx \in Seq(StoreEntries)
        /\ m[p].full \in SUBSET Versions /\ m[p].one \in Versions
  BY <1>1 DEF CallsOk, CallOk, OnesOk
<1>3. Clears(of) /\ \A v \in of : dir'[v] # "full" \/ v \in exposed'
  <2>1. PICK f \in {0, 1} : RmTree(of, f)
    BY DEF CleanupRemove
  <2>2. /\ index' = index /\ latest' = latest /\ lock' = lock /\ read' = read
        /\ pc' = pc /\ stamp' = stamp /\ clock' = clock /\ DropRows(of)
        /\ exposed' = exposed \cup (of \cap InFlight) \cup Gutted(of) \cup Unmoved(of)
    BY DEF CleanupRemove
  <2>3. exposed \subseteq exposed' /\ exposed' \subseteq Versions
    BY <1>1, <1>2, <2>2 DEF FilesOk, Gutted, Unmoved
  <2>4. \A v \in of : dir'[v] = "full" => v \in exposed'
    BY <2>2 DEF Unmoved
  <2>5. row' = row \/ \E w \in SUBSET Versions : DropRows(w)
    BY <1>2, <2>2
  <2>6. Gutted(of) \subseteq exposed' /\ of \cap InFlight \subseteq exposed'
    BY <2>2
  <2> HIDE DEF of
  <2> QED BY <1>1, <1>2, <2>1, <2>2, <2>3, <2>4, <2>5, <2>6, TreesGo
<1>4. p # "reconcile" /\ p \notin Deleting /\ <<>> \in Seq(StoreEntries)
        /\ p \in Removers /\ "idle" \in MaintPcs(p) /\ "read" \in MaintPcs(p)
  BY DEF MaintPcs, Deleting, Removers
<1>5. \A v \in of \ exposed' : pc[v] \in {"end", "failed"}
  BY <1>1, <1>3, <1>4 DEF RemovedOk, Clears
<1>6. (\A u \in Rvs(m[p].idx) : Listed(u)) /\ \A u \in m[p].full : Listed(u)
  BY <1>1 DEF Listed
<1>7. CASE of = {}
  <2>1. Becomes(p, "idle", {}, None, <<>>, {})
    BY <1>1, <1>7, EndDoes DEF CleanupRemove
  <2>2. \A u \in Versions : Owed(u) => Owed(u)'
    BY <1>1, <2>1, DebtsKept DEF Removers
  <2>3. OneOk(p, "idle", {}, None)
    BY DEF OneOk
  <2> HIDE DEF p, of
  <2> QED BY <1>1, <1>3, <1>4, <1>7, <2>1, <2>2, <2>3, IndexListed, ClearsKeeps
<1>8. CASE of # {}
  <2>1. Becomes(p, "read", of, m[p].one, m[p].idx, m[p].full)
    BY <1>1, <1>8, FieldsKeep DEF CleanupRemove, Becomes, MaintFields
  <2>2. \A u \in Versions : Owed(u) => Owed(u)'
    BY <1>1, <2>1, DebtsKept DEF Removers
  <2>3. OneOk(p, "read", of, m[p].one)
    BY <1>2, <1>8 DEF OneOk
  <2>4. \A u \in of : Owed(u)'
    BY <2>1 DEF Owed, Becomes, Removers
  <2> HIDE DEF p, of
  <2> QED BY <1>1, <1>2, <1>3, <1>4, <1>5, <1>6, <2>1, <2>2, <2>3, <2>4, ClearsKeeps
<1> QED BY <1>7, <1>8
-----------------------------------------------------------------------------
(* Maintenance calls: writing the manifests.  The versions a caller's cell *)
(* lock protects cannot have changed since it read the index.              *)
LEMMA ProtectedListed ==
    ASSUME StoreInv, NEW p \in Deleting, m[p].pc \in {"write", "latest"},
           NEW v \in Guarded(p) \ exposed
    PROVE  v \in Rvs(index) /\ v \in Rvs(m[p].idx) /\ dir[v] = "full" /\ v \in Versions
BY DEF StoreInv, GuardHolds, Guarded, FullDirs

(* What the removers' write leaves is what was listed, less what they      *)
(* removed; what they removed is no report any more.                       *)
LEMMA WriteBackKeeps ==
    ASSUME StoreInv, NEW p \in Removers, NEW g, WriteBack(p, "write", "latest", g),
           g = {} \/ (p = "delete_version" /\ g = Guarded(p)),
           exposed' = {} /\ Rvs(index') = Rvs(index) \ m[p].of => LatestTells'
    PROVE  StoreInv'
<1> DEFINE list == Without(m[p].idx, m[p].of)
           of == m[p].of
<1>1. FilesOk /\ CallsOk /\ PlacesOk /\ ListedOk /\ EndedListed /\ RemovedOk /\ EntriesTell
  BY DEF StoreInv
<1>2. p \in Maint /\ p # "reconcile" /\ p # "prune" /\ p # "tag"
        /\ (p = "delete_version" => p \in Deleting)
  BY DEF Removers, Maint, Deleting
<1>3. m[p].pc = "write" /\ Becomes(p, "latest", of, m[p].one, m[p].idx, {})
  BY <1>1, <1>2, WriteBackDoes
<1>4. of \in SUBSET Versions /\ m[p].idx \in Seq(StoreEntries)
  BY <1>1, <1>2 DEF CallsOk, CallOk
<1>5. list \in Seq(StoreEntries) /\ Rvs(list) = Rvs(m[p].idx) \ of
  BY <1>4, WithoutLists
<1>6. /\ index' = list /\ latest' = latest /\ dir' = dir /\ row' = row /\ lock' = lock
      /\ read' = read /\ pc' = pc /\ stamp' = stamp /\ clock' = clock
      /\ exposed' = exposed \cup (Changed(p) \ g) \cup (IF lock = None THEN {} ELSE of)
  BY DEF WriteBack
<1>7. exposed \subseteq exposed' /\ exposed' \subseteq Versions
        /\ (lock # None => of \subseteq exposed')
  <2>1. Changed(p) \subseteq Versions
    BY DEF Changed
  <2> QED BY <1>1, <1>4, <1>6, <2>1 DEF FilesOk
<1> HIDE DEF list
<1>8. Rewrites(list)
  BY <1>1, <1>5, <1>6, <1>7 DEF Rewrites, FilesOk
<1>9. \A v \in Versions \ exposed' :
        \/ v \in Rvs(index) <=> v \in Rvs(m[p].idx)
        \/ v \in Rvs(index) /\ v \in Rvs(m[p].idx) /\ dir[v] = "full"
  <2> SUFFICES ASSUME NEW v \in Versions \ exposed',
                      ~(v \in Rvs(index) <=> v \in Rvs(m[p].idx))
               PROVE  v \in Rvs(index) /\ v \in Rvs(m[p].idx) /\ dir[v] = "full"
    OBVIOUS
  <2>1. v \in Changed(p)
    BY DEF Changed
  <2>2. v \in g
    BY <2>1, <1>6
  <2> QED BY <2>2, <1>2, <1>3, <1>7, ProtectedListed
<1>10. \A v \in of \ exposed : dir[v] # "full"
  BY <1>1, <1>3 DEF RemovedOk
<1>11. \A v \in Versions \ exposed' : dir[v] = "full" =>
          /\ v \in Rvs(index) => v \in Rvs(list)
          /\ v \in Rvs(list) /\ lock # None => v \in Rvs(index)
  BY <1>5, <1>7, <1>9, <1>10
<1>12. \A v \in Versions \ of : Owed(v) => Owed(v)'
  BY <1>2, <1>3 DEF Owed, Becomes, Removers, Maint
<1>13. \A v \in Versions \ exposed' :
          v \in Rvs(list) \/ v \in Rvs(read) => dir[v] = "full" \/ Owed(v)'
  <2> SUFFICES ASSUME NEW v \in Versions \ exposed', v \in Rvs(list) \/ v \in Rvs(read)
               PROVE  dir[v] = "full" \/ Owed(v)'
    OBVIOUS
  <2>1. v \notin of
    <3>1. CASE v \in Rvs(list)
      BY <3>1, <1>5
    <3>2. CASE v \in Rvs(read)
      <4>1. lock # None
        BY <3>2, <1>1, IndexListed DEF PlacesOk
      <4> QED BY <4>1, <1>7
    <3> QED BY <3>1, <3>2
  <2>2. dir[v] = "full" \/ v \in Rvs(index) \/ v \in Rvs(read)
    BY <1>5, <1>9
  <2>3. dir[v] = "full" \/ Owed(v)
    BY <2>2, <1>1, <1>7 DEF EntriesTell
  <2> QED BY <2>1, <2>3, <1>12
<1>14. \A v \in Rvs(list) : Listed(v)
  BY <1>2, <1>5 DEF Listed
<1>15. LatestTells'
  <2>1. CASE exposed' = {}
    <3>1. Rvs(index) \subseteq Versions /\ Rvs(m[p].idx) \subseteq Versions
      BY <1>1, <1>4, ListedAreVersions DEF FilesOk
    <3>2. Rvs(index) = Rvs(m[p].idx)
      BY <2>1, <3>1, <1>9
    <3> QED BY <2>1, <3>2, <1>5, <1>6
  <2>2. CASE exposed' # {}
    BY <2>2 DEF LatestTells
  <2> QED BY <2>1, <2>2
<1>16. "latest" \in MaintPcs(p) /\ OneOk(p, "latest", of, m[p].one) /\ {} \in SUBSET Versions /\ p # "wipe"
  <2>1. "latest" \in MaintPcs(p)
    BY DEF MaintPcs, Removers
  <2>2. p = "cleanup" => m[p].one \in Versions
    BY <1>1, <1>3 DEF CallsOk, OnesOk
  <2>3. of # {}
    BY <1>1, <1>3 DEF CallsOk, OnesOk, Removers
  <2> QED BY <2>1, <2>2, <2>3, <1>2 DEF OneOk, Removers
<1> HIDE DEF of
<1>17. of = m[p].of /\ {} \subseteq m[p].full
  BY DEF of
<1> QED BY <1>2, <1>3, <1>4, <1>8, <1>11, <1>13, <1>14, <1>15, <1>16, <1>17, RewritesKeeps

LEMMA DvWriteKeeps ==
    ASSUME StoreInv, DvWrite
    PROVE  StoreInv'
<1> DEFINE p == "delete_version"
<1>1. FilesOk /\ CallsOk /\ LatestTells /\ p \in Maint /\ p \in Removers
  BY DEF StoreInv, Maint, Removers
<1>2. WriteBack(p, "write", "latest", Guarded(p))
  BY DEF DvWrite
<1>3. m[p].pc = "write" /\ Becomes(p, "latest", m[p].of, m[p].one, m[p].idx, {})
  BY <1>1, <1>2, WriteBackDoes
<1>4. ASSUME exposed' = {}, Rvs(index') = Rvs(index) \ m[p].of PROVE LatestTells'
  <2>1. exposed = {} /\ latest' = latest /\ index' \in Seq(StoreEntries)
          /\ index \in Seq(StoreEntries)
    <3>1. exposed \subseteq exposed' /\ latest' = latest /\ index' = Without(m[p].idx, m[p].of)
      BY <1>2 DEF WriteBack
    <3>2. m[p].idx \in Seq(StoreEntries)
      BY <1>1 DEF CallsOk, CallOk
    <3> QED BY <1>1, <1>4, <3>1, <3>2, WithoutLists DEF FilesOk
  <2>2. CASE Names(latest, index)
    <3>1. CASE latest = None
      <4>1. Rvs(index') = {}
        BY <2>1, <2>2, <3>1, <1>4, IndexListed DEF Names
      <4> QED BY <2>1, <3>1, <4>1, ListedAreVersions DEF LatestTells, Names
    <3>2. CASE latest # None
      BY <2>1, <2>2, <3>2, <1>3, <1>4 DEF LatestTells, Names, Becomes
    <3> QED BY <3>1, <3>2
  <2>3. CASE ~Names(latest, index)
    BY <2>1, <2>3, <1>1, <1>3 DEF LatestTells, Becomes, Maint
  <2> QED BY <2>2, <2>3
<1> QED BY <1>1, <1>2, <1>4, WriteBackKeeps

LEMMA DrWriteKeeps ==
    ASSUME StoreInv, DrWrite
    PROVE  StoreInv'
<1> DEFINE p == "delete_run"
<1>1. CallsOk /\ p \in Maint /\ p \in Removers
  BY DEF StoreInv, Maint, Removers
<1>2. WriteBack(p, "write", "latest", {})
  BY DEF DrWrite
<1>3. m'[p].pc = "latest"
  BY <1>1, <1>2, WriteBackDoes DEF Becomes
<1>4. LatestTells'
  BY <1>3 DEF LatestTells
<1> QED BY <1>1, <1>2, <1>4, WriteBackKeeps

LEMMA CleanupWriteKeeps ==
    ASSUME StoreInv, CleanupWrite
    PROVE  StoreInv'
<1> DEFINE p == "cleanup"
<1>1. FilesOk /\ CallsOk /\ LatestTells /\ p \in Maint /\ p \in Removers
  BY DEF StoreInv, Maint, Removers
<1>2. WriteBack(p, "write", "latest", {})
  BY DEF CleanupWrite
<1>3. m[p].pc = "write" /\ Becomes(p, "latest", m[p].of, m[p].one, m[p].idx, {})
  BY <1>1, <1>2, WriteBackDoes
<1>4. ASSUME exposed' = {}, Rvs(index') = Rvs(index) \ m[p].of PROVE LatestTells'
  <2>1. exposed = {} /\ latest' = latest /\ index' \in Seq(StoreEntries)
          /\ index \in Seq(StoreEntries)
    <3>1. exposed \subseteq exposed' /\ latest' = latest /\ index' = Without(m[p].idx, m[p].of)
      BY <1>2 DEF WriteBack
    <3>2. m[p].idx \in Seq(StoreEntries)
      BY <1>1 DEF CallsOk, CallOk
    <3> QED BY <1>1, <1>4, <3>1, <3>2, WithoutLists DEF FilesOk
  <2>2. CASE latest # None
    BY <2>1, <2>2, <1>3 DEF LatestTells, Becomes
  <2>3. CASE latest = None
    <3>1. CASE Names(latest, index)
      <4>1. Rvs(index') = {}
        BY <2>1, <2>3, <3>1, <1>4, IndexListed DEF Names
      <4> QED BY <2>1, <2>3, <4>1, ListedAreVersions DEF LatestTells, Names
    <3>2. CASE ~Names(latest, index)
      BY <2>1, <2>3, <3>2, <1>1, <1>3 DEF LatestTells, Becomes, Maint
    <3> QED BY <3>1, <3>2
  <2> QED BY <2>2, <2>3
<1> QED BY <1>1, <1>2, <1>4, WriteBackKeeps

LEMMA TagWriteKeeps ==
    ASSUME StoreInv, TagWrite
    PROVE  StoreInv'
<1> DEFINE p == "tag"
           list == m[p].idx
<1>1. FilesOk /\ CallsOk /\ EndedListed /\ EntriesTell /\ LatestTells
        /\ p \in Maint /\ p \in Deleting /\ m[p].pc = "write"
  BY DEF StoreInv, Maint, Deleting, TagWrite
<1>2. Becomes(p, "idle", {}, None, <<>>, {})
  BY <1>1, EndDoes DEF TagWrite
<1>3. list \in Seq(StoreEntries)
  BY <1>1 DEF CallsOk, CallOk
<1>4. /\ index' = list /\ latest' = latest /\ dir' = dir /\ row' = row /\ lock' = lock
      /\ read' = read /\ pc' = pc /\ stamp' = stamp /\ clock' = clock
      /\ exposed' = exposed \cup (Changed(p) \ Guarded(p))
  BY DEF TagWrite
<1>5. exposed \subseteq exposed' /\ exposed' \subseteq Versions
  BY <1>1, <1>4 DEF FilesOk, Changed
<1>6. Rewrites(list)
  BY <1>1, <1>3, <1>4, <1>5 DEF Rewrites, FilesOk
<1>7. \A v \in Versions \ exposed' : v \in Rvs(index) <=> v \in Rvs(list)
  <2> SUFFICES ASSUME NEW v \in Versions \ exposed', ~(v \in Rvs(index) <=> v \in Rvs(list))
               PROVE  FALSE
    OBVIOUS
  <2>1. v \in Guarded(p)
    BY <1>4 DEF Changed
  <2> QED BY <2>1, <1>1, <1>5, ProtectedListed
<1>8. \A v \in Versions : Owed(v) => Owed(v)'
  BY <1>1, <1>2, DebtsKept DEF Removers
<1>9. \A v \in Versions \ exposed' : dir[v] = "full" =>
          /\ v \in Rvs(index) => v \in Rvs(list)
          /\ v \in Rvs(list) /\ lock # None => v \in Rvs(index)
  BY <1>7
<1>10. \A v \in Versions \ exposed' :
          v \in Rvs(list) \/ v \in Rvs(read) => dir[v] = "full" \/ Owed(v)'
  BY <1>1, <1>5, <1>7, <1>8 DEF EntriesTell
<1>11. \A v \in Rvs(list) : Listed(v)
  BY <1>1 DEF Listed
<1>12. LatestTells'
  <2> SUFFICES ASSUME exposed' = {} PROVE LatestTells'
    BY DEF LatestTells
  <2>1. exposed = {}
    BY <1>5
  <2>2. Rvs(index) \subseteq Versions /\ Rvs(list) \subseteq Versions
    BY <1>1, <1>3, ListedAreVersions DEF FilesOk
  <2>3. Rvs(index) = Rvs(list)
    BY <2>2, <1>7
  <2>4. Names(latest, index) => Names(latest, list)
    BY <1>1, <1>3, <2>3, ListedAreVersions DEF Names, FilesOk
  <2> QED BY <1>1, <1>2, <1>4, <2>1, <2>4 DEF LatestTells, Becomes, Maint, Names
<1>13. "idle" \in MaintPcs(p) /\ OneOk(p, "idle", {}, None) /\ {} \in SUBSET Versions
         /\ <<>> \in Seq(StoreEntries) /\ p # "reconcile" /\ m[p].pc \notin {"idle", "remove"}
  BY <1>1 DEF MaintPcs, OneOk
<1> HIDE DEF p, list
<1> QED BY <1>1, <1>2, <1>6, <1>9, <1>10, <1>11, <1>12, <1>13, RewritesKeeps

LEMMA PruneWriteKeeps ==
    ASSUME StoreInv, PruneWrite
    PROVE  StoreInv'
<1> DEFINE p == "prune"
           list == Entries(m[p].full, m[p].one)
<1>1. FilesOk /\ CallsOk /\ PlacesOk /\ p \in Maint /\ m[p].pc = "write" /\ lock = None
  BY DEF StoreInv, Maint, PruneWrite
<1>2. Becomes(p, "idle", {}, None, <<>>, {})
  BY <1>1, EndDoes DEF PruneWrite
<1>3. m[p].full \in SUBSET Versions /\ m[p].one \in 0..MaxClock
  BY <1>1 DEF CallsOk, CallOk, OnesOk
<1>4. list \in Seq(StoreEntries) /\ Rvs(list) = m[p].full
  BY <1>3, EntriesList
<1>5. /\ index' = list /\ latest' = NewestByName(index') /\ dir' = dir /\ row' = row
      /\ lock' = lock /\ read' = read /\ pc' = pc /\ stamp' = stamp /\ clock' = clock
      /\ exposed' = exposed \cup Changed(p)
  BY DEF PruneWrite
<1> HIDE DEF list
<1>6. exposed \subseteq exposed' /\ exposed' \subseteq Versions
  BY <1>1, <1>5 DEF FilesOk, Changed
<1>7. IF list = <<>> THEN latest' = None
      ELSE latest' \in StoreEntries /\ latest'.rv \in Rvs(list)
  BY <1>4, <1>5, NewestByNameListed
<1>8. Rewrites(list)
  BY <1>1, <1>4, <1>5, <1>6, <1>7 DEF Rewrites, FilesOk
<1>9. \A v \in Versions \ exposed' : v \in Rvs(list) <=> dir[v] = "full"
  BY <1>4, <1>5 DEF Changed, FullDirs
<1>10. Rvs(read) = {}
  BY <1>1, IndexListed DEF PlacesOk
<1>11. \A v \in Rvs(list) : Listed(v)
  BY <1>1, <1>4 DEF Listed
<1>12. LatestTells'
  BY <1>5, <1>7, StoreAssumption DEF LatestTells, Names, StoreEntries
<1>13. "idle" \in MaintPcs(p) /\ OneOk(p, "idle", {}, None) /\ {} \in SUBSET Versions
         /\ <<>> \in Seq(StoreEntries) /\ p # "reconcile" /\ m[p].pc \notin {"idle", "remove"}
  BY <1>1 DEF MaintPcs, OneOk
<1> HIDE DEF p
<1> QED BY <1>1, <1>2, <1>8, <1>9, <1>10, <1>11, <1>12, <1>13, RewritesKeeps

LEMMA RecWriteKeeps ==
    ASSUME StoreInv, RecWrite
    PROVE  StoreInv'
<1> DEFINE p == "reconcile"
           new == m[p].one
           top == NewestByName(new)
           rvOf(e) == IF e = None THEN None ELSE e.rv
<1>1. FilesOk /\ CallsOk /\ PlacesOk /\ EndedListed /\ EntriesTell /\ RepairOk
        /\ p \in Maint /\ m[p].pc = "write"
  BY DEF StoreInv, Maint, RecWrite
<1>2. Becomes(p, "idle", {}, None, <<>>, {})
  BY <1>1, EndDoes DEF RecWrite
<1>3. new \in Seq(StoreEntries) /\ m[p].idx \in Seq(StoreEntries) /\ m[p].full \subseteq Versions
  BY <1>1 DEF CallsOk, CallOk, OnesOk
<1>4. m[p].full \subseteq Rvs(new) /\ Rvs(new) \subseteq Rvs(m[p].idx) \cup m[p].full
  BY <1>1 DEF RepairOk
<1>5. /\ dir' = dir /\ row' = row /\ lock' = lock /\ read' = read /\ pc' = pc
      /\ stamp' = stamp /\ clock' = clock
      /\ latest' = IF rvOf(latest) = rvOf(top) THEN latest ELSE top
      /\ \/ /\ new # m[p].idx /\ lock = None
            /\ index' = new
            /\ exposed' = exposed \cup Changed(p)
         \/ /\ new = m[p].idx
            /\ exposed' = IF Changed(p) = {} THEN exposed ELSE exposed \cup Rvs(new) \cup Rvs(index)
            /\ index' = index
  BY DEF RecWrite
<1>6. IF new = <<>> THEN top = None ELSE top \in StoreEntries /\ top.rv \in Rvs(new)
  BY <1>3, NewestByNameListed
<1>7. Rvs(new) \subseteq Versions /\ Rvs(index) \subseteq Versions
        /\ (Rvs(index) = {} <=> index = <<>>) /\ Rvs(m[p].idx) \subseteq Versions
        /\ (Rvs(new) = {} <=> new = <<>>)
  BY <1>1, <1>3, ListedAreVersions DEF FilesOk
<1>8. latest' = None \/ latest' \in StoreEntries
  BY <1>1, <1>5, <1>6 DEF FilesOk
<1>9. IF latest' = None THEN new = <<>> ELSE latest'.rv \in Rvs(new)
  <2>1. None \notin Versions /\ None \notin StoreEntries
    BY StoreAssumption DEF StoreEntries
  <2>2. latest = None \/ latest.rv \in Versions
    BY <1>1 DEF FilesOk, StoreEntries
  <2>3. CASE new = <<>>
    BY <2>1, <2>2, <2>3, <1>5, <1>6
  <2>4. CASE new # <<>>
    <3>1. top # None /\ top.rv \in Versions
      BY <2>1, <2>4, <1>6, <1>7
    <3> QED BY <2>1, <2>2, <2>4, <3>1, <1>5, <1>6
  <2> QED BY <2>3, <2>4
<1> HIDE DEF new, top
<1>10. exposed \subseteq exposed' /\ exposed' \subseteq Versions
  BY <1>1, <1>5, <1>7 DEF FilesOk, Changed
<1>11. index' \in Seq(StoreEntries) /\ \A v \in Rvs(index') : Listed(v)
  <2>1. \A v \in Rvs(new) : Listed(v)
    BY <1>1 DEF Listed, new
  <2> QED BY <2>1, <1>1, <1>3, <1>5, IndexListed DEF FilesOk
<1>12. Rewrites(index')
  BY <1>1, <1>5, <1>8, <1>10, <1>11 DEF Rewrites, FilesOk
<1>13. \A v \in Versions : Owed(v) => Owed(v)'
  BY <1>1, <1>2, DebtsKept DEF Removers
<1>14. \A v \in Versions \ exposed' : index' # index =>
          /\ dir[v] = "full" => v \in Rvs(index')
          /\ v \in Rvs(index') => dir[v] = "full" \/ v \in Rvs(index)
  BY <1>4, <1>5 DEF Changed, FullDirs
<1>15. \A v \in Versions \ exposed' : dir[v] = "full" =>
          /\ v \in Rvs(index) => v \in Rvs(index')
          /\ v \in Rvs(index') /\ lock # None => v \in Rvs(index)
  BY <1>5, <1>14
<1>16. \A v \in Versions \ exposed' :
          v \in Rvs(index') \/ v \in Rvs(read) => dir[v] = "full" \/ Owed(v)'
  BY <1>1, <1>10, <1>13, <1>14 DEF EntriesTell
<1>17. LatestTells'
  <2> SUFFICES ASSUME exposed' = {} PROVE Names(latest', index')
    BY DEF LatestTells, Names
  <2>1. CASE index' = new
    BY <2>1, <1>9 DEF Names
  <2>2. CASE index' = index /\ new = m[p].idx
    <3>1. Rvs(new) = Rvs(index)
      <4>1. CASE Changed(p) = {}
        BY <4>1, <2>2, <1>7 DEF Changed
      <4>2. CASE Changed(p) # {}
        <5>1. Rvs(new) = {} /\ Rvs(index) = {}
          BY <4>1, <4>2, <2>2, <1>5, <1>7
        <5> QED BY <5>1
      <4> QED BY <4>1, <4>2
    <3> QED BY <3>1, <2>2, <1>7, <1>9 DEF Names
  <2> QED BY <2>1, <2>2, <1>5
<1>18. "idle" \in MaintPcs(p) /\ OneOk(p, "idle", {}, None) /\ {} \in SUBSET Versions
         /\ <<>> \in Seq(StoreEntries) /\ m[p].pc \notin {"idle", "remove"}
  BY <1>1 DEF MaintPcs, OneOk
<1> HIDE DEF p
<1> QED BY <1>1, <1>2, <1>11, <1>12, <1>15, <1>16, <1>17, <1>18, RewritesKeeps

(* The last step of a remover, which rewrites latest.json only.            *)
LEMMA LatestKeeps ==
    ASSUME StoreInv, NEW p \in Removers, m[p].pc = "latest", End(p), Rewrites(index),
           exposed' = {} => LatestTells'
    PROVE  StoreInv'
<1>1. FilesOk /\ CallsOk /\ EndedListed /\ EntriesTell /\ p \in Maint
  BY DEF StoreInv, Removers, Maint
<1>2. Becomes(p, "idle", {}, None, <<>>, {})
  BY <1>1, EndDoes
<1>3. \A v \in Versions : Owed(v) => Owed(v)'
  BY <1>1, <1>2, DebtsKept DEF Removers
<1>5. \A v \in Versions \ exposed' :
          v \in Rvs(index) \/ v \in Rvs(read) => dir[v] = "full" \/ Owed(v)'
  BY <1>1, <1>3 DEF EntriesTell, Rewrites
<1>6. "idle" \in MaintPcs(p) /\ OneOk(p, "idle", {}, None) /\ {} \in SUBSET Versions
         /\ <<>> \in Seq(StoreEntries) /\ p # "reconcile" /\ m[p].pc \notin {"idle", "remove"}
  BY DEF MaintPcs, OneOk, Removers
<1>7. LatestTells'
  BY DEF LatestTells
<1> QED BY <1>1, <1>2, <1>5, <1>6, <1>7, IndexListed, RewritesKeeps

(* A rewrite that raises: the versions it was about are exposed.           *)
LEMMA RewriteFailsKeeps ==
    ASSUME StoreInv, NEW p \in {"delete_version", "delete_run", "cleanup"}, RewriteFails(p)
    PROVE  StoreInv'
<1>1. FilesOk /\ CallsOk /\ EntriesTell /\ p \in Maint /\ p \in Removers
  BY DEF StoreInv, Removers, Maint
<1>2. /\ m[p].pc \in {"write", "latest"} /\ exposed' = exposed \cup m[p].of
      /\ row' = row \/ DropRows(m[p].of)
      /\ dir' = dir /\ index' = index /\ latest' = latest
      /\ lock' = lock /\ read' = read /\ pc' = pc /\ stamp' = stamp /\ clock' = clock
      /\ End(p) \/ (m[p].pc = "write" /\ m' = [m EXCEPT ![p].pc = "latest"])
  BY DEF RewriteFails
<1>3. /\ m[p].of # {} /\ m[p].of \in SUBSET Versions /\ m[p].full \in SUBSET Versions
      /\ m[p].idx \in Seq(StoreEntries) /\ (p = "cleanup" => m[p].one \in Versions)
  BY <1>1, <1>2 DEF CallsOk, CallOk, OnesOk
<1>4. Rewrites(index)
  BY <1>1, <1>2, <1>3 DEF Rewrites, FilesOk, DropRows
<1>5. LatestTells'
  BY <1>2, <1>3 DEF LatestTells
<1>6. CASE End(p)
  <2>1. Becomes(p, "idle", {}, None, <<>>, {})
    BY <1>1, <1>6, EndDoes
  <2>2. \A v \in Versions \ m[p].of : Owed(v) => Owed(v)'
    BY <2>1 DEF Owed, Becomes, Removers, Maint
  <2>3. \A v \in Versions \ exposed' :
            v \in Rvs(index) \/ v \in Rvs(read) => dir[v] = "full" \/ Owed(v)'
    BY <1>1, <1>2, <2>2 DEF EntriesTell
  <2>4. "idle" \in MaintPcs(p) /\ OneOk(p, "idle", {}, None) /\ {} \in SUBSET Versions
           /\ <<>> \in Seq(StoreEntries) /\ p # "reconcile" /\ m[p].pc \notin {"idle", "remove"}
    BY <1>2 DEF MaintPcs, OneOk
  <2> QED BY <1>1, <1>4, <1>5, <2>1, <2>3, <2>4, IndexListed, RewritesKeeps
<1>7. CASE m[p].pc = "write" /\ m' = [m EXCEPT ![p].pc = "latest"]
  <2>1. Becomes(p, "latest", m[p].of, m[p].one, m[p].idx, m[p].full)
    BY <1>1, <1>7, FieldsKeep DEF Becomes, MaintFields
  <2>2. \A v \in Versions \ m[p].of : Owed(v) => Owed(v)'
    BY <2>1 DEF Owed, Becomes, Removers, Maint
  <2>3. \A v \in Versions \ exposed' :
            v \in Rvs(index) \/ v \in Rvs(read) => dir[v] = "full" \/ Owed(v)'
    BY <1>1, <1>2, <2>2 DEF EntriesTell
  <2>4. "latest" \in MaintPcs(p) /\ OneOk(p, "latest", m[p].of, m[p].one)
           /\ p # "reconcile" /\ m[p].pc \notin {"idle", "remove"}
    BY <1>2, <1>3 DEF MaintPcs, OneOk
  <2> QED BY <1>1, <1>3, <1>4, <1>5, <1>7, <2>1, <2>3, <2>4, IndexListed, RewritesKeeps
<1> QED BY <1>2, <1>6, <1>7

(* Nothing overtook the call: the list it wrote is still the index.        *)
LEMMA NotOvertaken ==
    ASSUME StoreInv, NEW p \in Removers, NEW g, Overtaken(p) \ g = {}, exposed = {},
           m[p].pc = "latest", g = {} \/ (p = "delete_version" /\ g = Guarded(p))
    PROVE  /\ Without(m[p].idx, m[p].of) \in Seq(StoreEntries)
           /\ Rvs(index) = Rvs(Without(m[p].idx, m[p].of))
           /\ Rvs(index) \cap m[p].of = {}
<1> DEFINE rest == Without(m[p].idx, m[p].of)
<1>1. FilesOk /\ CallsOk /\ RemovedOk /\ p \in Maint
        /\ (p = "delete_version" => p \in Deleting)
  BY DEF StoreInv, Removers, Maint, Deleting
<1>2. m[p].idx \in Seq(StoreEntries) /\ m[p].of \subseteq Versions
  BY <1>1 DEF CallsOk, CallOk
<1>3. rest \in Seq(StoreEntries) /\ Rvs(rest) = Rvs(m[p].idx) \ m[p].of
  BY <1>2, WithoutLists
<1>4. Rvs(index) \subseteq Versions /\ Rvs(rest) \subseteq Versions
  BY <1>1, <1>3, ListedAreVersions DEF FilesOk
<1>5. \A v \in Versions : v \in Rvs(index) <=> v \in Rvs(rest)
  <2> SUFFICES ASSUME NEW v \in Versions, ~(v \in Rvs(index) <=> v \in Rvs(rest))
               PROVE  FALSE
    OBVIOUS
  <2>1. v \in g
    BY DEF Overtaken
  <2>2. v \in Rvs(index) /\ v \in Rvs(m[p].idx) /\ dir[v] = "full"
    BY <2>1, <1>1, ProtectedListed
  <2>3. v \notin m[p].of
    BY <2>2, <1>1 DEF RemovedOk
  <2> QED BY <2>2, <2>3, <1>3
<1> HIDE DEF rest
<1>6. Rvs(index) = Rvs(rest)
  BY <1>4, <1>5
<1> QED BY <1>3, <1>6 DEF rest

LEMMA DvLatestKeeps ==
    ASSUME StoreInv, DvLatest
    PROVE  StoreInv'
<1> DEFINE p == "delete_version"
           rest == Without(m[p].idx, m[p].of)
           top == CHOOSE i \in DOMAIN rest : \A j \in DOMAIN rest :
                    rest[j].rv < rest[i].rv \/ (rest[j].rv = rest[i].rv /\ i <= j)
<1>1. FilesOk /\ CallsOk /\ LatestTells /\ p \in Maint /\ p \in Removers
  BY DEF StoreInv, Maint, Removers
<1>2. /\ m[p].pc = "latest" /\ End(p) /\ dir' = dir /\ row' = row /\ index' = index
      /\ lock' = lock /\ read' = read /\ pc' = pc /\ stamp' = stamp /\ clock' = clock
      /\ latest' = IF latest = None \/ latest.rv \notin m[p].of THEN latest
                   ELSE IF rest = <<>> THEN None ELSE rest[top]
      /\ exposed' = exposed \cup (Overtaken(p) \ Guarded(p))
  BY DEF DvLatest
<1>3. rest \in Seq(StoreEntries)
  BY <1>1, WithoutLists DEF CallsOk, CallOk
<1>4. rest # <<>> => rest[top] \in StoreEntries /\ rest[top].rv \in Rvs(rest)
  BY <1>3, HighestNameListed
<1> HIDE DEF rest, top
<1>5. exposed \subseteq exposed' /\ exposed' \subseteq Versions
  BY <1>1, <1>2 DEF FilesOk, Overtaken
<1>6. Rewrites(index)
  BY <1>1, <1>2, <1>4, <1>5 DEF Rewrites, FilesOk
<1>7. Becomes(p, "idle", {}, None, <<>>, {})
  BY <1>1, <1>2, EndDoes
<1>8. ASSUME exposed' = {} PROVE LatestTells'
  <2>1. exposed = {} /\ Overtaken(p) \ Guarded(p) = {}
    BY <1>2, <1>8
  <2>2. Rvs(index) = Rvs(rest) /\ Rvs(index) \cap m[p].of = {}
    BY <2>1, <1>1, <1>2, NotOvertaken DEF rest
  <2>3. CASE latest = None \/ latest.rv \notin m[p].of
    BY <2>1, <2>3, <1>1, <1>2, <1>7 DEF LatestTells, Becomes, Maint, Names
  <2>4. CASE latest # None /\ latest.rv \in m[p].of
    <3>1. CASE rest = <<>>
      <4>1. Rvs(index) = {}
        BY <3>1, <2>2, IndexListed
      <4>2. index = <<>>
        BY <4>1, <1>1, ListedAreVersions DEF FilesOk
      <4> QED BY <2>4, <3>1, <4>2, <1>2 DEF LatestTells, Names
    <3>2. CASE rest # <<>>
      <4>1. rest[top] # None
        BY <3>2, <1>4, StoreAssumption DEF StoreEntries
      <4> QED BY <2>2, <2>4, <3>2, <4>1, <1>2, <1>4 DEF LatestTells, Names
    <3> QED BY <3>1, <3>2
  <2> QED BY <2>3, <2>4
<1> QED BY <1>1, <1>2, <1>6, <1>8, LatestKeeps

LEMMA DrLatestKeeps ==
    ASSUME StoreInv, DrLatest
    PROVE  StoreInv'
<1> DEFINE p == "delete_run"
           rest == Without(m[p].idx, m[p].of)
<1>1. FilesOk /\ CallsOk /\ p \in Maint /\ p \in Removers
  BY DEF StoreInv, Maint, Removers
<1>2. /\ m[p].pc = "latest" /\ End(p) /\ dir' = dir /\ index' = index
      /\ row' = [v \in Versions |-> IF v \in m[p].of THEN "none" ELSE row[v]]
      /\ lock' = lock /\ read' = read /\ pc' = pc /\ stamp' = stamp /\ clock' = clock
      /\ latest' = IF rest = <<>> THEN None ELSE rest[Len(rest)]
      /\ exposed' = exposed \cup Overtaken(p)
  BY DEF DrLatest, DropRows
<1>3. rest \in Seq(StoreEntries)
  BY <1>1, WithoutLists DEF CallsOk, CallOk
<1>4. rest # <<>> => rest[Len(rest)] \in StoreEntries /\ rest[Len(rest)].rv \in Rvs(rest)
  BY <1>3, LastListed
<1> HIDE DEF rest
<1>5. exposed \subseteq exposed' /\ exposed' \subseteq Versions
  BY <1>1, <1>2 DEF FilesOk, Overtaken
<1>6. Rewrites(index)
  BY <1>1, <1>2, <1>4, <1>5 DEF Rewrites, FilesOk
<1>7. ASSUME exposed' = {} PROVE LatestTells'
  <2>1. exposed = {} /\ Overtaken(p) \ {} = {}
    BY <1>2, <1>7
  <2>2. Rvs(index) = Rvs(rest)
    BY <2>1, <1>1, <1>2, NotOvertaken DEF rest
  <2>3. CASE rest = <<>>
    <3>1. Rvs(index) = {}
      BY <2>3, <2>2, IndexListed
    <3>2. index = <<>>
      BY <3>1, <1>1, ListedAreVersions DEF FilesOk
    <3> QED BY <2>3, <3>2, <1>2 DEF LatestTells, Names
  <2>4. CASE rest # <<>>
    <3>1. rest[Len(rest)] # None
      BY <2>4, <1>4, StoreAssumption DEF StoreEntries
    <3> QED BY <2>2, <2>4, <3>1, <1>2, <1>4 DEF LatestTells, Names
  <2> QED BY <2>3, <2>4
<1> QED BY <1>1, <1>2, <1>6, <1>7, LatestKeeps

LEMMA CleanupLatestKeeps ==
    ASSUME StoreInv, CleanupLatest
    PROVE  StoreInv'
<1> DEFINE p == "cleanup"
<1>1. FilesOk /\ CallsOk /\ LatestTells /\ p \in Maint /\ p \in Removers
  BY DEF StoreInv, Maint, Removers
<1>2. /\ m[p].pc = "latest" /\ End(p) /\ dir' = dir /\ row' = row /\ index' = index
      /\ lock' = lock /\ read' = read /\ pc' = pc /\ stamp' = stamp /\ clock' = clock
      /\ latest' = IF latest = None THEN None ELSE [latest EXCEPT !.rv = m[p].one]
      /\ exposed' = exposed \cup Overtaken(p) \cup ({m[p].one} \ Rvs(index))
  BY DEF CleanupLatest
<1>3. m[p].one \in Versions
  BY <1>1, <1>2 DEF CallsOk, OnesOk
<1>4. latest # None => latest' \in StoreEntries /\ latest'.rv = m[p].one
  BY <1>1, <1>2, <1>3 DEF FilesOk, StoreEntries
<1>5. exposed \subseteq exposed' /\ exposed' \subseteq Versions
  BY <1>1, <1>2, <1>3 DEF FilesOk, Overtaken
<1>6. Rewrites(index)
  BY <1>1, <1>2, <1>4, <1>5 DEF Rewrites, FilesOk
<1>7. Becomes(p, "idle", {}, None, <<>>, {})
  BY <1>1, <1>2, EndDoes
<1>8. ASSUME exposed' = {} PROVE LatestTells'
  <2>1. exposed = {} /\ m[p].one \in Rvs(index)
    BY <1>2, <1>8
  <2>2. CASE latest = None
    BY <2>1, <2>2, <1>1, <1>2, <1>7 DEF LatestTells, Becomes, Maint, Names
  <2>3. CASE latest # None
    <3>1. latest' # None
      BY <2>3, <1>4, StoreAssumption DEF StoreEntries
    <3> QED BY <2>1, <2>3, <3>1, <1>2, <1>4 DEF LatestTells, Names
  <2> QED BY <2>2, <2>3
<1> QED BY <1>1, <1>2, <1>6, <1>8, LatestKeeps
-----------------------------------------------------------------------------
(* The whole tree goes, directories and files in either order.             *)
LEMMA WipeStartsKeep ==
    ASSUME StoreInv, WipeAllData \/ WipeForImport
    PROVE  StoreInv'
<1> DEFINE p == "wipe"
<1>1. FilesOk /\ CallsOk /\ p \in Maint
  BY DEF StoreInv, Maint
<1>2. PICK of, one :
        /\ of \in SUBSET Versions
        /\ m[p].pc = "idle" /\ Becomes(p, "tree", of, one, <<>>, {})
  <2>1. CASE WipeAllData
    <3> DEFINE of == {v \in Versions : row[v] # "none"}
               r == [Idle EXCEPT !.pc = "tree", !.one = "deleted", !.of = of]
    <3>1. DOMAIN r = MaintFields /\ r.pc = "tree" /\ r.of = of /\ r.one = "deleted"
            /\ r.idx = <<>> /\ r.full = {}
      BY DEF Idle, MaintFields
    <3>2. Start(p, r, 0) /\ of \in SUBSET Versions
      BY <2>1 DEF WipeAllData
    <3> HIDE DEF r, of
    <3> QED BY <1>1, <3>1, <3>2, StartDoes
  <2>2. CASE WipeForImport
    <3> DEFINE r == [Idle EXCEPT !.pc = "tree"]
    <3>1. DOMAIN r = MaintFields /\ r.pc = "tree" /\ r.of = {} /\ r.one = None
            /\ r.idx = <<>> /\ r.full = {}
      BY DEF Idle, MaintFields
    <3>2. Start(p, r, 0) /\ {} \in SUBSET Versions
      BY <2>2 DEF WipeForImport
    <3> HIDE DEF r
    <3> QED BY <1>1, <3>1, <3>2, StartDoes
  <2> QED BY <2>1, <2>2
<1>3. Clears({})
  BY <1>1, NothingCleared DEF WipeAllData, WipeForImport, store, FilesOk
<1>4. \A v \in Versions : Owed(v) => Owed(v)'
  BY <1>1, <1>2, DebtsKept DEF Removers
<1>5. "tree" \in MaintPcs(p) /\ OneOk(p, "tree", of, one) /\ <<>> \in Seq(StoreEntries)
  BY DEF MaintPcs, OneOk
<1>6. p \notin Removers /\ p \notin Deleting /\ p # "reconcile"
  BY DEF Removers, Deleting
<1> HIDE DEF p
<1> QED BY <1>1, <1>2, <1>3, <1>4, <1>5, <1>6, IndexListed, ClearsKeeps

LEMMA WipeOnDoes ==
    ASSUME StoreInv, NEW left \in {"dirs", "files", "over"}, WipeOn(left)
    PROVE  /\ row' = row \/ (\E w \in SUBSET Versions : DropRows(w))
           /\ m["wipe"].pc = "tree" /\ left # "over" =>
                Becomes("wipe", left, m["wipe"].of, m["wipe"].one, m["wipe"].idx, m["wipe"].full)
           /\ ~(m["wipe"].pc = "tree" /\ left # "over") =>
                Becomes("wipe", "idle", {}, None, <<>>, {})
<1> DEFINE p == "wipe"
<1>1. CallsOk /\ p \in Maint /\ m[p].of \in SUBSET Versions
  BY DEF StoreInv, Maint, CallsOk, CallOk
<1>2. CASE m[p].pc = "tree" /\ left # "over"
  <2>1. m' = [m EXCEPT ![p].pc = left] /\ row' = row
    BY <1>2 DEF WipeOn
  <2> QED BY <1>1, <1>2, <2>1, FieldsKeep DEF Becomes, MaintFields
<1>3. CASE ~(m[p].pc = "tree" /\ left # "over")
  <2>1. End(p) /\ DropRows(m[p].of)
    BY <1>3 DEF WipeOn
  <2> QED BY <1>1, <1>3, <2>1, EndDoes
<1> QED BY <1>2, <1>3

LEMMA WipeDirsKeeps ==
    ASSUME StoreInv, WipeDirs
    PROVE  StoreInv'
<1> DEFINE p == "wipe"
<1>1. FilesOk /\ CallsOk /\ p \in Maint /\ m[p].pc \in {"tree", "dirs"}
  BY DEF StoreInv, Maint, WipeDirs
<1>2. PICK f \in {0, 1} :
        /\ RmTree(Versions, f)
        /\ WipeOn(IF f = 1 /\ m[p].one = None THEN "over" ELSE "files")
        /\ exposed' = exposed \cup InFlight \cup Gutted(Versions) \cup Unmoved(Versions)
                    \cup (IF f = 1 \/ m[p].pc = "dirs" THEN Rvs(index) \cup Rvs(read) ELSE {})
  BY DEF WipeDirs
<1>3. /\ index' = index /\ latest' = latest /\ lock' = lock /\ read' = read
      /\ pc' = pc /\ stamp' = stamp /\ clock' = clock
  BY DEF WipeDirs
<1> DEFINE left == IF f = 1 /\ m[p].one = None THEN "over" ELSE "files"
           on == m[p].pc = "tree" /\ left # "over"
<1>4. /\ row' = row \/ (\E w \in SUBSET Versions : DropRows(w))
      /\ on => Becomes(p, "files", m[p].of, m[p].one, m[p].idx, m[p].full)
      /\ ~on => Becomes(p, "idle", {}, None, <<>>, {})
  BY <1>2, WipeOnDoes
<1>5. exposed \subseteq exposed' /\ exposed' \subseteq Versions
        /\ Rvs(index) \subseteq Versions /\ Rvs(read) \subseteq Versions
  <2>1. Rvs(index) \subseteq Versions /\ Rvs(read) \subseteq Versions
    BY <1>1, ListedAreVersions DEF FilesOk
  <2> QED BY <1>1, <1>2, <2>1 DEF FilesOk, InFlight, Gutted, Unmoved
<1>6. Clears(Versions)
  <2>1. Gutted(Versions) \subseteq exposed' /\ Versions \cap InFlight \subseteq exposed'
          /\ Versions \in SUBSET Versions
    BY <1>2
  <2> QED BY <1>1, <1>2, <1>3, <1>4, <1>5, <2>1, TreesGo
<1>7. ~on => Rvs(index) \subseteq exposed' /\ Rvs(read) \subseteq exposed'
  BY <1>1, <1>2
<1>8. p \notin Removers /\ p \notin Deleting /\ p # "reconcile" /\ p # "prune"
        /\ "files" \in MaintPcs(p) /\ "idle" \in MaintPcs(p) /\ <<>> \in Seq(StoreEntries)
        /\ {} \in SUBSET Versions
  BY DEF Removers, Deleting, MaintPcs
<1>9. CASE on
  <2>1. Becomes(p, "files", m[p].of, m[p].one, m[p].idx, m[p].full)
    BY <1>4, <1>9
  <2>2. (\A v \in Versions : Owed(v) => Owed(v)') /\ \A v \in Versions : Owed(v)'
    BY <2>1 DEF Owed, Becomes
  <2>3. m[p].of \in SUBSET Versions /\ m[p].idx \in Seq(StoreEntries) /\ m[p].full \in SUBSET Versions
    BY <1>1 DEF CallsOk, CallOk
  <2>4. (\A u \in Rvs(m[p].idx) : Listed(u)) /\ \A u \in m[p].full : Listed(u)
    BY <1>1 DEF Listed
  <2>5. OneOk(p, "files", m[p].of, m[p].one)
    BY DEF OneOk
  <2>6. m[p].pc # "latest"
    BY <1>1
  <2> HIDE DEF p
  <2> QED BY <1>1, <1>6, <1>8, <2>1, <2>2, <2>3, <2>4, <2>5, <2>6, ClearsKeeps
<1>10. CASE ~on
  <2>1. Becomes(p, "idle", {}, None, <<>>, {})
    BY <1>4, <1>10
  <2>2. \A v \in Versions : Owed(v) => Owed(v)'
    BY <1>1, <2>1, DebtsKept DEF Removers
  <2>3. OneOk(p, "idle", {}, None)
    BY DEF OneOk
  <2>4. m[p].pc # "latest"
    BY <1>1
  <2>5. \A v \in Versions \ exposed' : v \notin Rvs(index) /\ v \notin Rvs(read)
    BY <1>7, <1>10
  <2> HIDE DEF p, on
  <2> QED BY <1>1, <1>6, <1>8, <2>1, <2>2, <2>3, <2>4, <2>5, IndexListed, ClearsKeeps
<1> QED BY <1>9, <1>10

LEMMA WipeFilesKeeps ==
    ASSUME StoreInv, WipeFiles
    PROVE  StoreInv'
<1> DEFINE p == "wipe"
<1>1. FilesOk /\ CallsOk /\ LatestTells /\ p \in Maint /\ m[p].pc \in {"tree", "files"}
  BY DEF StoreInv, Maint, WipeFiles
<1>2. PICK left \in {"dirs", "over"} : WipeOn(left)
  BY DEF WipeFiles
<1>3. /\ dir' = dir /\ lock' = lock /\ read' = read /\ pc' = pc /\ stamp' = stamp /\ clock' = clock
      /\ index' \in {index, <<>>} /\ latest' \in {latest, None}
      /\ FullDirs \subseteq exposed' /\ Rvs(read) \subseteq exposed'
      /\ index' = <<>> \/ Rvs(index) \subseteq exposed'
      /\ \/ index' = <<>> /\ latest' = None
         \/ Rvs(index) \subseteq exposed'
      /\ exposed' = exposed \cup FullDirs \cup Rvs(read)
           \/ exposed' = exposed \cup FullDirs \cup Rvs(read) \cup Rvs(index)
  BY DEF WipeFiles
<1> DEFINE on == m[p].pc = "tree" /\ left # "over"
<1>4. /\ row' = row \/ (\E w \in SUBSET Versions : DropRows(w))
      /\ on => Becomes(p, left, m[p].of, m[p].one, m[p].idx, m[p].full)
      /\ ~on => Becomes(p, "idle", {}, None, <<>>, {})
  BY <1>2, WipeOnDoes
<1>5. /\ Rvs(index) \subseteq Versions /\ Rvs(read) \subseteq Versions
      /\ Rvs(<<>>) = {} /\ <<>> \in Seq(StoreEntries) /\ {} \in SUBSET Versions
      /\ Rvs(index) = {} <=> index = <<>>
  BY <1>1, ListedAreVersions DEF FilesOk
<1>6. exposed \subseteq exposed' /\ exposed' \subseteq Versions
  BY <1>1, <1>3, <1>5 DEF FilesOk, FullDirs
<1>7. /\ row' \in [Versions -> {"none", "active", "done", "failed"}]
      /\ \A v \in Versions : row'[v] \in {row[v], "none"}
  BY <1>1, <1>4 DEF DropRows, FilesOk
<1>8. Rewrites(index')
  BY <1>1, <1>3, <1>5, <1>6, <1>7 DEF Rewrites, FilesOk
<1>9. \A v \in Rvs(index') : Listed(v)
  BY <1>3, <1>5, IndexListed
<1>10. \A v \in Versions \ exposed' : dir[v] # "full"
  BY <1>3 DEF FullDirs
<1>11. \A v \in Versions \ exposed' : v \notin Rvs(index') /\ v \notin Rvs(read)
  BY <1>3, <1>5
<1>12. LatestTells'
  <2> SUFFICES ASSUME exposed' = {} PROVE LatestTells'
    BY DEF LatestTells
  <2>1. exposed = {}
    BY <1>6
  <2>2. CASE latest' = None /\ index' = <<>>
    BY <2>2 DEF LatestTells, Names
  <2>3. CASE Rvs(index) \subseteq exposed'
    <3>1. index = <<>> /\ index' = <<>>
      BY <2>3, <1>3, <1>5
    <3>2. CASE latest' = None
      BY <2>2, <3>1, <3>2
    <3>3. CASE latest' = latest
      <4>1. \A q \in Maint \ {p} : m'[q] = m[q]
        BY <1>4 DEF Becomes
      <4> QED BY <1>1, <2>1, <3>1, <3>3, <4>1 DEF LatestTells, Names, Maint
    <3> QED BY <1>3, <3>2, <3>3
  <2> QED BY <1>3, <2>2, <2>3
<1>13. p # "reconcile" /\ m[p].pc \notin {"idle", "remove"}
        /\ "dirs" \in MaintPcs(p) /\ "idle" \in MaintPcs(p)
  BY <1>1 DEF MaintPcs
<1>14. CASE on
  <2>1. Becomes(p, "dirs", m[p].of, m[p].one, m[p].idx, m[p].full)
    BY <1>4, <1>14
  <2>2. m[p].of \in SUBSET Versions /\ m[p].idx \in Seq(StoreEntries) /\ m[p].full \in SUBSET Versions
    BY <1>1 DEF CallsOk, CallOk
  <2>3. OneOk(p, "dirs", m[p].of, m[p].one)
    BY DEF OneOk
  <2>4. m[p].full \subseteq m[p].full
    OBVIOUS
  <2>5. p = "wipe"
    OBVIOUS
  <2> HIDE DEF p
  <2> QED BY <1>1, <1>8, <1>9, <1>10, <1>11, <1>12, <1>13, <2>1, <2>2, <2>3, <2>4, <2>5, RewritesKeeps
<1>15. CASE ~on
  <2>1. Becomes(p, "idle", {}, None, <<>>, {})
    BY <1>4, <1>15
  <2>2. OneOk(p, "idle", {}, None)
    BY DEF OneOk
  <2> HIDE DEF p, on
  <2> QED BY <1>1, <1>5, <1>8, <1>9, <1>10, <1>11, <1>12, <1>13, <2>1, <2>2, RewritesKeeps
<1> QED BY <1>14, <1>15

(* The console is killed: nothing is in flight any more, and what the      *)
(* index did not agree with is exposed.                                    *)
LEMMA CrashKeeps ==
    ASSUME StoreInv, Crash
    PROVE  StoreInv'
<1>1. FilesOk /\ CallsOk /\ PlacesOk /\ ListedOk /\ EndedListed /\ LatestTells
  BY DEF StoreInv
<1> DEFINE torn == index' # index
           debts == UNION {m[p].of : p \in {"delete_version", "delete_run", "cleanup"}}
<1>2. PICK wrote \in SUBSET {v \in InFlight : dir[v] = "partial"} :
         dir' = [v \in Versions |-> IF v \in wrote THEN "full" ELSE dir[v]]
  BY DEF Crash
<1>3. /\ row' = [v \in Versions |-> IF row[v] = "active" /\ Origin[v] # "import"
                                  THEN "failed" ELSE row[v]]
      /\ pc' = [v \in Versions |-> IF v \in InFlight THEN "failed" ELSE pc[v]]
      /\ stamp' = [v \in Versions |-> 0] /\ clock' = clock /\ latest' = latest
      /\ lock' = None /\ read' = <<>> /\ m' = [p \in Maint |-> Idle]
      /\ index' \in {index} \cup HalfWritten
  BY DEF Crash
<1> DEFINE astray == {v \in Versions : (v \in Rvs(index)) # (dir[v] = "full")}
           behind == IF index' = index THEN {} ELSE Rvs(index) \cup Rvs(index')
<1>3a. exposed' = exposed \cup astray \cup debts \cup behind
  BY DEF Crash
<1>4. index' \in Seq(StoreEntries) /\ \A v \in Rvs(index') : Listed(v) \/ v = lock
  <2>1. CASE index' = index
    BY <1>1, <2>1 DEF FilesOk, Listed
  <2>2. CASE lock # None /\ index' = Append(read, Entry(lock, stamp[lock]))
    <3>1. lock \in Versions /\ stamp[lock] \in 0..MaxClock /\ read \in Seq(StoreEntries)
      BY <1>1, <2>2 DEF FilesOk
    <3> QED BY <2>2, <3>1, AppendLists DEF Listed
  <2>3. CASE m["prune"].pc = "write" /\ index' = Entries(m["prune"].full, m["prune"].one)
    <3>1. "prune" \in Maint /\ m["prune"].full \in SUBSET Versions /\ m["prune"].one \in 0..MaxClock
      BY <1>1, <2>3 DEF CallsOk, CallOk, OnesOk, Maint
    <3> QED BY <2>3, <3>1, EntriesList DEF Listed
  <2>4. CASE m["reconcile"].pc = "write" /\ index' = m["reconcile"].one
    BY <1>1, <2>4 DEF CallsOk, OnesOk, Listed
  <2> QED BY <1>3, <2>1, <2>2, <2>3, <2>4 DEF HalfWritten
<1>5. /\ Rvs(index') \subseteq Versions /\ Rvs(index) \subseteq Versions /\ Rvs(<<>>) = {}
      /\ (Rvs(index) = {} <=> index = <<>>) /\ (Rvs(index') = {} <=> index' = <<>>)
  BY <1>1, <1>4, ListedAreVersions DEF FilesOk
<1>6. \A p \in {"delete_version", "delete_run", "cleanup"} :
         p \in Maint /\ m[p].of \subseteq Versions /\ m[p].of \subseteq debts
  BY <1>1 DEF CallsOk, CallOk, Maint
<1>7. exposed \subseteq exposed' /\ exposed' \subseteq Versions
        /\ (torn => Rvs(index) \subseteq exposed' /\ Rvs(index') \subseteq exposed')
        /\ debts \subseteq exposed'
  <2>1. debts \subseteq Versions
    BY <1>6
  <2> HIDE DEF debts
  <2> QED BY <1>1, <1>3a, <1>5, <2>1 DEF FilesOk
<1>8. \A v \in Versions \ exposed' : v \in Rvs(index) <=> dir[v] = "full"
  BY <1>3a
<1> HIDE DEF debts
<1>9. FilesOk'
  <2>1. /\ dir' \in [Versions -> {"none", "partial", "full"}]
        /\ row' \in [Versions -> {"none", "active", "done", "failed"}]
        /\ pc' \in [Versions -> {"new", "begun", "running", "built", "locked", "end", "failed"}]
    BY <1>1, <1>2, <1>3 DEF FilesOk
  <2>2. stamp' \in [Versions -> 0..MaxClock] /\ <<>> \in Seq(StoreEntries)
    BY <1>3, StoreAssumption
  <2> QED BY <1>1, <1>3, <1>4, <1>7, <2>1, <2>2 DEF FilesOk
<1>10. \A p \in Maint : m'[p] = Idle /\ m'[p].pc = "idle" /\ m'[p].of = {}
          /\ m'[p].idx = <<>> /\ m'[p].full = {} /\ DOMAIN m'[p] = MaintFields
  BY <1>3, IdleFields
<1>11. CallsOk'
  <2>1. DOMAIN m' = Maint
    BY <1>3
  <2>2. \A p \in Maint : "idle" \in MaintPcs(p)
    BY DEF Maint, MaintPcs
  <2>3. <<>> \in Seq(StoreEntries)
    OBVIOUS
  <2>4. \A p \in Maint : CallOk(p)'
    BY <1>10, <2>2, <2>3 DEF CallOk
  <2>5. OnesOk'
    BY <1>10 DEF OnesOk, Maint
  <2> QED BY <2>1, <2>4, <2>5 DEF CallsOk
<1>12. \A v \in Versions :
          /\ v \in InFlight => pc'[v] = "failed"
          /\ v \notin InFlight => pc'[v] = pc[v] /\ dir'[v] = dir[v]
          /\ dir'[v] = "partial" => dir[v] = "partial"
          /\ row[v] = "none" => row'[v] = "none"
  BY <1>1, <1>2, <1>3 DEF FilesOk
<1>13. PlacesOk'
  <2> SUFFICES ASSUME NEW v \in Versions
               PROVE  /\ pc'[v] \in {"new", "end", "failed"}
                      /\ pc'[v] = "new" => dir'[v] = "none" /\ row'[v] = "none"
    BY <1>3, StoreAssumption DEF PlacesOk
  <2>1. v \in InFlight <=> pc[v] \notin {"new", "end", "failed"}
    BY DEF InFlight
  <2> QED BY <1>1, <1>12, <2>1 DEF PlacesOk
<1>14. ListedOk'
  <2> SUFFICES ASSUME NEW v \in Versions, Listed(v)'
               PROVE  pc'[v] \in {"end", "failed"} /\ (dir'[v] = "partial" => v \in exposed')
    BY DEF ListedOk
  <2>1. v \in Rvs(index')
    BY <1>3, <1>5, <1>10 DEF Listed, Maint
  <2>2. Listed(v) \/ pc[v] = "locked"
    BY <1>1, <1>4, <2>1 DEF PlacesOk
  <2>3. pc[v] \in {"built", "locked", "end", "failed"} /\ (dir[v] = "partial" => v \in exposed)
    BY <1>1, <2>2 DEF ListedOk, PlacesOk
  <2> QED BY <1>7, <1>12, <2>3 DEF InFlight
<1>15. EndedListed'
  <2> SUFFICES ASSUME NEW v \in Versions \ exposed', dir'[v] = "full", pc'[v] = "end"
               PROVE  v \in Rvs(index')
    BY <1>3 DEF EndedListed
  <2>1. dir[v] = "full"
    BY <1>12
  <2>2. v \in Rvs(index)
    BY <1>8, <2>1
  <2> QED BY <1>7, <2>2
<1>16. EntriesTell'
  <2> SUFFICES ASSUME NEW v \in Versions \ exposed', v \in Rvs(index')
               PROVE  dir'[v] = "full"
    BY <1>3, <1>5 DEF EntriesTell
  <2>1. dir[v] = "full"
    BY <1>7, <1>8
  <2> QED BY <1>1, <1>2, <2>1 DEF FilesOk
<1>17. NoneBeside' /\ GuardHolds' /\ RemovedOk' /\ RepairOk'
  BY <1>10 DEF NoneBeside, GuardHolds, RemovedOk, RepairOk, Deleting, Removers, Maint
<1>18. LatestTells'
  <2> SUFFICES ASSUME exposed' = {} PROVE Names(latest', index')
    BY DEF LatestTells, Names
  <2>1. index' = index
    BY <1>5, <1>7
  <2>2. \A p \in {"delete_version", "delete_run", "cleanup"} : m[p].pc # "latest"
    <3>1. \A p \in {"delete_version", "delete_run", "cleanup"} : m[p].of = {}
      BY <1>6, <1>7
    <3> QED BY <1>1, <3>1 DEF CallsOk, OnesOk
  <2>3. exposed = {}
    BY <1>7
  <2> QED BY <1>1, <1>3, <2>1, <2>2, <2>3 DEF LatestTells
<1> QED BY <1>9, <1>11, <1>13, <1>14, <1>15, <1>16, <1>17, <1>18 DEF StoreInv
-----------------------------------------------------------------------------
LEMMA StoreInvHolds ==
    ASSUME StoreInit
    PROVE  StoreInv
<1>1. FilesOk
  BY StoreAssumption DEF StoreInit, FilesOk
<1>2. CallsOk
  <2>1. DOMAIN m = Maint /\ \A p \in Maint : m[p] = Idle
    BY DEF StoreInit
  <2>2. \A p \in Maint : "idle" \in MaintPcs(p)
    BY DEF Maint, MaintPcs
  <2>3. <<>> \in Seq(StoreEntries)
    OBVIOUS
  <2>4. \A p \in Maint : CallOk(p)
    BY <2>1, <2>2, <2>3, IdleFields DEF CallOk
  <2>5. OnesOk
    BY <2>1, IdleFields DEF OnesOk, Maint
  <2> QED BY <2>1, <2>4, <2>5 DEF CallsOk
<1>3. Rvs(index) = {} /\ Rvs(read) = {} /\ \A p \in Maint : m[p] = Idle
  BY IndexListed DEF StoreInit
<1>4. PlacesOk
  BY StoreAssumption DEF StoreInit, PlacesOk
<1>5. ListedOk
  <2> SUFFICES ASSUME NEW v \in Versions PROVE ~Listed(v)
    BY DEF ListedOk
  <2>1. "reconcile" \in Maint /\ Rvs(<<>>) = {}
    BY IndexListed DEF Maint
  <2> QED BY <1>3, <2>1, IdleFields DEF Listed
<1>6. EndedListed
  BY DEF StoreInit, EndedListed
<1>7. \A p \in Maint : m[p].pc = "idle"
  BY <1>3, IdleFields
<1>8. NoneBeside /\ GuardHolds /\ RemovedOk /\ RepairOk
  BY <1>7 DEF NoneBeside, GuardHolds, RemovedOk, RepairOk, Deleting, Removers, Maint
<1>9. EntriesTell
  BY <1>3 DEF EntriesTell
<1>10. LatestTells
  BY DEF StoreInit, LatestTells, Names
<1> QED BY <1>1, <1>2, <1>4, <1>5, <1>6, <1>8, <1>9, <1>10 DEF StoreInv

LEMMA MaintainKeeps ==
    ASSUME StoreInv, Maintain
    PROVE  StoreInv'
<1>1. CASE \E v \in Versions : DeleteVersion(v) \/ DeleteVersionFails(v) \/ DeleteRun(v)
  BY <1>1, DeleteVersionKeeps, DeleteVersionFailsKeeps, DeleteRunKeeps
<1>2. CASE DvRead \/ DrRead \/ CleanupRead \/ RecRead
  BY <1>2, ReadIndexKeeps DEF DvRead, DrRead, CleanupRead, RecRead
<1>3. CASE DvWrite \/ DrWrite \/ CleanupWrite \/ TagWrite \/ PruneWrite \/ RecWrite
  BY <1>3, DvWriteKeeps, DrWriteKeeps, CleanupWriteKeeps, TagWriteKeeps,
     PruneWriteKeeps, RecWriteKeeps
<1>4. CASE DvLatest \/ DrLatest \/ CleanupLatest
  BY <1>4, DvLatestKeeps, DrLatestKeeps, CleanupLatestKeeps
<1>5. CASE TagStale \/ Cleanup \/ Prune \/ Reconcile
  BY <1>5, TagStaleKeeps, CleanupKeeps, PruneKeeps, ReconcileKeeps
<1>6. CASE CleanupRemove \/ PruneCheck \/ PruneRemove \/ PruneScan \/ RecScan
  BY <1>6, CleanupRemoveKeeps, PruneCheckKeeps, PruneRemoveKeeps, PruneScanKeeps, RecScanKeeps
<1>7. CASE \E p \in {"delete_version", "delete_run", "cleanup"} : RewriteFails(p)
  BY <1>7, RewriteFailsKeeps
<1>8. CASE WipeAllData \/ WipeForImport \/ WipeDirs \/ WipeFiles
  BY <1>8, WipeStartsKeep, WipeDirsKeeps, WipeFilesKeeps
<1> QED BY <1>1, <1>2, <1>3, <1>4, <1>5, <1>6, <1>7, <1>8 DEF Maintain

LEMMA ProduceKeeps ==
    ASSUME StoreInv, NEW v \in Versions, Produce(v)
    PROVE  StoreInv'
<1>1. CASE Begin(v) \/ Register(v) \/ ImportRow(v) \/ ImportCopy(v)
  BY <1>1, BeginKeeps, RegisterKeeps, ImportRowKeeps, ImportCopyKeeps
<1>2. CASE Finish(v) \/ FinishSample(v) \/ ImportFinish(v)
  BY <1>2, WrittenKeeps DEF Finish, FinishSample, ImportFinish
<1>3. CASE GenerateFails(v) \/ SampleFails(v) \/ ImportRollback(v)
  BY <1>3, FailsKeep
<1>4. CASE AppendRead(v) \/ AppendReadFails(v) \/ AppendWrite(v) \/ AppendFails(v)
  BY <1>4, AppendReadKeeps, AppendWriteKeeps, AppendFailsKeeps
<1> QED BY <1>1, <1>2, <1>3, <1>4 DEF Produce

LEMMA StoreStutters ==
    ASSUME StoreInv, UNCHANGED storeVars
    PROVE  StoreInv'
<1>1. FilesOk' /\ PlacesOk' /\ EndedListed' /\ RepairOk' /\ NoneBeside'
  BY DEF storeVars, StoreInv, FilesOk, PlacesOk, EndedListed, RepairOk, NoneBeside
<1>2. CallsOk' /\ GuardHolds' /\ RemovedOk' /\ LatestTells'
  BY DEF storeVars, StoreInv, CallsOk, CallOk, OnesOk, GuardHolds, RemovedOk, LatestTells, Names, Guarded, FullDirs, Imports
<1>3. ListedOk' /\ EntriesTell'
  BY DEF storeVars, StoreInv, ListedOk, Listed, EntriesTell, Owed
<1> QED BY <1>1, <1>2, <1>3 DEF StoreInv

(* The whole of what is known of the report store holds at every step of   *)
(* every producer and every maintenance call (report_index.py, app.py,     *)
(* reports_retention.py), whatever the versions, the calls and the clock.  *)
THEOREM ReportStoreSound == StoreSpec => []StoreInv
<1>1. StoreInit => StoreInv
  BY StoreInvHolds
<1>2. StoreInv /\ [StoreNext]_storeVars => StoreInv'
  BY MaintainKeeps, ProduceKeeps, CrashKeeps, StoreStutters DEF StoreNext
<1> QED BY <1>1, <1>2, PTL DEF StoreSpec

(* A report whose producer got through its append is listed as long as it  *)
(* is on disk, and at rest no entry outlives its report, unless a call     *)
(* that reads and writes index.json without the producers' lock overlapped *)
(* the change, or a step that failed or a kill left the version half done: *)
(* for any number of versions, calls, faults and kills.                    *)
THEOREM FinishedStayListed == StoreSpec => []FinishedReportsStayListed
<1>1. StoreInv => FinishedReportsStayListed
  <2> SUFFICES ASSUME StoreInv PROVE FinishedReportsStayListed
    OBVIOUS
  <2>1. \A v \in Versions :
          pc[v] = "end" /\ dir[v] = "full" /\ v \notin exposed => v \in Rvs(index)
    BY DEF StoreInv, EndedListed
  <2>2. ASSUME Quiet, NEW v \in Rvs(index) PROVE dir[v] = "full" \/ v \in exposed
    <3>1. v \in Versions
      BY ListedAreVersions DEF StoreInv, FilesOk
    <3>2. ~Owed(v)
      BY <2>2 DEF Quiet, Owed, Removers, Maint
    <3> QED BY <3>1, <3>2 DEF StoreInv, EntriesTell
  <2> QED BY <2>1, <2>2 DEF FinishedReportsStayListed
<1> QED BY <1>1, ReportStoreSound, PTL

(* At rest and without an overlap latest.json names a listed version       *)
(* exactly while there is one, whichever writer touched it last.           *)
THEOREM LatestIsListed == StoreSpec => []LatestNamesAListedVersion
<1>1. StoreInv => LatestNamesAListedVersion
  BY DEF StoreInv, LatestTells, LatestNamesAListedVersion, Names, Quiet, Maint
<1> QED BY <1>1, ReportStoreSound, PTL

(* A reconcile that nothing overtook lists every report on disk, drops no  *)
(* entry but those of the directories it removed or found removed by age,  *)
(* and points latest.json at the newest entry, whatever failed deletes,    *)
(* overlaps and kills had left for it.                                     *)
THEOREM ReconcileLeavesNoGap == StoreSpec => ReconcileRepairs
<1> DEFINE p == "reconcile"
           Repairs == RecWrite /\ m[p].idx = index /\ m[p].full = FullDirs =>
              /\ \A v \in Versions :
                    /\ dir[v] = "full" => v \in Rvs(index')
                    /\ v \in Rvs(index') /\ dir[v] # "full" =>
                          /\ v \in Rvs(index)
                          /\ dir[v] = "none" \/ v \in m[p].of
              /\ IF latest' = None THEN index' = <<>>
                 ELSE latest'.rv = NewestByName(index').rv
<1>1. ASSUME StoreInv, RecWrite, m[p].idx = index, m[p].full = FullDirs
      PROVE  Repairs
  <2>1. m[p].pc = "write" /\ p \in Maint /\ FilesOk /\ CallsOk /\ RepairOk
    BY <1>1 DEF RecWrite, Maint, StoreInv
  <2>2. /\ FullDirs \subseteq Rvs(m[p].one)
        /\ Rvs(m[p].one) \subseteq Rvs(index) \cup FullDirs
        /\ \A v \in Rvs(m[p].one) : dir[v] # "none" => v \in m[p].of \cup FullDirs
    BY <1>1, <2>1 DEF RepairOk
  <2>3. index' = m[p].one
    BY <1>1 DEF RecWrite
  <2>4. ASSUME NEW v \in Versions
        PROVE  /\ dir[v] = "full" => v \in Rvs(index')
               /\ v \in Rvs(index') /\ dir[v] # "full" =>
                     v \in Rvs(index) /\ (dir[v] = "none" \/ v \in m[p].of)
    BY <2>2, <2>3 DEF FullDirs
  <2> DEFINE top == NewestByName(m[p].one)
  <2>5. m[p].one \in Seq(StoreEntries)
    BY <2>1 DEF CallsOk, OnesOk
  <2>6. IF m[p].one = <<>> THEN top = None ELSE top \in StoreEntries
    BY <2>5, NewestByNameListed
  <2>7. latest' = IF (IF latest = None THEN None ELSE latest.rv)
                     = (IF top = None THEN None ELSE top.rv) THEN latest ELSE top
    BY <1>1 DEF RecWrite
  <2> HIDE DEF top
  <2>8. /\ None \notin StoreEntries /\ None \notin Versions
        /\ \A e \in StoreEntries : e.rv \in Versions
        /\ latest = None \/ latest \in StoreEntries
    BY <2>1, StoreAssumption DEF StoreEntries, FilesOk
  <2>9. IF latest' = None THEN m[p].one = <<>> ELSE latest'.rv = top.rv
    BY <2>6, <2>7, <2>8
  <2> QED BY <2>3, <2>4, <2>9 DEF top
<1>2. StoreInv /\ [StoreNext]_storeVars => [Repairs]_storeVars
  BY <1>1
<1> QED BY <1>2, ReportStoreSound, PTL DEF StoreSpec, ReconcileRepairs
=============================================================================
