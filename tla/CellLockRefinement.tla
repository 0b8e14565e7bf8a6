-------------------------- MODULE CellLockRefinement --------------------------
(* CellLockRegistry seen as a lock with owners.  The refinement mapping    *)
(* reads the owner of an operation off the callers' flags.                 *)
EXTENDS CellLockRegistry

CONSTANT Free

ASSUME FreeAssumption == Free \notin Threads

Owner == [c \in Cells |-> [op \in CellOperation |->
             IF \E t \in Threads : <<c, op>> \in held[t]
             THEN CHOOSE t \in Threads : <<c, op>> \in held[t]
             ELSE Free]]

OwnedLock == INSTANCE AbstractCellLock WITH owner <- Owner

(* The owner-less registry behaves as a lock with owners: every            *)
(* try_acquire_cell and release_cell of its callers is an Acquire or a     *)
(* Release of AbstractCellLock, and nobody can release another's lock.     *)
ImplementsOwnedLock == OwnedLock!Spec
=============================================================================
