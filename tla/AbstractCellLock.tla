--------------------------- MODULE AbstractCellLock ---------------------------
(***************************************************************************)
(* What the console's threads believe the cell registry to be: a lock with *)
(* an owner per (cell, operation), where only the owner can release and    *)
(* conflicting operations are never owned together.  CellLockRegistry      *)
(* implements it without storing owners.                                   *)
(***************************************************************************)
CONSTANTS Threads, Cells, Free

Operations == {"sampling", "generating", "deleting"}

VARIABLE owner

Init == owner = [c \in Cells |-> [op \in Operations |-> Free]]

Compatible(op1, op2) == op1 # op2 /\ op1 # "deleting" /\ op2 # "deleting"

Acquire(t, c, op) ==
    /\ \A other \in Operations : owner[c][other] # Free => Compatible(op, other)
    /\ owner' = [owner EXCEPT ![c][op] = t]

Release(t, c, op) ==
    /\ owner[c][op] = t
    /\ owner' = [owner EXCEPT ![c][op] = Free]

Next == \E t \in Threads, c \in Cells, op \in Operations :
            Acquire(t, c, op) \/ Release(t, c, op)

Spec == Init /\ [][Next]_owner
=============================================================================
