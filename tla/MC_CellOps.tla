----------------------------- MODULE MC_CellOps -----------------------------
(* CellOps with three casts.  Open: an abandoned wait, an ad-hoc run, an   *)
(* automatic cleanup and machine-wide deletes over two cells.  Cleaning:   *)
(* both cleanups and the tiered deletes, each with its own list.  Locked:  *)
(* the flows that keep the registry's discipline, two runs after each      *)
(* other in a cell of three chunks.  The cells and the runs of a cast are  *)
(* interchangeable.                                                        *)
EXTENDS CellOps, TLC

CONSTANTS b1, q1, q2, a1, g1, d1, d2, k1, m1, c1, c2, c3, r1, r2, r3

Open == [threads |-> {q2, a1, d1, k1}, runs |-> {r1}, cells |-> {c1, c2},
         kinds |-> {"machine", "all"}, chunks |-> 2]
Cleaning == [Open EXCEPT !.threads = {q2, d1, k1, m1}, !.kinds = {"mode", "machine"}]
Locked == [threads |-> {b1, q1, g1, d1, d2}, runs |-> {r2, r3}, cells |-> {c3},
           kinds |-> {"version", "mode", "mode_force"}, chunks |-> 3]
AllCasts == {Open, Cleaning, Locked}

Symmetric == Permutations({c1, c2}) \cup Permutations({r2, r3})
=============================================================================
