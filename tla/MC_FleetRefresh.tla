--------------------------- MODULE MC_FleetRefresh ---------------------------
(* Two queues over the same cells.                                         *)
EXTENDS FleetRefresh, TLC

Symmetric == Permutations(Queues)
=============================================================================
