--------------------------- MODULE MC_ConfigFiles ---------------------------
(* ConfigFiles for a variant row and the upstream key it belongs to.       *)
EXTENDS ConfigFiles, TLC

CONSTANTS t1, t2, t3, variant, underlying
MCRows == {variant, underlying}
MCKeys == {underlying}
MCOwner == variant :> underlying
Symmetric == Permutations({t1, t2, t3})
=============================================================================
