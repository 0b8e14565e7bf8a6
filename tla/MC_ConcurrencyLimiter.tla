------------------------ MODULE MC_ConcurrencyLimiter ------------------------
(* More threads of each priority than slots, so that both caps bind.       *)
EXTENDS ConcurrencyLimiter, TLC

Symmetric == Permutations(Foreground) \cup Permutations(Background)
=============================================================================
