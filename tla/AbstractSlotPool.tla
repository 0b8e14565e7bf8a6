--------------------------- MODULE AbstractSlotPool ---------------------------
(***************************************************************************)
(* What ConcurrencyLimiter promises its callers (rate_limiter.py, class    *)
(* docstring): N slots; a background caller enters only while fewer than   *)
(* N - Reserve slots are taken.                                            *)
(***************************************************************************)
EXTENDS Naturals

CONSTANTS Foreground, Background, N, Reserve

VARIABLES holders, (* who has a slot          *)
          taken    (* how many slots are taken *)

vars == <<holders, taken>>

Init == holders = {} /\ taken = 0

Enter(t) ==
    /\ t \notin holders
    /\ holders' = holders \cup {t}
    /\ taken' = taken + 1

EnterForeground(t) == taken < N /\ Enter(t)

EnterBackground(t) == taken < N - Reserve /\ Enter(t)

Leave(t) ==
    /\ t \in holders
    /\ holders' = holders \ {t}
    /\ taken' = taken - 1

Next ==
    \/ \E t \in Foreground : EnterForeground(t)
    \/ \E t \in Background : EnterBackground(t)
    \/ \E t \in Foreground \cup Background : Leave(t)

Spec == Init /\ [][Next]_vars
=============================================================================
