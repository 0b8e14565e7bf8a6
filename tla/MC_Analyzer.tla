---------------------------- MODULE MC_Analyzer ----------------------------
(* Analyzer with every cache of two files (and three larger), the kinds    *)
(* of command line and every selection of four features.                   *)
EXTENDS Analyzer

Kinds == {"cur", "old", "rejected", "corrupt"}
LongCaches == {[i \in 1 .. 3 |-> kind] : kind \in {"cur", "old"}} \cup {<<"cur", "cur", "rejected">>}
SmallCaches == UNION {[S -> Kinds] : S \in SUBSET {1, 2}} \cup LongCaches

Command(mode, scoped, fuzzy, registered, max, conc) ==
    [mode |-> mode, scoped |-> scoped, fuzzy |-> fuzzy, registered |-> registered,
     max |-> max, conc |-> conc, spins |-> 8]

Commands ==
    {Command("cache", scoped, FALSE, TRUE, 1, 1) : scoped \in BOOLEAN}
    \cup {Command("resume", scoped, FALSE, TRUE, 3, 2) : scoped \in BOOLEAN}
    \cup {Command("resume", TRUE, TRUE, FALSE, 2, 3), Command("resume", TRUE, FALSE, TRUE, 1, 1),
          Command("resume", TRUE, FALSE, TRUE, 4, 3)}

(* bonus_chain_dynamics, freespin_dynamics, payouts_by_spin_type and       *)
(* spin_type_outcomes, in the order of their ids.                          *)
RealRequires == <<{}, {1, 3}, {}, {3}>>
=============================================================================
