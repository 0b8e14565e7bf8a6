---------------------------- MODULE MC_AutoInspect ----------------------------
(* One sweep of two items by two workers.  The first cell is new, or its   *)
(* rawdata is too small for the target; another operation makes it fresh.  *)
(* The second is of class bcm_hard and never sampled.                      *)
EXTENDS AutoInspect

Cell(raw_, report_) == [raw |-> raw_, report |-> report_]

FoundCells ==
    {[i \in Items |-> IF i \in Structural THEN Cell("none", "none") ELSE c] :
        c \in {Cell("none", "none"), Cell("thin", "wide")}}
=============================================================================
