---------------------------- MODULE MC_Provenance ----------------------------
EXTENDS Provenance, TLC

(* Two reports of one cell.                                                *)
MCReports == {1, 2}
=============================================================================
