--------------------------- MODULE MC_ReportIndex ---------------------------
EXTENDS ReportIndex, TLC

(* A stale imported report, and a generation and a sampling run that are   *)
(* current, the latter with a newer analyzer.                              *)
MCVersions == 1..3
MCOrigin == <<"import", "generate", "sample">>
MCTag == <<"a1", "a1", "a2">>
MCEffective == <<"stale", "current", "current">>
=============================================================================
