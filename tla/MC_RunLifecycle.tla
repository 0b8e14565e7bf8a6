--------------------------- MODULE MC_RunLifecycle ---------------------------
(* Two batches that meet on one cell, and a restart.                       *)
EXTENDS RunLifecycle

=============================================================================
