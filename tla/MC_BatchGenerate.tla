-------------------------- MODULE MC_BatchGenerate --------------------------
(* One batch of two items.                                                *)
EXTENDS BatchGenerate
=============================================================================
