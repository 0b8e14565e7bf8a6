---------------------------- MODULE MC_ChunkIndex ----------------------------
EXTENDS ChunkIndex, TLC

MCWorkers == {"w1", "w2"}
MCPlace == [w \in MCWorkers |-> IF w = "w1" THEN 0 ELSE 1]
=============================================================================
