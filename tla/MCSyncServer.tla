---------------------------- MODULE MCSyncServer ----------------------------
(* A small instance of SyncServer: every batch of at most MaxBatch operations, with *)
(* repetitions, since nothing stops a client from naming an operation twice.        *)
EXTENDS SyncServer, TLC

CONSTANT MaxBatch

MCBatches  == UNION {[1 .. n -> Op] : n \in 0 .. MaxBatch}
MCSymmetry == Permutations(Op) \cup Permutations(Req)
=============================================================================
