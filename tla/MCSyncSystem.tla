---------------------------- MODULE MCSyncSystem ----------------------------
(* A small instance of SyncSystem.  The phone never names an operation twice in a    *)
(* request, so the batches are the orderings of the sets of operations.              *)
EXTENDS SyncSystem, TLC

MCBatches  ==
  UNION {{s \in [1 .. n -> Op] : \A i, j \in 1 .. n : s[i] = s[j] => i = j}
           : n \in 0 .. Cardinality(Op)}
MCSymmetry == Permutations(Op) \cup Permutations(Req)
=============================================================================
