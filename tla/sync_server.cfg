CONSTANTS
  Op  = {o1, o2}
  Req = {r1, r2}
  MaxBatch = 2
  Batches <- MCBatches
  Errors = {"Error"}
  MaxEffects = 2
SYMMETRY MCSymmetry
SPECIFICATION ServerSpec
INVARIANTS TypeOK AtMostOnce NoParallelWork SyncedIsReal
PROPERTY SyncedIsFinal
