CONSTANTS
  Op  = {o1}
  Req = {r1, r2}
  MaxBatch = 1
  Batches <- MCBatches
  Errors = {"Error"}
  MaxEffects = 2
SPECIFICATION ServerSpec
INVARIANT NeverReapplied
