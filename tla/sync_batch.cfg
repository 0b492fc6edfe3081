CONSTANTS
  Op  = {o1, o2}
  Req = {r1}
  NoReq = NoReq
  Batches <- MCBatches
  Errors = {}
  MaxEffects = 1
  MaxFaults = 1
SYMMETRY MCSymmetry
SPECIFICATION SystemSpec
INVARIANT FailureIsRecorded
PROPERTY ImplementsAtLeastOnce
