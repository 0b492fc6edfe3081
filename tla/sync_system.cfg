CONSTANTS
  Op  = {o1}
  Req = {r1, r2}
  NoReq = NoReq
  Batches <- MCBatches
  Errors = {"Error"}
  MaxEffects = 2
  MaxFaults = 1
SPECIFICATION AutoSpec
INVARIANTS SystemTypeOK RecordedOnce FailureIsRecorded
PROPERTIES ImplementsAtLeastOnce PendingSettles
