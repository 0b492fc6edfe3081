CONSTANTS
  Op  = {o1}
  Req = {r1, r2}
  NoReq = NoReq
  Batches <- MCBatches
  Errors = {"Error"}
  MaxEffects = 2
  MaxFaults = 0
SPECIFICATION AutoSpec
PROPERTY SyncedWhenOnlineAgain
