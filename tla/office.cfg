CONSTANTS
  a = a
  b = b
  c = c
  key = key
  NoKey = NoKey
  NoRow = NoRow
  NoPrice = NoPrice
  NoCopy = NoCopy
  Empty = Empty
  Phone = Phone
  Row = {a, b, c}
  Change = {"u1", "u2"}
  Purchase = {"p1", "p2"}
  Doc = {"p1", "p2"}
  Payout = {"q1"}
  Dump = {"b1", "b2"}
  Manual = {"b1"}
  Actor = {Phone, "p1", "p2", "q1", "b1", "b2"}
  Payments <- MCPayments
  MaxTime = 2
  Retention = 1
  keyOf <- MCKeyOf
  Scenes <- MCScenes
  Orders <- MCOrders
SPECIFICATION OfficeSpec
INVARIANTS OfficeTypeOK OneCurrentPrice CacheComplete MergedIsFresh PayableAccounted
           SuccessIsRestorable SomeDumpIsKept
CHECK_DEADLOCK FALSE
