CONSTANTS
  c1 = c1
  Sale = {s1, s2, s3}
  Doc = {s1, s2, s3}
  Entry = {s1, s2, s3}
  Payment = {}
  Void = {v1, v2}
  Customer = {c1}
  NoCustomer = NoCustomer
  Empty = Empty
  NoSale = NoSale
  Terms <- MCTerms
  Amounts <- MCAmounts
  MaxLedger = 1
  Day = {1}
  Closing = {}
  NoDay = NoDay
  NoClosing = NoClosing
SYMMETRY MCSymmetry
SPECIFICATION SalesSpec
INVARIANTS SalesTypeOK BalancesAgree DuplicateNeedsRace
CHECK_DEADLOCK FALSE
