CONSTANTS
  c1 = c1
  Sale = {s1}
  Doc = {s1}
  Entry = {s1}
  Payment = {}
  Void = {v1}
  Customer = {c1}
  NoCustomer = NoCustomer
  Empty = Empty
  NoSale = NoSale
  Terms <- MCCreditTerms
  Amounts <- MCAmounts
  MaxLedger = 0
  Day = {1}
  Closing = {}
  NoDay = NoDay
  NoClosing = NoClosing
SPECIFICATION SalesSpec
INVARIANT CreditBecomesDebt
CHECK_DEADLOCK FALSE
