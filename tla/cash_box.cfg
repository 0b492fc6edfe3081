CONSTANTS
  Day = {1, 2}
  Entry = {e1, e2, e3}
  Payment = {e3}
  Closing = {k1, k2}
  NoDay = NoDay
  NoClosing = NoClosing
SYMMETRY MCSymmetry
SPECIFICATION CashSpec
INVARIANTS CashTypeOK ClosingIsComplete
PROPERTY ClosingIsFinal
CHECK_DEADLOCK FALSE
