CONSTANTS
  d1 = d1
  d2 = d2
  Doc = {d1, d2}
  Req = {q1, q2}
  NoReq = NoReq
  Personal = {d1}
  Wasteful = {d1}
  Days <- MCDays
  amount <- MCAmount
  paid <- MCPaid
  method <- MCMethod
  Questions <- MCQuestions
SYMMETRY MCSymmetry
SPECIFICATION DaySpec
INVARIANTS DayTypeOK ProfitsAgree
PROPERTIES LockHolds AlarmIsReal
CHECK_DEADLOCK FALSE
