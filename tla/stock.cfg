CONSTANTS
  Req = {r1, r2}
  Flour = {f1, f2}
  Item = {i1}
  Tank = {t1}
  NoStore = NoStore
  Amounts <- MCAmounts
  MaxLevel = 1
SYMMETRY MCSymmetry
SPECIFICATION StockSpec
INVARIANTS StockTypeOK OneFlourRow LowIsNoticed
PROPERTY NotOverdrawn
