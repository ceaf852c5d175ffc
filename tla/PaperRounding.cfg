\* A column that is exact up to four units: the sum of two purchases is not.
SPECIFICATION Spec
CONSTANTS
  Symbols <- MCSymbols
  Prices = {2000}
  Quantities = {3, 4}
  InitialCash = 50000
  FeeBps = 10
  MinNotional = 1000
  TakeProfit = 5
  MaxHold = 2
  Precise = 4
  MaxTick = 3
  MaxFills = 4
INVARIANT SalesCovered
