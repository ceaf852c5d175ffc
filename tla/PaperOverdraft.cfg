SPECIFICATION Spec
CONSTANTS
  Symbols <- MCSymbols
  Prices = {4000, 4900}
  Quantities = {3}
  InitialCash = 50000
  FeeBps = 10
  MinNotional = 1000
  TakeProfit = 5
  MaxHold = 2
  Precise = 100
  MaxTick = 3
  MaxFills = 4
INVARIANT CashCovers
