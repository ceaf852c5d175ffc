SPECIFICATION Spec
CONSTANTS
  Symbols <- MCSymbols
  Prices = {4000, 5200}
  Quantities = {1, 3}
  InitialCash = 50000
  FeeBps = 10
  MinNotional = 1000
  TakeProfit = 5
  MaxHold = 2
  Precise = 100
  MaxTick = 3
  MaxFills = 4
INVARIANTS TypeOK AccountsAgree ExitsAreTaken ExposureBounded
