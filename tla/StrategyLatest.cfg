\* The supervisor's loop alone; fetches of two candles, four periods.
SPECIFICATION Spec
CONSTANTS
  Symbols <- MCSymbols
  Ingesters = {"loop"}
  Resident = {"loop"}
  Limit = 2
  MaxClock = 3
  MaxFaults = 0
INVARIANT StrategySeesLatest
