\* The supervisor's loop and a pass by hand; fetches of two candles, four periods.
SPECIFICATION Spec
CONSTANTS
  Symbols <- MCSymbols
  Ingesters = {"loop", "manual"}
  Resident = {"loop"}
  Limit = 2
  MaxClock = 3
  MaxFaults = 1
INVARIANTS
  TypeOK
  ReportedIsStored
PROPERTY CatchesUp
