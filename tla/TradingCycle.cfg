\* Two symbols, limits that one iteration reaches, a midnight or a fault that may
\* fall between any two steps, with and without time zones.
SPECIFICATION FairSpec
CONSTANTS
  Absent = Absent
  Symbols = {btc, eth}
  Limits <- TightLimits
  MaxDay = 2
  MaxTroubles = 1
  Backends = {TRUE, FALSE}
INVARIANTS
  TypeOK
  NeverOversold
  StopsAreEffective
  DailyLimitsHold
  OrdersAnnounced
PROPERTY PositionsScanned
