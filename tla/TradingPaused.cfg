\* Orders of a cycle that read paused.
SPECIFICATION Spec
CONSTANTS
  Absent = Absent
  Symbols = {btc}
  Limits <- SmallLimits
  MaxDay = 1
  MaxTroubles = 0
  Backends = {TRUE}
INVARIANT PausedPlacesNoOrders
