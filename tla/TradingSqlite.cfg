\* A database that drops time zones: SQLite.
SPECIFICATION Spec
CONSTANTS
  Absent = Absent
  Symbols = {btc, eth}
  Limits <- SmallLimits
  MaxDay = 1
  MaxTroubles = 0
  Backends = {FALSE}
INVARIANT BuildSucceeds
