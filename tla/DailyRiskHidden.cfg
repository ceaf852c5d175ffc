\* A loss below the initial cash.
SPECIFICATION Spec
CONSTANTS
  Equities <- EdgeEquities
  InitialCash = 50000
  MaxDay = 2
  None = None
PROPERTY SmallLossStops
