\* Two days over the edges of all thresholds.
SPECIFICATION Spec
CONSTANTS
  Equities <- EdgeEquities
  InitialCash = 50000
  MaxDay = 2
  None = None
INVARIANTS
  TypeOK
  DeepLossStops
  StatusNotMilder
