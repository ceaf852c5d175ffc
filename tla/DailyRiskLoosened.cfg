\* A loss across the edge of a tier.
SPECIFICATION Spec
CONSTANTS
  Equities <- EdgeEquities
  InitialCash = 50000
  MaxDay = 2
  None = None
PROPERTY ShrinkingNeverLoosens
