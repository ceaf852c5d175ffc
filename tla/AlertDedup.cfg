\* Two threads, as the two loops are, and the cycle errors of two symbols.
\* Ticks of 100 seconds: the window is three; a caller may be one tick late.
SPECIFICATION DedupSpec
CONSTANTS
  Threads = {ingestion, trading}
  EventTypes = {"cycle_error"}
  Components = {"runner"}
  Symbols = {"BTC", "ETH"}
  Window = 3
  MaxLag = 1
INVARIANTS
  DedupTypeOK
PROPERTIES
  SpacedDeliveries
  SilenceIsBounded
