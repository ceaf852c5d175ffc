\* Two handlers at a time, no faults: every race for the rows.
SPECIFICATION FairSpec
CONSTANTS
  Absent = Absent
  Requests <- RacingRequests
  MaxInFlight = 2
  Faults = FALSE
INVARIANTS
  TypeOK
  NeverLiveSmallAuto
  AckedChangeWasInForce
PROPERTIES
  Contract
  EveryRequestAnswered
\* the system stops when every request has been answered
CHECK_DEADLOCK FALSE
