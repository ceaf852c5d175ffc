\* A pause that is committed and then answered as blocked.
SPECIFICATION Spec
CONSTANTS
  Absent = Absent
  Requests <- PauseRequest
  MaxInFlight = 1
  Faults = TRUE
PROPERTY BlockedMeansNotCommitted
CHECK_DEADLOCK FALSE
