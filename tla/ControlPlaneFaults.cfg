\* One request at a time, failing statements and a killed API.
SPECIFICATION Spec
CONSTANTS
  Absent = Absent
  Requests <- SerialRequests
  MaxInFlight = 1
  Faults = TRUE
INVARIANTS
  NoTraceOfRefusals
  AuditTrailExplainsRows
CHECK_DEADLOCK FALSE
