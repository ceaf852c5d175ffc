\* The release gate against the dry run it announces.
SPECIFICATION Spec
CONSTANTS
  Absent = Absent
  Requests <- ShadowRequests
  MaxInFlight = 1
  Faults = FALSE
INVARIANT GateMirrorsDryRun
CHECK_DEADLOCK FALSE
