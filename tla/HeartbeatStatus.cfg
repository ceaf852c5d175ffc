\* The status against the heartbeat, with every alert recorded.
SPECIFICATION Spec
CONSTANTS
  Period = 3
  Delay = 1
  StaleAfter = 6
  ConfirmWithin = 3
  MaxAge = 10
  RecordsFail = FALSE
INVARIANT StatusFollowsHeartbeat
