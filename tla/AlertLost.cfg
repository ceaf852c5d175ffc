\* Ticks of 20 seconds: 60, 120, 60, and a window of 300.
SPECIFICATION DeliverySpec
CONSTANTS
  Period = 3
  Delay = 1
  StaleAfter = 6
  ConfirmWithin = 3
  MaxAge = 10
  Window = 15
  RecordsFail = FALSE
  SendsFail = FALSE
INVARIANT OutageIsTold
