\* One intent, called again after a timeout.
SPECIFICATION Spec
CONSTANTS
  Intents = {first}
  MaxCalls = 2
  None = None
INVARIANT RejectionsAreTrue
\* the caller stops when every intent has been answered
CHECK_DEADLOCK FALSE
