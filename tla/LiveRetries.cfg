\* One intent, called again after an answer that it may be.
SPECIFICATION Spec
CONSTANTS
  Intents = {first}
  MaxCalls = 2
  None = None
INVARIANT OneOrderPerIntent
\* the caller stops when every intent has been answered
CHECK_DEADLOCK FALSE
