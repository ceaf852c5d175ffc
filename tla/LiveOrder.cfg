\* Two intents, each called up to twice.
SPECIFICATION Spec
CONSTANTS
  Intents = {first, second}
  MaxCalls = 2
  None = None
INVARIANTS
  TypeOK
  ConfirmedOrdersExist
  ExtraOrdersWereHidden
\* the caller stops when every intent has been answered
CHECK_DEADLOCK FALSE
