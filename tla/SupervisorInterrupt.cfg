\* A first Ctrl+C at any moment.
SPECIFICATION Spec
CONSTANTS
  Workers <- TwoWorkers
  MaxRestarts = 0
  MaxPresses = 1
INVARIANT FirstInterruptIsClean
\* the process ends
CHECK_DEADLOCK FALSE
