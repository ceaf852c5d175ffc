\* Resident or with max_cycles, three restarts, two Ctrl+C at any moment.
SPECIFICATION FairSpec
CONSTANTS
  Workers <- TwoWorkers
  MaxRestarts = 3
  MaxPresses = 2
INVARIANTS
  TypeOK
  RestartBudget
PROPERTIES
  ImplementsSupervision
  FailureEndsTheCall
  BoundedCallEnds
  InterruptEndsTheProcess
\* the process ends
CHECK_DEADLOCK FALSE
