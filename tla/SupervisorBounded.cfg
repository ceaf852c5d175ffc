\* max_cycles: what is left running after supervisor_stopped.
SPECIFICATION FairSpec
CONSTANTS
  Workers <- TwoWorkers
  MaxRestarts = 1
  MaxPresses = 0
PROPERTY StoppedEndsTheProcess
\* the process ends
CHECK_DEADLOCK FALSE
