SPECIFICATION SchedulerFairSpec
CONSTANTS
  Tasks = {t1}
  Callers = {c1}
  Delays = {0, 1}
  MaxId = 1
  MaxTime = 1
  Wraps = FALSE
  NoTask = NoTask
PROPERTY ThreadEnds
CHECK_DEADLOCK FALSE
