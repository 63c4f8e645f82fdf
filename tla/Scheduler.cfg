SPECIFICATION SchedulerFairSpec
CONSTANTS
  Tasks = {t1, t2}
  Callers = {c1, c2}
  Delays = {0, 1}
  MaxId = 2
  MaxTime = 2
  Wraps = FALSE
  NoTask = NoTask
INVARIANT NoLostWakeup
INVARIANT StoppedNeverFires
PROPERTY TimerSpec
PROPERTY EventsLeaveQueue
CHECK_DEADLOCK FALSE
