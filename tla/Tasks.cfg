SPECIFICATION TasksSpec
CONSTANTS
  Tasks = {packet, q1, bye}
  Timed = {packet}
  LastTask = LastTask
  Callers = {self, io, db}
  Self = self
  NoTask = NoTask
  Queries = {q1, q2, q3}
  WithCallback = {q1}
  DbThread = db
  Bye = bye
INVARIANT BackTasksInOrder
INVARIANT EachQueryOnce
PROPERTY TasksLeaveList
PROPERTY QueriesRun
CHECK_DEADLOCK FALSE
