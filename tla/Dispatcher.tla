----------------------------- MODULE Dispatcher -----------------------------
(***************************************************************************)
(* The game thread (src/src/tasks.cpp, tasks.h): a list of Tasks behind    *)
(* one mutex and one condition variable.  Every game action of the server  *)
(* runs here: client packets and database callbacks are pushed at the      *)
(* back, the timer thread pushes due events at the front, and shutdown     *)
(* pushes a last task that ends the thread.                                *)
(*                                                                         *)
(* A section run under taskLock is one action; the state test at the head  *)
(* of the loop, the notify_one after an unlock and the execution of a task *)
(* are steps of their own.                                                 *)
(***************************************************************************)
EXTENDS Integers, Sequences

CONSTANTS
  Tasks,       \* the Task objects, each added once
  Timed,       \* those created with an expiration
  LastTask,    \* the task Dispatcher::shutdown creates
  Callers,     \* the threads that call addTask and shutdown
  Self,        \* the dispatcher thread, a caller while it runs a task
  NoTask

ASSUME DispatcherAssumption ==
  /\ Timed \subseteq Tasks
  /\ LastTask \notin Tasks
  /\ NoTask \notin Tasks \cup {LastTask}
  /\ Self \in Callers

VARIABLES
  threadState,
  taskList,
  pc,          \* where threadMain is
  current,     \* the task taken from the list
  call,        \* where each calling thread is
  expired,     \* the timed tasks whose expiration has passed
  ran,         \* history: tasks executed, in order
  deleted,     \* history: tasks deleted without being executed
  back         \* history: tasks accepted at the back, in order

vars == <<threadState, taskList, pc, current, call, expired, ran, deleted, back>>
mainVars == <<pc, current, ran>>

Queued == {taskList[i] : i \in DOMAIN taskList}
Executed == {ran[i] : i \in DOMAIN ran}
Known == Queued \cup Executed \cup deleted \cup {current}

Init ==
  /\ threadState = "RUNNING"
  /\ taskList = <<>> /\ current = NoTask /\ pc = "test"
  /\ call = [c \in Callers |-> "idle"]
  /\ expired = {} /\ ran = <<>> /\ deleted = {} /\ back = <<>>
-----------------------------------------------------------------------------
CanCall(c) == call[c] = "idle" /\ (c = Self => pc = "running")

Push_swapped(t, front) == IF front THEN Append(taskList, t) ELSE <<t>> \o taskList
Push(t, front) == IF front THEN <<t>> \o taskList ELSE Append(taskList, t)

DoSignal_never == FALSE
DoSignal == taskList = <<>>

AddTask(c, t, front) ==
  /\ CanCall(c)
  /\ t \in Tasks \ Known
  /\ threadState = "RUNNING"
  /\ taskList' = Push(t, front)
  /\ call' = IF DoSignal THEN [call EXCEPT ![c] = "notify"] ELSE call
  /\ back' = IF front THEN back ELSE Append(back, t)
  /\ UNCHANGED <<mainVars, threadState, expired, deleted>>

\* addTask once stop has been called: the task is deleted.
RefuseTask(c, t) ==
  /\ CanCall(c)
  /\ t \in Tasks \ Known
  /\ threadState # "RUNNING"
  /\ deleted' = deleted \cup {t}
  /\ UNCHANGED <<mainVars, threadState, taskList, call, expired, back>>

Notify(c) ==
  /\ call[c] = "notify"
  /\ call' = [call EXCEPT ![c] = "idle"]
  /\ pc' = IF pc = "waiting" THEN "woken" ELSE pc
  /\ UNCHANGED <<threadState, taskList, current, expired, ran, deleted, back>>

\* ThreadHolder::stop, called by the game on the dispatcher thread.
Stop ==
  /\ CanCall(Self)
  /\ threadState = "RUNNING"
  /\ threadState' = "CLOSING"
  /\ UNCHANGED <<mainVars, taskList, call, expired, deleted, back>>

\* shutdown pushes whatever the state is, and notifies under the lock.
Shutdown(c) ==
  /\ CanCall(c)
  /\ LastTask \notin Known
  /\ taskList' = Append(taskList, LastTask)
  /\ pc' = IF pc = "waiting" THEN "woken" ELSE pc
  /\ UNCHANGED <<threadState, current, call, expired, ran, deleted, back>>

\* The expiration of a timed task passes.
Expire(t) ==
  /\ t \in Timed \ expired
  /\ expired' = expired \cup {t}
  /\ UNCHANGED <<mainVars, threadState, taskList, call, deleted, back>>
-----------------------------------------------------------------------------
(* threadMain.                                                             *)

TestState ==
  /\ pc = "test"
  /\ pc' = IF threadState = "TERMINATED" THEN "ended" ELSE "lock"
  /\ UNCHANGED <<threadState, taskList, current, call, expired, ran, deleted, back>>

\* Lock; with an empty list, wait for a signal.
Wait ==
  /\ pc = "lock" /\ taskList = <<>>
  /\ pc' = "waiting"
  /\ UNCHANGED <<threadState, taskList, current, call, expired, ran, deleted, back>>

SpuriousWakeup ==
  /\ pc = "waiting"
  /\ pc' = "woken"
  /\ UNCHANGED <<threadState, taskList, current, call, expired, ran, deleted, back>>

\* Lock with a task in the list, or locked again after a signal: take the
\* first task, and unlock.
Take ==
  /\ pc \in {"lock", "woken"} /\ taskList # <<>>
  /\ current' = Head(taskList)
  /\ taskList' = Tail(taskList)
  /\ pc' = "taken"
  /\ UNCHANGED <<threadState, call, expired, ran, deleted, back>>

NothingToTake ==
  /\ pc = "woken" /\ taskList = <<>>
  /\ pc' = "test"
  /\ UNCHANGED <<threadState, taskList, current, call, expired, ran, deleted, back>>

HasExpired(t) == t \in expired

SkipExpired ==
  /\ pc = "taken" /\ HasExpired(current)
  /\ deleted' = deleted \cup {current}
  /\ current' = NoTask
  /\ pc' = "test"
  /\ UNCHANGED <<threadState, taskList, call, expired, ran, back>>

Execute ==
  /\ pc = "taken" /\ ~HasExpired(current)
  /\ pc' = "running"
  /\ ran' = Append(ran, current)
  /\ UNCHANGED <<threadState, taskList, current, call, expired, deleted, back>>

\* The task returns.  The one shutdown created has set the thread state.
LastState == "TERMINATED"

\* delete task: the thread's pointer is dead afterwards.
AfterRun == NoTask

Return ==
  /\ pc = "running" /\ call[Self] = "idle"
  /\ threadState' = IF current = LastTask THEN LastState ELSE threadState
  /\ current' = AfterRun
  /\ pc' = "test"
  /\ UNCHANGED <<taskList, call, expired, ran, deleted, back>>
-----------------------------------------------------------------------------
\* The type invariant; the task pointer is alive exactly between the pop and
\* the delete (tasks.cpp:53-64).
TypeOK ==
  /\ threadState \in {"RUNNING", "CLOSING", "TERMINATED"}
  /\ taskList \in Seq(Tasks \cup {LastTask})
  /\ pc \in {"test", "lock", "waiting", "woken", "taken", "running", "ended"}
  /\ current \in Tasks \cup {LastTask, NoTask}
  /\ (current = NoTask) <=> (pc \notin {"taken", "running"})
  /\ call \in [Callers -> {"idle", "notify"}]
  /\ expired \subseteq Timed
  /\ ran \in Seq(Tasks \cup {LastTask})
  /\ deleted \subseteq Tasks
  /\ back \in Seq(Tasks)

Backs == {back[i] : i \in DOMAIN back}
PushedBefore(t, u) == \E k, l \in DOMAIN back : k < l /\ back[k] = t /\ back[l] = u

\* What one thread pushed before another at the back (two packets of a
\* client, say) runs in that order, however timer events cut in front and
\* expired tasks drop out.
BackTasksInOrder ==
  LET s == ran \o taskList
  IN \A i, j \in DOMAIN s :
       i < j /\ {s[i], s[j]} \subseteq Backs => PushedBefore(s[i], s[j])

\* Every accepted task leaves the list, unless the thread was told to end
\* with the task still behind LastTask.
TasksLeaveList ==
  \A t \in Tasks : (t \in Queued) ~> (t \notin Queued \/ threadState = "TERMINATED")
=============================================================================
