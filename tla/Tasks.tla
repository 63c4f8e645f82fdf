------------------------------- MODULE Tasks -------------------------------
(***************************************************************************)
(* The game thread and the database thread together.  Only tasks that the  *)
(* dispatcher runs add queries, flush them or shut the threads down; a     *)
(* query that was added with a callback gives the dispatcher a task when   *)
(* it has run, from whichever of the two threads ran it.  The end of the   *)
(* server is Game::setGameState(GAME_STATE_SHUTDOWN), which queues         *)
(* Game::shutdown and stops both threads, and then Game::shutdown itself.  *)
(***************************************************************************)
EXTENDS Dispatcher, FiniteSets

CONSTANTS
  Queries,       \* the DatabaseTask objects
  WithCallback,  \* those with a callback: the same name stands for its task
  DbThread,      \* the database thread as a caller of the dispatcher
  Bye            \* the task that runs Game::shutdown

ASSUME TasksAssumption ==
  /\ WithCallback \subseteq Queries \cap Tasks
  /\ WithCallback \cap Timed = {}
  /\ Bye \in Tasks \ (WithCallback \cup Timed)
  /\ DbThread \in Callers \ {Self}
  /\ NoTask \notin Queries

VARIABLES dbState, dbTasks, dbPc, dbRunning, dbCall, flushing, accepted, done,
          refused

Db == INSTANCE DatabaseTasks WITH
        None <- NoTask, threadState <- dbState,
        tasks <- dbTasks, pc <- dbPc, running <- dbRunning, call <- dbCall

dbVars == <<dbState, dbTasks, dbPc, dbRunning, dbCall, flushing, accepted, done,
            refused>>
allVars == <<vars, dbVars>>

TasksInit == Init /\ Db!Init
-----------------------------------------------------------------------------
\* A task is running on the game thread and is not inside a call of either
\* thread's interface.
InTask == CanCall(Self) /\ dbCall = "idle"

\* setGameState has queued Game::shutdown but not stopped both threads yet.
Closing == Bye \in Known /\ threadState = "RUNNING"

\* Tasks that come from outside: packets, timer events, signals.
Ordinary == Tasks \ (WithCallback \cup {Bye})

Arrives(c, t, front) ==
  /\ c # DbThread
  /\ c = Self => InTask /\ ~Closing
  /\ t \in Ordinary
  /\ AddTask(c, t, front) \/ RefuseTask(c, t)
  /\ UNCHANGED dbVars

QueryAdded(q) == InTask /\ ~Closing /\ (Db!AddTask(q) \/ Db!RefuseTask(q)) /\ UNCHANGED vars

\* Db!RunTask and Db!FlushRun end with runTask giving the callback away.
CallbackPosted(c, q) ==
  IF q \in WithCallback THEN AddTask(c, q, FALSE) \/ RefuseTask(c, q)
                        ELSE UNCHANGED vars

DbRun == /\ call[DbThread] = "idle"
         /\ Db!RunTask
         /\ CallbackPosted(DbThread, dbRunning)
DbFlushRun == CanCall(Self) /\ Db!FlushRun /\ CallbackPosted(Self, flushing)

DbThreadStep ==
  \/ call[DbThread] = "idle" /\ UNCHANGED vars
       /\ (Db!TestState \/ Db!Wait \/ Db!Take \/ Db!NothingToTake)
  \/ DbRun
DbFlushStep ==
  \/ call[Self] = "idle" /\ (Db!FlushPop \/ Db!FlushEnd) /\ UNCHANGED vars
  \/ DbFlushRun
DbNotify == Db!Notify /\ UNCHANGED vars
DbSpurious == Db!SpuriousWakeup /\ UNCHANGED vars
-----------------------------------------------------------------------------
(* The end of the server.                                                  *)

\* Any task may save the game, one queued before the goodbye and run after it
\* included.
Save == InTask /\ ~Closing /\ current # Bye /\ Db!FlushBegin /\ UNCHANGED vars
GoodbyeQueued == InTask /\ AddTask(Self, Bye, FALSE) /\ UNCHANGED dbVars
StopDb == InTask /\ Closing /\ Db!Stop /\ UNCHANGED vars
StopSelf == InTask /\ Closing /\ dbState = "CLOSING" /\ Stop /\ UNCHANGED dbVars

\* Game::shutdown: the database thread first, then the dispatcher.
ShutdownDb == InTask /\ current = Bye /\ Db!Shutdown /\ UNCHANGED vars
ShutdownSelf ==
  /\ InTask /\ current = Bye
  /\ dbState = "TERMINATED"
  /\ Shutdown(Self)
  /\ UNCHANGED dbVars

TaskReturns ==
  /\ dbCall = "idle"
  /\ ~Closing
  /\ current = Bye => LastTask \in Known
  /\ Return
  /\ UNCHANGED dbVars

TasksThread ==
  \/ UNCHANGED dbVars
       /\ (TestState \/ Wait \/ Take \/ NothingToTake \/ SkipExpired \/ Execute)
  \/ TaskReturns
  \/ StopDb \/ StopSelf \/ ShutdownDb \/ ShutdownSelf

TasksNext ==
  \/ \E c \in Callers, t \in Tasks, front \in BOOLEAN : Arrives(c, t, front)
  \/ \E q \in Queries : QueryAdded(q)
  \/ Save \/ GoodbyeQueued
  \/ \E c \in Callers : Notify(c) /\ UNCHANGED dbVars
  \/ \E t \in Timed : Expire(t) /\ UNCHANGED dbVars
  \/ SpuriousWakeup /\ UNCHANGED dbVars
  \/ DbThreadStep \/ DbFlushStep \/ DbNotify \/ DbSpurious
  \/ TasksThread

\* Both threads run, flush goes on, and every call in progress completes.  A task
\* makes finitely many calls, so one that can return again and again does.
TasksFairness ==
  /\ SF_allVars(TasksThread)
  /\ WF_allVars(DbThreadStep) /\ WF_allVars(DbFlushStep) /\ WF_allVars(DbNotify)
  /\ \A c \in Callers : WF_allVars(Notify(c) /\ UNCHANGED dbVars)

TasksSpec == TasksInit /\ [][TasksNext]_allVars /\ TasksFairness
-----------------------------------------------------------------------------

\* Every accepted query is in exactly one place (in the list, in flight or
\* executed) and none is executed twice although two threads pop the list.
EachQueryOnce == Db!EachQueryOnce

\* Every query addTask accepted is executed, also across a shutdown, and its
\* callback is run by the game thread, or was refused because the dispatcher had
\* been stopped, or lies behind the last task (databasetasks.cpp:81-83,
\* tasks.cpp:77-87, 97-108).
QueriesRun ==
  \A q \in Queries :
    (q \in Db!Elems(accepted))
      ~> /\ q \in Db!Elems(done)
         /\ q \in WithCallback => \/ q \in Executed \cup deleted
                                  \/ threadState = "TERMINATED"
=============================================================================
