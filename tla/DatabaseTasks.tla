---------------------------- MODULE DatabaseTasks ----------------------------
(***************************************************************************)
(* The database thread (src/src/databasetasks.cpp): a FIFO of queries      *)
(* behind one mutex, filled by the game thread.  The database thread pops  *)
(* a query and runs it outside the lock.  flush, called by the game thread *)
(* when it saves the game and inside shutdown, pops from the same FIFO and *)
(* runs queries itself, so two queries can be in flight at once.  The      *)
(* Database holds databaseLock for the length of a query: one query is a   *)
(* step.  Module Tasks runs this thread beside the game thread.            *)
(***************************************************************************)
EXTENDS Integers, Sequences, FiniteSets

CONSTANTS
  Queries,       \* the DatabaseTask objects, each added once
  None

VARIABLES
  threadState,
  tasks,
  pc,         \* where threadMain is
  running,    \* the query the thread has popped
  call,       \* what the game thread is doing here
  flushing,   \* the query flush has popped
  accepted,   \* history: queries addTask took, in order
  done,       \* history: queries executed, in order
  refused     \* history: queries addTask dropped

vars == <<threadState, tasks, pc, running, call, flushing, accepted, done,
          refused>>

Elems(s) == {s[i] : i \in DOMAIN s}
InFlight == {running, flushing} \ {None}

Init ==
  /\ threadState = "RUNNING"
  /\ tasks = <<>> /\ pc = "test" /\ running = None
  /\ call = "idle" /\ flushing = None
  /\ accepted = <<>> /\ done = <<>> /\ refused = {}
-----------------------------------------------------------------------------
DoSignal_never == FALSE
DoSignal == tasks = <<>>

Push(q) == Append(tasks, q)

AddTask(q) ==
  /\ call = "idle"
  /\ q \notin Elems(accepted) \cup refused
  /\ threadState = "RUNNING"
  /\ tasks' = Push(q)
  /\ accepted' = Append(accepted, q)
  /\ call' = IF DoSignal THEN "notify" ELSE call
  /\ UNCHANGED <<threadState, pc, running, flushing, done, refused>>

\* addTask after stop: the query is dropped without a word.
RefuseTask(q) ==
  /\ call = "idle"
  /\ q \notin Elems(accepted) \cup refused
  /\ threadState # "RUNNING"
  /\ refused' = refused \cup {q}
  /\ UNCHANGED <<threadState, tasks, pc, running, call, flushing, accepted,
                 done>>

Notify ==
  /\ call = "notify"
  /\ call' = "idle"
  /\ pc' = IF pc = "waiting" THEN "woken" ELSE pc
  /\ UNCHANGED <<threadState, tasks, running, flushing, accepted, done,
                 refused>>

Stop ==
  /\ call = "idle"
  /\ threadState = "RUNNING"
  /\ threadState' = "CLOSING"
  /\ UNCHANGED <<tasks, pc, running, call, flushing, accepted, done, refused>>

\* saveGameState calls flush, never after Game::shutdown; shutdown sets the
\* state under the lock first.
FlushBegin ==
  /\ call = "idle"
  /\ threadState # "TERMINATED"
  /\ call' = "flush"
  /\ UNCHANGED <<threadState, tasks, pc, running, flushing, accepted, done,
                 refused>>

Shutdown ==
  /\ call = "idle"
  /\ threadState # "TERMINATED"
  /\ threadState' = "TERMINATED"
  /\ call' = "shutdown"
  /\ UNCHANGED <<tasks, pc, running, flushing, accepted, done, refused>>

FlushPop ==
  /\ call \in {"flush", "shutdown"} /\ flushing = None
  /\ tasks # <<>>
  /\ flushing' = Head(tasks)
  /\ tasks' = Tail(tasks)
  /\ UNCHANGED <<threadState, pc, running, call, accepted, done, refused>>

FlushRun ==
  /\ flushing # None
  /\ done' = Append(done, flushing)
  /\ flushing' = None
  /\ UNCHANGED <<threadState, tasks, pc, running, call, accepted, refused>>

\* flush returns when it finds the list empty; shutdown then notifies.
FlushDone == tasks = <<>>
FlushEnd ==
  /\ call \in {"flush", "shutdown"} /\ flushing = None
  /\ FlushDone
  /\ call' = IF call = "flush" THEN "idle" ELSE "notify"
  /\ UNCHANGED <<threadState, tasks, pc, running, flushing, accepted, done,
                 refused>>
-----------------------------------------------------------------------------
(* threadMain.                                                             *)

TestState ==
  /\ pc = "test"
  /\ pc' = IF threadState = "TERMINATED" THEN "ended" ELSE "lock"
  /\ UNCHANGED <<threadState, tasks, running, call, flushing, accepted, done,
                 refused>>

Wait ==
  /\ pc = "lock" /\ tasks = <<>>
  /\ pc' = "waiting"
  /\ UNCHANGED <<threadState, tasks, running, call, flushing, accepted, done,
                 refused>>

SpuriousWakeup ==
  /\ pc = "waiting"
  /\ pc' = "woken"
  /\ UNCHANGED <<threadState, tasks, running, call, flushing, accepted, done,
                 refused>>

Rest_kept == tasks
Rest == Tail(tasks)
Take ==
  /\ pc \in {"lock", "woken"} /\ tasks # <<>>
  /\ running' = Head(tasks)
  /\ tasks' = Rest
  /\ pc' = "run"
  /\ UNCHANGED <<threadState, call, flushing, accepted, done, refused>>

NothingToTake ==
  /\ pc = "woken" /\ tasks = <<>>
  /\ pc' = "test"
  /\ UNCHANGED <<threadState, tasks, running, call, flushing, accepted, done,
                 refused>>

Running_kept == running
Running == None

RunTask ==
  /\ pc = "run"
  /\ done' = Append(done, running)
  /\ running' = Running
  /\ pc' = "test"
  /\ UNCHANGED <<threadState, tasks, call, flushing, accepted, refused>>
-----------------------------------------------------------------------------

\* Every accepted query is in exactly one place: in the list, in flight, or
\* executed, and none is executed twice although two threads pop the list.
EachQueryOnce ==
  /\ Elems(accepted) = Elems(tasks) \cup InFlight \cup Elems(done)
  /\ Len(accepted) = Len(tasks) + Cardinality(InFlight) + Len(done)
  /\ running = flushing => running = None
=============================================================================
