------------------------------ MODULE Scheduler ------------------------------
(***************************************************************************)
(* The timer thread of the server (src/src/scheduler.cpp, scheduler.h and  *)
(* thread_holder_base.h): a priority queue of SchedulerTasks ordered by    *)
(* due time, the set of ids of the events nobody has stopped, one mutex,   *)
(* one condition variable, and a thread that sleeps until the top of the   *)
(* queue is due and then hands it to the dispatcher.                       *)
(*                                                                         *)
(* Every section the code runs under eventLock is one action.  What the    *)
(* code does outside the lock is a step of its own: the test of the thread *)
(* state at the head of the loop, the notify_one that follows an unlock,   *)
(* the hand-over to the dispatcher, and the two halves of a timed wait.    *)
(***************************************************************************)
EXTENDS Integers, FiniteSets

CONSTANTS
  Tasks,      \* the SchedulerTask objects, each created and added once
  Callers,    \* the threads that call addEvent, stopEvent and shutdown
  Delays,     \* the delays, in clock ticks, given to createSchedulerTask
  MaxId,      \* the largest event id: 2^32 - 1 in the code
  MaxTime,    \* bound: the clock stops here, no event is due later
  Wraps,      \* bound: whether lastEventId may run past MaxId
  NoTask      \* no task is in the thread's hands

ASSUME SchedulerAssumption ==
  /\ Delays \subseteq Nat
  /\ MaxId \in Nat \ {0}
  /\ MaxTime \in Nat
  /\ Wraps \in BOOLEAN
  /\ NoTask \notin Tasks

VARIABLES
  threadState,  \* ThreadHolder::threadState
  eventList,    \* the tasks in the priority queue
  eventIds,     \* the ids of the events that are still to fire
  lastEventId,
  eventId,      \* SchedulerTask::eventId
  cycle,        \* Task::expiration, the time the task is due
  pc,           \* where threadMain is
  deadline,     \* the time the wait gives up, NoDeadline for a plain wait
  hand,         \* the task popped from the queue and not handed over yet
  call,         \* where each calling thread is
  now,          \* the system clock
  dispatched,   \* history: tasks given to Dispatcher::addTask
  deleted,      \* history: tasks deleted without being dispatched
  stopped       \* history: tasks whose stopEvent answered true

threadVars == <<pc, deadline, hand, dispatched>>
callVars == <<threadState, call, deleted, stopped>>
queueVars == <<eventList, eventIds, lastEventId, eventId, cycle>>
schedulerVars == <<threadVars, callVars, queueVars, now>>

NoDeadline == -1

InHand == {hand} \ {NoTask}
Fresh == Tasks \ (eventList \cup InHand \cup dispatched \cup deleted)
Live == {t \in eventList : eventId[t] \in eventIds}

\* TaskComparator: the top of the heap is a task due no later than any other.
IsTop(t) == t \in eventList /\ \A u \in eventList : cycle[t] <= cycle[u]

SchedulerInit ==
  /\ threadState = "RUNNING"
  /\ eventList = {} /\ eventIds = {} /\ lastEventId = 0
  /\ eventId = [t \in Tasks |-> 0]
  /\ cycle = [t \in Tasks |-> 0]
  /\ pc = "test" /\ deadline = NoDeadline /\ hand = NoTask
  /\ call = [c \in Callers |-> "idle"]
  /\ now = 0
  /\ dispatched = {} /\ deleted = {} /\ stopped = {}
-----------------------------------------------------------------------------
(* The callers.                                                            *)

\* ++lastEventId wraps to 0, which is not an id.
NextId == IF lastEventId = MaxId THEN 1 ELSE lastEventId + 1

\* do_signal: the new task is the top only if nothing in the queue is due
\* sooner or at the same time, since an equal task is not sifted past.
DoSignal_empty(due) == eventList = {}
DoSignal_never(due) == FALSE
DoSignal(due) == \A u \in eventList : due < cycle[u]

EraseId(t) == eventIds \ {eventId[t]}

AddEvent(c, t, d) ==
  /\ call[c] = "idle"
  /\ t \in Fresh
  /\ threadState = "RUNNING"
  /\ Wraps \/ lastEventId < MaxId
  /\ now + d <= MaxTime
  /\ lastEventId' = NextId
  /\ eventId' = [eventId EXCEPT ![t] = NextId]
  /\ cycle' = [cycle EXCEPT ![t] = now + d]
  /\ eventIds' = eventIds \cup {NextId}
  /\ eventList' = eventList \cup {t}
  /\ call' = IF DoSignal(now + d) THEN [call EXCEPT ![c] = "notify"] ELSE call
  /\ UNCHANGED <<threadVars, threadState, deleted, stopped, now>>

\* addEvent once the server is closing: the task is deleted.
RefuseEvent(c, t) ==
  /\ call[c] = "idle"
  /\ t \in Fresh
  /\ threadState # "RUNNING"
  /\ deleted' = deleted \cup {t}
  /\ UNCHANGED <<threadVars, queueVars, threadState, call, stopped, now>>

\* stopEvent with the id addEvent returned for t.  The task itself stays in
\* the queue; an answer of false changes nothing.
StopEvent(c, t) ==
  /\ call[c] = "idle"
  /\ eventId[t] # 0
  /\ eventId[t] \in eventIds
  /\ eventIds' = EraseId(t)
  /\ stopped' = stopped \cup {t}
  /\ UNCHANGED <<threadVars, eventList, lastEventId, eventId, cycle,
                 threadState, call, deleted, now>>

\* The notify_one that addEvent and shutdown issue after unlocking.
Notify(c) ==
  /\ call[c] = "notify"
  /\ call' = [call EXCEPT ![c] = "idle"]
  /\ pc' = IF pc = "waiting" THEN "woken" ELSE pc
  /\ UNCHANGED <<deadline, hand, dispatched, queueVars, threadState, deleted,
                 stopped, now>>

\* ThreadHolder::stop
Stop ==
  /\ threadState = "RUNNING"
  /\ threadState' = "CLOSING"
  /\ UNCHANGED <<threadVars, queueVars, call, deleted, stopped, now>>

\* shutdown: the state is stored before the lock is taken.
Shutdown(c) ==
  /\ call[c] = "idle"
  /\ threadState # "TERMINATED"
  /\ threadState' = "TERMINATED"
  /\ call' = [call EXCEPT ![c] = "clear"]
  /\ UNCHANGED <<threadVars, queueVars, deleted, stopped, now>>

\* shutdown: the section that empties the queue.
ClearEvents(c) ==
  /\ call[c] = "clear"
  /\ call' = [call EXCEPT ![c] = "notify"]
  /\ eventList' = {} /\ eventIds' = {}
  /\ deleted' = deleted \cup eventList
  /\ UNCHANGED <<threadVars, lastEventId, eventId, cycle, threadState, stopped, now>>
-----------------------------------------------------------------------------
(* threadMain.                                                             *)

TestState ==
  /\ pc = "test"
  /\ pc' = IF threadState = "TERMINATED" THEN "ended" ELSE "lock"
  /\ UNCHANGED <<deadline, hand, dispatched, callVars, queueVars, now>>

\* Lock, then wait for a signal, or for a signal or the due time of the top.
Wait ==
  /\ pc = "lock"
  /\ pc' = "waiting"
  /\ \/ eventList = {} /\ deadline' = NoDeadline
     \/ \E t \in eventList : IsTop(t) /\ deadline' = cycle[t]
  /\ UNCHANGED <<hand, dispatched, callVars, queueVars, now>>

Timeout ==
  /\ pc = "waiting"
  /\ deadline # NoDeadline /\ deadline <= now
  /\ pc' = "woken"
  /\ UNCHANGED <<deadline, hand, dispatched, callVars, queueVars, now>>

SpuriousWakeup ==
  /\ pc = "waiting"
  /\ pc' = "woken"
  /\ UNCHANGED <<deadline, hand, dispatched, callVars, queueVars, now>>

\* The cv_status a timed wait returns: timeout if its deadline has passed by
\* the time the mutex is held again, however the thread was woken.
ReportsTimeout_ignored == TRUE
ReportsTimeout == deadline # NoDeadline /\ deadline <= now

IsStopped_unchecked(t) == FALSE
IsStopped(t) == eventId[t] \notin eventIds

Popped(t) == eventList \ {t}

\* The mutex is locked again, the top is popped and was not stopped.
PopActive ==
  /\ pc = "woken" /\ ReportsTimeout
  /\ \E t \in eventList :
       /\ IsTop(t)
       /\ ~IsStopped(t)
       /\ eventIds' = EraseId(t)
       /\ eventList' = Popped(t)
       /\ hand' = t
  /\ pc' = "handover"
  /\ UNCHANGED <<deadline, dispatched, callVars, lastEventId, eventId, cycle, now>>

\* The top is popped and its id is gone: it was stopped, and is deleted.
PopStopped ==
  /\ pc = "woken" /\ ReportsTimeout
  /\ \E t \in eventList :
       /\ IsTop(t)
       /\ IsStopped(t)
       /\ eventList' = Popped(t)
       /\ deleted' = deleted \cup {t}
  /\ pc' = "test"
  /\ UNCHANGED <<deadline, hand, dispatched, threadState, call, stopped,
                 eventIds, lastEventId, eventId, cycle, now>>

\* Woken without a timeout, or with nothing left in the queue.
Resume ==
  /\ pc = "woken" /\ (~ReportsTimeout \/ eventList = {})
  /\ pc' = "test"
  /\ UNCHANGED <<deadline, hand, dispatched, callVars, queueVars, now>>

\* g_dispatcher.addTask(task, true), outside the lock.
HandOver ==
  /\ pc = "handover"
  /\ dispatched' = dispatched \cup {hand}
  /\ hand' = NoTask
  /\ pc' = "test"
  /\ UNCHANGED <<deadline, callVars, queueVars, now>>

Tick ==
  /\ now < MaxTime
  /\ now' = now + 1
  /\ UNCHANGED <<threadVars, callVars, queueVars>>
-----------------------------------------------------------------------------
Thread == \/ TestState \/ Wait \/ Timeout \/ PopActive \/ PopStopped \/ Resume
          \/ HandOver

SchedulerNext ==
  \/ \E c \in Callers, t \in Tasks, d \in Delays : AddEvent(c, t, d)
  \/ \E c \in Callers, t \in Tasks : RefuseEvent(c, t) \/ StopEvent(c, t)
  \/ \E c \in Callers : Notify(c) \/ Shutdown(c) \/ ClearEvents(c)
  \/ Stop
  \/ Thread
  \/ SpuriousWakeup
  \/ Tick

SchedulerSpec == SchedulerInit /\ [][SchedulerNext]_schedulerVars

\* A started thread keeps running, a call in progress completes, and the
\* clock advances; nobody is obliged to add, stop or shut down.
SchedulerFairness ==
  /\ WF_schedulerVars(Thread)
  /\ WF_schedulerVars(Tick)
  /\ \A c \in Callers : WF_schedulerVars(Notify(c)) /\ WF_schedulerVars(ClearEvents(c))

SchedulerFairSpec == SchedulerSpec /\ SchedulerFairness
-----------------------------------------------------------------------------
SchedulerTypeOK ==
  /\ threadState \in {"RUNNING", "CLOSING", "TERMINATED"}
  /\ eventList \subseteq Tasks
  /\ eventIds \subseteq 1..MaxId
  /\ lastEventId \in 0..MaxId
  /\ eventId \in [Tasks -> 0..MaxId]
  /\ cycle \in [Tasks -> Nat]
  /\ pc \in {"test", "lock", "waiting", "woken", "handover", "ended"}
  /\ deadline \in Nat \cup {NoDeadline}
  /\ hand \in Tasks \cup {NoTask}
  /\ call \in [Callers -> {"idle", "notify", "clear"}]
  /\ now \in Nat
  /\ dispatched \subseteq Tasks /\ deleted \subseteq Tasks /\ stopped \subseteq Tasks

\* No event is handed to the dispatcher before its due time, although the
\* thread pops the top of a queue other threads changed while it slept on an
\* older deadline (threadMain, scheduler.cpp:34-41).
NeverEarly == \A t \in dispatched \cup InHand : cycle[t] <= now

\* The thread never sleeps past the earliest due time in the queue unless a
\* caller still owes it a notify_one (the do_signal test of addEvent,
\* scheduler.cpp:88-96).
NoLostWakeup ==
  (/\ pc = "waiting"
   /\ \E t \in eventList : deadline = NoDeadline \/ cycle[t] < deadline)
    => \E c \in Callers : call[c] = "notify"

\* An event whose stopEvent answered true is never dispatched, however the
\* call interleaves with the timer thread (scheduler.cpp:43-51, 101-117).
\* Holds while event ids have not wrapped around.
StoppedNeverFires == stopped \cap (dispatched \cup InHand) = {}

\* The id set never outlives the queue: an active id has its task in the
\* queue, so stopEvent answers true only for an event that would have fired.
ActiveIdsQueued == eventIds \subseteq {eventId[t] : t \in eventList}

\* A task is in one place only: it is never both queued and handed over, nor
\* dispatched and deleted (a double delete).
OneOwner ==
  /\ eventList \cap (InHand \cup dispatched \cup deleted) = {}
  /\ InHand \cap (dispatched \cup deleted) = {}
  /\ dispatched \cap deleted = {}

\* No event stays in the queue forever: it fires, or is stopped and dropped,
\* or shutdown discards it.
EventsLeaveQueue == \A t \in Tasks : (t \in eventList) ~> (t \notin eventList)

\* signals.cpp:114 joins the threads to "hold the thread until other threads
\* end": once shutdown has begun, threadMain ends.
ThreadEnds == (threadState = "TERMINATED") ~> (pc = "ended")
-----------------------------------------------------------------------------
\* The promise of module TimerService.
Timer == INSTANCE TimerService WITH
  armed <- Live,
  fired <- dispatched \cup InHand,
  cancelled <- stopped,
  dropped <- deleted \ stopped,
  due <- cycle

TimerSpec == Timer!Spec
=============================================================================
