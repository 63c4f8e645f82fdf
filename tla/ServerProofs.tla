---------------------------- MODULE ServerProofs ----------------------------
(***************************************************************************)
(* Theorems about the threads of the server.  About Scheduler, for any     *)
(* number of events, callers and delays (those about event ids assume that *)
(* lastEventId has not wrapped); about GameLifecycle, for any number of    *)
(* players, any states the scripts may set and any length of the           *)
(* dispatcher's queue; about Network, for any capacity of the buffers and  *)
(* any number of reads, packets and protocols: what the connection was     *)
(* given is written in that order, and a graceful close writes all of it   *)
(* first.                                                                  *)
(***************************************************************************)
EXTENDS Scheduler, GameLifecycle, Network, DataInduction
-----------------------------------------------------------------------------
(* The timer thread and its events.                                        *)

\* A deadline the thread sleeps on is never earlier than the top of the queue,
\* unless shutdown has emptied the queue for good.
DeadlineCovers ==
  (pc \in {"waiting", "woken"} /\ deadline # NoDeadline)
    => \/ threadState = "TERMINATED" /\ eventList = {}
       \/ \E t \in eventList : cycle[t] <= deadline

\* The queue is emptied, and the thread stops, only after the state is set.
ClearsTerminated == \A c \in Callers : call[c] = "clear" => threadState = "TERMINATED"

HandMatchesPc == (hand # NoTask) <=> (pc = "handover")

\* Ids in use were issued, once each, and to tasks that were added.
IdsIssued ==
  /\ eventIds \subseteq 1..lastEventId
  /\ \A t \in Tasks : eventId[t] <= lastEventId
  /\ \A t \in Fresh : eventId[t] = 0
  /\ \A t \in eventList : eventId[t] # 0
  /\ \A t, u \in Tasks : eventId[t] = eventId[u] /\ eventId[t] # 0 => t = u

\* A queued task has lost its id exactly when somebody stopped it.
StoppedMatches ==
  /\ stopped \subseteq eventList \cup deleted
  /\ \A t \in eventList : t \in stopped <=> eventId[t] \notin eventIds

TimerTyped == SchedulerTypeOK /\ HandMatchesPc

TimeInv == OneOwner /\ ClearsTerminated /\ DeadlineCovers /\ NeverEarly /\ NoLostWakeup

IdInv == IdsIssued /\ ActiveIdsQueued /\ StoppedMatches /\ StoppedNeverFires
-----------------------------------------------------------------------------
\* Every step keeps the types.
LEMMA TimerTypedStep == TimerTyped /\ [SchedulerNext]_schedulerVars => TimerTyped'
<1> SUFFICES ASSUME TimerTyped, [SchedulerNext]_schedulerVars PROVE TimerTyped'
  OBVIOUS
<1> USE SchedulerAssumption
    DEF TimerTyped, SchedulerTypeOK, HandMatchesPc, NoDeadline, threadVars, callVars, queueVars
<1>1. ASSUME NEW c \in Callers, NEW t \in Tasks, NEW d \in Delays, AddEvent(c, t, d)
      PROVE TimerTyped'
  <2>1. NextId \in 1..MaxId
    BY <1>1 DEF NextId
  <2>2. now + d \in Nat
    BY <1>1
  <2> QED
    BY <1>1, <2>1, <2>2 DEF AddEvent
<1>2. ASSUME NEW c \in Callers, NEW t \in Tasks, RefuseEvent(c, t) PROVE TimerTyped'
  BY <1>2 DEF RefuseEvent
<1>3. ASSUME NEW c \in Callers, NEW t \in Tasks, StopEvent(c, t) PROVE TimerTyped'
  BY <1>3 DEF StopEvent, EraseId
<1>4. ASSUME NEW c \in Callers, Notify(c) PROVE TimerTyped'
  BY <1>4 DEF Notify
<1>5. ASSUME NEW c \in Callers, Shutdown(c) PROVE TimerTyped'
  BY <1>5 DEF Shutdown
<1>6. ASSUME NEW c \in Callers, ClearEvents(c) PROVE TimerTyped'
  BY <1>6 DEF ClearEvents
<1>7. CASE Stop
  BY <1>7 DEF Stop
<1>8. CASE SpuriousWakeup
  BY <1>8 DEF SpuriousWakeup
<1>9. CASE Tick
  BY <1>9 DEF Tick
<1>10. CASE TestState
  BY <1>10 DEF TestState
<1>11. CASE Wait
  BY <1>11 DEF Wait, IsTop
<1>12. CASE Timeout \/ Resume
  BY <1>12 DEF Timeout, Resume
<1>13. CASE PopActive
  BY <1>13 DEF PopActive, Popped, EraseId, IsTop
<1>14. CASE PopStopped
  BY <1>14 DEF PopStopped, Popped, IsTop
<1>15. CASE HandOver
  BY <1>15 DEF HandOver
<1>16. CASE UNCHANGED schedulerVars
  BY <1>16 DEF schedulerVars
<1> QED
  BY <1>1, <1>2, <1>3, <1>4, <1>5, <1>6, <1>7, <1>8, <1>9, <1>10, <1>11, <1>12,
     <1>13, <1>14, <1>15, <1>16
  DEF SchedulerNext, Thread

\* Hence they hold always.
LEMMA SchedulerTypeInvariance == SchedulerSpec => []TimerTyped
<1>1. SchedulerInit => TimerTyped
  BY SchedulerAssumption DEF SchedulerInit, TimerTyped, SchedulerTypeOK, HandMatchesPc, NoDeadline
<1> QED
  BY <1>1, TimerTypedStep, PTL DEF SchedulerSpec

\* The scheduler's variables keep their types: in particular the timer thread
\* hands over a task exactly while it is in the hand-over step of threadMain.
THEOREM TypeCorrect == SchedulerSpec => []SchedulerTypeOK
<1>1. TimerTyped => SchedulerTypeOK
  BY DEF TimerTyped
<1> QED
  BY <1>1, SchedulerTypeInvariance, PTL
-----------------------------------------------------------------------------
\* Every step keeps what is true of the thread's state and the events' times.
LEMMA TimeStep == TimerTyped /\ TimerTyped' /\ TimeInv /\ [SchedulerNext]_schedulerVars => TimeInv'
<1> SUFFICES ASSUME TimerTyped, TimerTyped', TimeInv, [SchedulerNext]_schedulerVars PROVE TimeInv'
  OBVIOUS
<1> USE SchedulerAssumption
    DEF TimerTyped, SchedulerTypeOK, HandMatchesPc, TimeInv, OneOwner, ClearsTerminated,
        DeadlineCovers, NeverEarly, NoLostWakeup, InHand, NoDeadline,
        threadVars, callVars, queueVars
<1>1. ASSUME NEW c \in Callers, NEW t \in Tasks, NEW d \in Delays, AddEvent(c, t, d)
      PROVE TimeInv'
  <2> USE <1>1 DEF AddEvent, Fresh, DoSignal
  <2>1. (OneOwner /\ ClearsTerminated /\ NeverEarly)'
    OBVIOUS
  <2>2. DeadlineCovers'
    OBVIOUS
  <2>3. NoLostWakeup'
    OBVIOUS
  <2> QED
    BY <2>1, <2>2, <2>3
<1>2. ASSUME NEW c \in Callers, NEW t \in Tasks, RefuseEvent(c, t) PROVE TimeInv'
  BY <1>2 DEF RefuseEvent, Fresh
<1>3. ASSUME NEW c \in Callers, NEW t \in Tasks, StopEvent(c, t) PROVE TimeInv'
  BY <1>3 DEF StopEvent
<1>4. ASSUME NEW c \in Callers, Notify(c) PROVE TimeInv'
  BY <1>4 DEF Notify
<1>5. ASSUME NEW c \in Callers, Shutdown(c) PROVE TimeInv'
  BY <1>5 DEF Shutdown
<1>6. ASSUME NEW c \in Callers, ClearEvents(c) PROVE TimeInv'
  BY <1>6 DEF ClearEvents
<1>7. CASE Stop
  BY <1>7 DEF Stop
<1>8. CASE SpuriousWakeup
  BY <1>8 DEF SpuriousWakeup
<1>9. CASE Tick
  BY <1>9 DEF Tick
<1>10. CASE TestState
  BY <1>10 DEF TestState
<1>11. CASE Wait
  BY <1>11 DEF Wait, IsTop
<1>12. CASE Timeout \/ Resume
  BY <1>12 DEF Timeout, Resume
<1>13. CASE PopActive
  BY <1>13 DEF PopActive, Popped, IsTop, ReportsTimeout
<1>14. CASE PopStopped
  BY <1>14 DEF PopStopped, Popped, IsTop
<1>15. CASE HandOver
  BY <1>15 DEF HandOver
<1>16. CASE UNCHANGED schedulerVars
  BY <1>16 DEF schedulerVars
<1> QED
  BY <1>1, <1>2, <1>3, <1>4, <1>5, <1>6, <1>7, <1>8, <1>9, <1>10, <1>11, <1>12,
     <1>13, <1>14, <1>15, <1>16
  DEF SchedulerNext, Thread

\* Hence it holds always.
LEMMA TimeInvariance == SchedulerSpec => []TimeInv
<1>1. SchedulerInit => TimeInv
  BY SchedulerAssumption DEF SchedulerInit, TimeInv, OneOwner, ClearsTerminated, DeadlineCovers,
     NeverEarly, NoLostWakeup, InHand, NoDeadline
<1> QED
  BY <1>1, TimeStep, SchedulerTypeInvariance, PTL DEF SchedulerSpec

\* threadMain pops whatever is on top of the queue when its wait times out,
\* not the task it computed the deadline from; even so no event is handed to
\* the dispatcher before it is due.
THEOREM NeverFiresEarly == SchedulerSpec => []NeverEarly
<1>1. TimeInv => NeverEarly
  BY DEF TimeInv
<1> QED
  BY <1>1, TimeInvariance, PTL

\* addEvent notifies only when the new task becomes the top, and after it has
\* unlocked: that is enough for the thread never to oversleep.
THEOREM NoWakeupLost == SchedulerSpec => []NoLostWakeup
<1>1. TimeInv => NoLostWakeup
  BY DEF TimeInv
<1> QED
  BY <1>1, TimeInvariance, PTL

\* A SchedulerTask is owned by the queue, the thread, the dispatcher or nobody:
\* it is never dispatched and deleted, nor deleted while still queued.
THEOREM SingleOwner == SchedulerSpec => []OneOwner
<1>1. TimeInv => OneOwner
  BY DEF TimeInv
<1> QED
  BY <1>1, TimeInvariance, PTL
-----------------------------------------------------------------------------
\* Every step keeps the ids apart while lastEventId does not wrap.
LEMMA IdStep ==
  ASSUME ~Wraps
  PROVE  TimerTyped /\ TimerTyped' /\ TimeInv /\ IdInv /\ [SchedulerNext]_schedulerVars => IdInv'
<1> SUFFICES ASSUME TimerTyped, TimerTyped', TimeInv, IdInv, [SchedulerNext]_schedulerVars
             PROVE  IdInv'
  OBVIOUS
<1> USE SchedulerAssumption
    DEF TimerTyped, SchedulerTypeOK, HandMatchesPc, TimeInv, OneOwner, IdInv, IdsIssued, Fresh,
        ActiveIdsQueued, StoppedMatches, StoppedNeverFires, InHand, NoDeadline,
        threadVars, callVars, queueVars
<1>1. ASSUME NEW c \in Callers, NEW t \in Tasks, NEW d \in Delays, AddEvent(c, t, d)
      PROVE IdInv'
  <2> USE <1>1 DEF AddEvent
  <2>1. NextId = lastEventId + 1
    BY DEF NextId
  <2>2. eventId[t] = 0 /\ eventId' = [eventId EXCEPT ![t] = lastEventId + 1]
    BY <2>1
  <2>3. lastEventId' = lastEventId + 1 /\ eventIds' = eventIds \cup {lastEventId + 1}
    BY <2>1
  <2>4. IdsIssued'
    BY <2>2, <2>3
  <2>5. ActiveIdsQueued'
    BY <2>2, <2>3
  <2>6. StoppedMatches' /\ StoppedNeverFires'
    BY <2>2, <2>3
  <2> QED
    BY <2>4, <2>5, <2>6
<1>2. ASSUME NEW c \in Callers, NEW t \in Tasks, RefuseEvent(c, t) PROVE IdInv'
  BY <1>2 DEF RefuseEvent
<1>3. ASSUME NEW c \in Callers, NEW t \in Tasks, StopEvent(c, t) PROVE IdInv'
  BY <1>3 DEF StopEvent, EraseId
<1>4. ASSUME NEW c \in Callers, Notify(c) PROVE IdInv'
  BY <1>4 DEF Notify
<1>5. ASSUME NEW c \in Callers, Shutdown(c) PROVE IdInv'
  BY <1>5 DEF Shutdown
<1>6. ASSUME NEW c \in Callers, ClearEvents(c) PROVE IdInv'
  BY <1>6 DEF ClearEvents
<1>7. CASE Stop
  BY <1>7 DEF Stop
<1>8. CASE SpuriousWakeup
  BY <1>8 DEF SpuriousWakeup
<1>9. CASE Tick
  BY <1>9 DEF Tick
<1>10. CASE TestState
  BY <1>10 DEF TestState
<1>11. CASE Wait
  BY <1>11 DEF Wait
<1>12. CASE Timeout \/ Resume
  BY <1>12 DEF Timeout, Resume
<1>13. CASE PopActive
  BY <1>13 DEF PopActive, Popped, EraseId, IsStopped, IsTop
<1>14. CASE PopStopped
  BY <1>14 DEF PopStopped, Popped, IsStopped, IsTop
<1>15. CASE HandOver
  BY <1>15 DEF HandOver
<1>16. CASE UNCHANGED schedulerVars
  BY <1>16 DEF schedulerVars
<1> QED
  BY <1>1, <1>2, <1>3, <1>4, <1>5, <1>6, <1>7, <1>8, <1>9, <1>10, <1>11, <1>12,
     <1>13, <1>14, <1>15, <1>16
  DEF SchedulerNext, Thread

\* Hence they stay apart.
LEMMA IdInvariance == ASSUME ~Wraps PROVE SchedulerSpec => []IdInv
<1>1. SchedulerInit => IdInv
  BY SchedulerAssumption DEF SchedulerInit, IdInv, IdsIssued, Fresh, ActiveIdsQueued,
     StoppedMatches, StoppedNeverFires, InHand
<1>2. TimerTyped /\ TimerTyped' /\ TimeInv /\ IdInv /\ [SchedulerNext]_schedulerVars => IdInv'
  BY IdStep
<1> QED
  BY <1>1, <1>2, TimeInvariance, SchedulerTypeInvariance, PTL DEF SchedulerSpec

\* stopEvent answers true by erasing the id under the lock; an event stopped
\* that way is never handed to the dispatcher, whatever the timer thread is
\* doing, as long as no id has been issued twice.
THEOREM StoppedStaysStopped == ASSUME ~Wraps PROVE SchedulerSpec => []StoppedNeverFires
<1>1. IdInv => StoppedNeverFires
  BY DEF IdInv
<1> QED
  BY <1>1, IdInvariance, PTL

\* An id nobody has stopped belongs to a task in the queue.
THEOREM ActiveIdsAreQueued == ASSUME ~Wraps PROVE SchedulerSpec => []ActiveIdsQueued
<1>1. IdInv => ActiveIdsQueued
  BY DEF IdInv
<1> QED
  BY <1>1, IdInvariance, PTL
-----------------------------------------------------------------------------
\* Every step of the scheduler is one of the abstract timer service, or none.
LEMMA TimerStep ==
  TimerTyped /\ TimeInv /\ IdInv /\ IdInv' /\ [SchedulerNext]_schedulerVars => [Timer!Next]_(Timer!vars)
<1> SUFFICES ASSUME TimerTyped, TimeInv, IdInv, IdInv', [SchedulerNext]_schedulerVars
             PROVE  Timer!Next \/ UNCHANGED Timer!vars
  OBVIOUS
<1> DEFINE refused == deleted \ stopped
<1> USE SchedulerAssumption
    DEF TimerTyped, SchedulerTypeOK, HandMatchesPc, TimeInv, OneOwner, IdInv, IdsIssued, Fresh,
        StoppedMatches, StoppedNeverFires, InHand, Live, Timer!vars,
        threadVars, callVars, queueVars
<1>1. ASSUME NEW c \in Callers, NEW t \in Tasks, NEW d \in Delays, AddEvent(c, t, d)
      PROVE Timer!Arm(t, d)
  <2> USE <1>1 DEF AddEvent, Timer!Arm, Timer!Used
  <2>1. t \notin Live \cup (dispatched \cup InHand) \cup stopped \cup refused
    OBVIOUS
  <2>2. Live' = Live \cup {t}
    BY DEF NextId
  <2> QED
    BY <2>1, <2>2
<1>2. ASSUME NEW c \in Callers, NEW t \in Tasks, RefuseEvent(c, t) PROVE Timer!Refuse(t)
  BY <1>2 DEF RefuseEvent, Timer!Refuse, Timer!Used
<1>3. ASSUME NEW c \in Callers, NEW t \in Tasks, StopEvent(c, t) PROVE Timer!Cancel(t)
  <2> USE <1>3 DEF StopEvent, EraseId, Timer!Cancel
  <2>1. t \in Live /\ t \notin deleted
    BY DEF ActiveIdsQueued
  <2>2. Live' = Live \ {t}
    OBVIOUS
  <2>3. (deleted \ stopped)' = deleted \ stopped
    BY <2>1
  <2> QED
    BY <2>1, <2>2, <2>3
<1>4. ASSUME NEW c \in Callers, Notify(c) \/ Shutdown(c) PROVE UNCHANGED Timer!vars
  BY <1>4 DEF Notify, Shutdown
<1>5. ASSUME NEW c \in Callers, ClearEvents(c) PROVE Timer!Discard
  BY <1>5 DEF ClearEvents, Timer!Discard
<1>6. CASE Stop
  BY <1>6 DEF Stop
<1>7. CASE SpuriousWakeup
  BY <1>7 DEF SpuriousWakeup
<1>8. CASE Tick
  BY <1>8 DEF Tick, Timer!Next, Timer!Tick
<1>9. CASE TestState
  BY <1>9 DEF TestState
<1>10. CASE Wait
  BY <1>10 DEF Wait
<1>11. CASE Timeout \/ Resume
  BY <1>11 DEF Timeout, Resume
<1>12. CASE PopActive
  <2>1. PICK t \in eventList : /\ IsTop(t) /\ ~IsStopped(t)
                               /\ eventIds' = EraseId(t)
                               /\ eventList' = Popped(t)
                               /\ hand' = t
    BY <1>12 DEF PopActive, IsTop, IsStopped, EraseId, Popped
  <2> USE <1>12, <2>1 DEF PopActive, Popped, EraseId, IsStopped
  <2>2. t \in Live /\ cycle[t] <= now
    BY DEF ReportsTimeout, DeadlineCovers, IsTop, NoDeadline
  <2>3. Live' = Live \ {t}
    OBVIOUS
  <2>4. (dispatched \cup InHand)' = (dispatched \cup InHand) \cup {t}
    OBVIOUS
  <2>5. Timer!Fire(t)
    BY <2>2, <2>3, <2>4 DEF Timer!Fire
  <2> QED
    BY <2>5 DEF Timer!Next
<1>13. CASE PopStopped
  BY <1>13 DEF PopStopped, Popped, IsStopped
<1>14. CASE HandOver
  BY <1>14 DEF HandOver
<1>15. CASE UNCHANGED schedulerVars
  BY <1>15 DEF schedulerVars
<1> QED
  BY <1>1, <1>2, <1>3, <1>4, <1>5, <1>6, <1>7, <1>8, <1>9, <1>10, <1>11, <1>12,
     <1>13, <1>14, <1>15
  DEF SchedulerNext, Thread, Timer!Next

\* The threaded queue of scheduler.cpp keeps the promise of TimerService: its
\* callers may think of an event as armed until it fires, is cancelled, or is
\* dropped at shutdown.
THEOREM ImplementsTimerService == ASSUME ~Wraps PROVE SchedulerSpec => TimerSpec
<1>1. SchedulerInit => Timer!Init
  BY SchedulerAssumption DEF SchedulerInit, Timer!Init, Live, InHand
<1> QED
  BY <1>1, TimerStep, SchedulerTypeInvariance, TimeInvariance, IdInvariance, PTL
  DEF SchedulerSpec, TimerSpec, Timer!Spec
-----------------------------------------------------------------------------
(* The life cycle of the game.                                             *)

\* Only a change of state or a save has the later phases, and only the save
\* has players left to write.
PhaseOfTask ==
  /\ phase \notin {"idle", "start"} => running.kind \in {"set", "save"}
  /\ phase # "save" => toSave = {}

\* A closed game has kicked, or still kicks, those it keeps out.
KickedOrKicking ==
  gameState = "CLOSED" /\ phase # "kick" => online \subseteq CanAlwaysLogin

\* Whoever has left with a state that is not in the database had a failed save.
LeftUnsavedFailed == unsaved \subseteq online \cup failed

\* Behind the kicks of a shutdown only late logins are in the game.
OnlyLateOnline == gameState = "SHUTDOWN" /\ phase # "kick" => online \subseteq late

GameTyped == LifecycleTypeOK /\ PhaseOfTask
PlayersInv == ShutdownSaves /\ LeftUnsavedFailed /\ OnlyLateOnline /\ KickedOrKicking

\* The tasks the model names are tasks.
LEMMA TasksAreTasks ==
  /\ \A p \in Players : {Login(p), Play(p), Logout(p)} \subseteq GameTasks
  /\ \A s \in ScriptStates \cup {"SHUTDOWN"} : Set(s) \in GameTasks
  /\ {Save, GameShutdown, Terminate} \subseteq GameTasks
<1>1. ASSUME NEW p \in Players PROVE {Login(p), Play(p), Logout(p)} \subseteq GameTasks
  <2> DEFINE Of(q) == {Login(q), Play(q), Logout(q)}
  <2>1. Of(p) \in {Of(q) : q \in Players}
    BY <1>1
  <2>2. Of(p) \subseteq UNION {Of(q) : q \in Players}
    BY <2>1
  <2> QED
    BY <2>2 DEF GameTasks
<1>2. ASSUME NEW s \in ScriptStates \cup {"SHUTDOWN"} PROVE Set(s) \in GameTasks
  BY <1>2 DEF GameTasks
<1>3. {Save, GameShutdown, Terminate} \subseteq GameTasks
  BY DEF GameTasks
<1> QED
  BY <1>1, <1>2, <1>3
-----------------------------------------------------------------------------
\* addTask keeps the type of the queue.
LEMMA AddTaskType ==
  ASSUME queue \in Seq(GameTasks), NEW t \in GameTasks, AddTask(t)
  PROVE  queue' \in Seq(GameTasks)
BY DEF AddTask

\* So do a push at either end and the pop.
LEMMA QueueType ==
  ASSUME NEW q \in Seq(GameTasks)
  PROVE  /\ \A t \in GameTasks : <<t>> \o q \in Seq(GameTasks) /\ q \o <<t>> \in Seq(GameTasks)
         /\ q # <<>> => Head(q) \in GameTasks /\ Tail(q) \in Seq(GameTasks)
OBVIOUS

\* Every step keeps the types.
LEMMA GameTypedStep == GameTyped /\ [LifecycleNext]_lifecycleVars => GameTyped'
<1> SUFFICES ASSUME GameTyped, [LifecycleNext]_lifecycleVars PROVE GameTyped'
  OBVIOUS
<1> USE LifecycleAssumption
    DEF GameTyped, LifecycleTypeOK, PhaseOfTask, world, threads, others
<1>1. ASSUME NEW p \in Players, RecvFirst(p) PROVE GameTyped'
  BY <1>1 DEF RecvFirst
<1>2. ASSUME NEW p \in Players, Admit(p) PROVE GameTyped'
  <2>1. queue' \in Seq(GameTasks)
    BY <1>2, AddTaskType, TasksAreTasks DEF Admit
  <2> QED
    BY <1>2, <2>1 DEF Admit
<1>3. ASSUME NEW p \in Players, Packet(p) PROVE GameTyped'
  <2>1. queue' \in Seq(GameTasks)
    BY <1>3, AddTaskType, TasksAreTasks DEF Packet
  <2> QED
    BY <1>3, <2>1 DEF Packet
<1>4. CASE Signal
  <2>1. queue' \in Seq(GameTasks)
    BY <1>4, AddTaskType, TasksAreTasks DEF Signal
  <2> QED
    BY <1>4, <2>1 DEF Signal
<1>5. ASSUME NEW s \in ScriptStates, ScriptTimer(s) PROVE GameTyped'
  <2>1. queue' \in Seq(GameTasks)
    BY <1>5, TasksAreTasks, QueueType DEF ScriptTimer
  <2> QED
    BY <1>5, <2>1 DEF ScriptTimer
<1>6. CASE Die \/ Join \/ KeyPressed \/ \E t \in Others : ThreadLeaves(t)
  BY <1>6 DEF Die, Join, KeyPressed, ThreadLeaves
<1>7. CASE Take
  <2>1. running' \in GameTasks /\ queue' \in Seq(GameTasks)
    BY <1>7, QueueType DEF Take
  <2> QED
    BY <1>7, <2>1 DEF Take, NoGameTask
<1>8. ASSUME NEW p \in Players, RunLogin(p) PROVE GameTyped'
  BY <1>8 DEF RunLogin, Finish, Login, NoGameTask
<1>9. ASSUME NEW p \in Players, RunPlay(p) PROVE GameTyped'
  BY <1>9 DEF RunPlay, Finish, Play, NoGameTask
<1>10. ASSUME NEW p \in Players, RunLogout(p) PROVE GameTyped'
  BY <1>10 DEF RunLogout, Removed, Saved, Finish, Logout, NoGameTask
<1>11. ASSUME NEW p \in Players, Kick(p) PROVE GameTyped'
  BY <1>11 DEF Kick, Removed, Saved
<1>12. ASSUME NEW p \in Players, SavePlayer(p) PROVE GameTyped'
  BY <1>12 DEF SavePlayer, Saved
<1>13. ASSUME NEW s \in ScriptStates \cup {"SHUTDOWN"}, SetRefused(s) PROVE GameTyped'
  BY <1>13 DEF SetRefused, Finish, NoGameTask
<1>14. ASSUME NEW s \in ScriptStates \cup {"SHUTDOWN"}, SetState(s) PROVE GameTyped'
  <2>3. running.kind = "set" /\ toSave' = {}
    BY <1>14 DEF SetState, Set
  <2>1. PhaseOfTask'
    BY <1>14, <2>3 DEF SetState, Finish
  <2>2. LifecycleTypeOK'
    BY <1>14 DEF SetState, Finish
  <2> QED
    BY <2>1, <2>2
<1>15. CASE BeginSave
  <2>4. running = Save \/ phase = "kick"
    BY <1>15 DEF BeginSave
  <2>5. Save.kind = "save"
    BY DEF Save
  <2>3. running.kind \in {"set", "save"}
    BY <2>4, <2>5
  <2>1. PhaseOfTask'
    BY <1>15, <2>3 DEF BeginSave
  <2>2. LifecycleTypeOK'
    BY <1>15 DEF BeginSave
  <2> QED
    BY <2>1, <2>2
<1>16. CASE EndSave
  BY <1>16 DEF EndSave, AfterSave, Finish, Set, NoGameTask
<1>17. CASE PostShutdown
  <2>1. queue' \in Seq(GameTasks)
    BY <1>17, AddTaskType, TasksAreTasks DEF PostShutdown
  <2> QED
    BY <1>17, <2>1 DEF PostShutdown
<1>18. CASE StopThreads
  BY <1>18 DEF StopThreads, Finish, NoGameTask
<1>19. CASE RunShutdown
  <2>1. queue' \in Seq(GameTasks)
    BY <1>19, TasksAreTasks, QueueType DEF RunShutdown, LastTask
  <2> QED
    BY <1>19, <2>1 DEF RunShutdown, Finish, GameShutdown, NoGameTask
<1>20. CASE RunLast
  BY <1>20 DEF RunLast, Finish, Terminate, NoGameTask
<1>21. CASE UNCHANGED lifecycleVars
  <2>1. PhaseOfTask'
    BY <1>21 DEF lifecycleVars
  <2>2. LifecycleTypeOK'
    BY <1>21 DEF lifecycleVars
  <2> QED
    BY <2>1, <2>2
<1> QED
  BY <1>1, <1>2, <1>3, <1>4, <1>5, <1>6, <1>7, <1>8, <1>9, <1>10, <1>11, <1>12,
     <1>13, <1>14, <1>15, <1>16, <1>17, <1>18, <1>19, <1>20, <1>21
  DEF LifecycleNext, GameThread

\* Hence they hold always.
LEMMA LifecycleTypeInvariance == LifecycleSpec => []GameTyped
<1>1. LifecycleInit => GameTyped
  BY LifecycleAssumption DEF LifecycleInit, GameTyped, LifecycleTypeOK, PhaseOfTask, NoGameTask
<1> QED
  BY <1>1, GameTypedStep, PTL DEF LifecycleSpec

\* The game's variables keep their types, and MAINTAIN is seen by the other
\* threads only while a save runs.
THEOREM LifecycleTypeCorrect == LifecycleSpec => []LifecycleTypeOK
<1>1. GameTyped => LifecycleTypeOK
  BY DEF GameTyped
<1> QED
  BY <1>1, LifecycleTypeInvariance, PTL
-----------------------------------------------------------------------------
\* Every step keeps what is known of the players in the game and the saved ones.
LEMMA PlayersStep == GameTyped /\ PlayersInv /\ [LifecycleNext]_lifecycleVars => PlayersInv'
<1> SUFFICES ASSUME GameTyped, PlayersInv, [LifecycleNext]_lifecycleVars PROVE PlayersInv'
  OBVIOUS
<1> USE LifecycleAssumption
    DEF GameTyped, LifecycleTypeOK, PhaseOfTask, PlayersInv, ShutdownSaves, LeftUnsavedFailed,
        OnlyLateOnline, KickedOrKicking, world, threads, others
<1>1. ASSUME NEW p \in Players, RecvFirst(p) \/ Admit(p) \/ Packet(p) PROVE PlayersInv'
  BY <1>1 DEF RecvFirst, Admit, Packet
<1>2. CASE Signal \/ Die \/ Join \/ KeyPressed \/ \E t \in Others : ThreadLeaves(t)
  BY <1>2 DEF Signal, Die, Join, KeyPressed, ThreadLeaves
<1>3. ASSUME NEW s \in ScriptStates, ScriptTimer(s) PROVE PlayersInv'
  BY <1>3 DEF ScriptTimer
<1>4. CASE Take
  BY <1>4 DEF Take, NoGameTask
<1>5. ASSUME NEW p \in Players, RunLogin(p) PROVE PlayersInv'
  BY <1>5 DEF RunLogin, Closed, Finish, Login
<1>6. ASSUME NEW p \in Players, RunPlay(p) PROVE PlayersInv'
  BY <1>6 DEF RunPlay, Finish, Play
<1>7. ASSUME NEW p \in Players, RunLogout(p) PROVE PlayersInv'
  BY <1>7 DEF RunLogout, Removed, Saved, Finish, Logout
<1>8. ASSUME NEW p \in Players, Kick(p) PROVE PlayersInv'
  BY <1>8 DEF Kick, Removed, Saved
<1>9. ASSUME NEW p \in Players, SavePlayer(p) PROVE PlayersInv'
  BY <1>9 DEF SavePlayer, Saved
<1>10. ASSUME NEW s \in ScriptStates \cup {"SHUTDOWN"}, SetRefused(s) PROVE PlayersInv'
  BY <1>10 DEF SetRefused, Finish
<1>11. ASSUME NEW s \in ScriptStates \cup {"SHUTDOWN"}, SetState(s) PROVE PlayersInv'
  BY <1>11 DEF SetState, Finish
<1>12. CASE BeginSave
  BY <1>12 DEF BeginSave, ToKick
<1>13. CASE EndSave
  BY <1>13 DEF EndSave, AfterSave, Finish
<1>14. CASE PostShutdown \/ StopThreads
  BY <1>14 DEF PostShutdown, StopThreads, Finish
<1>15. CASE RunShutdown
  BY <1>15 DEF RunShutdown, Finish, GameShutdown
<1>17. CASE RunLast
  BY <1>17 DEF RunLast, Finish, Terminate
<1>16. CASE UNCHANGED lifecycleVars
  BY <1>16 DEF lifecycleVars
<1> QED
  BY <1>1, <1>2, <1>3, <1>4, <1>5, <1>6, <1>7, <1>8, <1>9, <1>10, <1>11, <1>12,
     <1>13, <1>14, <1>15, <1>16, <1>17
  DEF LifecycleNext, GameThread

\* Hence it holds always.
LEMMA PlayersInvariance == LifecycleSpec => []PlayersInv
<1>1. LifecycleInit => PlayersInv
  BY DEF LifecycleInit, PlayersInv, ShutdownSaves, LeftUnsavedFailed, OnlyLateOnline,
     KickedOrKicking
<1> QED
  BY <1>1, LifecycleTypeInvariance, PlayersStep, PTL DEF LifecycleSpec

\* From the last kick of a shutdown on, whoever is not in the database as in
\* memory had a failed save or was let in behind the kicks.
THEOREM ShutdownIsSaved == LifecycleSpec => []ShutdownSaves
<1>1. PlayersInv => ShutdownSaves
  BY DEF PlayersInv
<1> QED
  BY <1>1, PlayersInvariance, PTL

\* A login that was on its way when the game closed finds it closed.
THEOREM CloseKeepsOut == LifecycleSpec => []ClosedIsClosed
<1>1. PlayersInv => ClosedIsClosed
  BY DEF PlayersInv, KickedOrKicking, ClosedIsClosed
<1> QED
  BY <1>1, PlayersInvariance, PTL
-----------------------------------------------------------------------------
\* Nothing takes the game out of SHUTDOWN: not a script that sets another
\* state in the middle of it, and not the save, which restores only MAINTAIN.
THEOREM ShutdownIsForGood == LifecycleSpec => ShutdownIsFinal
<1>1. [LifecycleNext]_lifecycleVars => [gameState = "SHUTDOWN" => gameState' = "SHUTDOWN"]_lifecycleVars
  <2> SUFFICES ASSUME LifecycleNext, gameState = "SHUTDOWN" PROVE gameState' = "SHUTDOWN"
    OBVIOUS
  <2>1. ASSUME NEW p \in Players, RecvFirst(p) \/ Admit(p) \/ Packet(p)
        PROVE gameState' = gameState
    BY <2>1 DEF RecvFirst, Admit, Packet
  <2>2. ASSUME NEW s \in ScriptStates, ScriptTimer(s) PROVE gameState' = gameState
    BY <2>2 DEF ScriptTimer
  <2>3. CASE Signal \/ Die \/ Join \/ KeyPressed \/ Take \/ \E t \in Others : ThreadLeaves(t)
    BY <2>3 DEF Signal, Die, Join, KeyPressed, Take, ThreadLeaves
  <2>4. ASSUME NEW p \in Players,
               RunLogin(p) \/ RunPlay(p) \/ RunLogout(p) \/ Kick(p) \/ SavePlayer(p)
        PROVE gameState' = gameState
    BY <2>4 DEF RunLogin, RunPlay, RunLogout, Kick, SavePlayer
  <2>5. ASSUME NEW s \in ScriptStates \cup {"SHUTDOWN"}, SetRefused(s) \/ SetState(s)
        PROVE gameState' = gameState
    BY <2>5 DEF SetRefused, SetState, CannotBeStopped
  <2>6. CASE BeginSave \/ EndSave
    BY <2>6 DEF BeginSave, EndSave, AfterSave
  <2>7. CASE PostShutdown \/ StopThreads \/ RunShutdown \/ RunLast
    BY <2>7 DEF PostShutdown, StopThreads, RunShutdown, RunLast
  <2> QED
    BY <2>1, <2>2, <2>3, <2>4, <2>5, <2>6, <2>7 DEF LifecycleNext, GameThread
<1> QED
  BY <1>1, PTL DEF LifecycleSpec, ShutdownIsFinal
-----------------------------------------------------------------------------
(* Connections and their output.                                           *)

\* A message is the packets of a buffer.
Message == Seq(Nat)

ConnectionTypeOK ==
  /\ connectionState \in {"OPEN", "CLOSED"}
  /\ {writing, readTimer, writeTimer, protocol, managed, alive, cut} \subseteq BOOLEAN
  /\ socket \in {"open", "broken", "closed"}
  /\ reading \in {"none", "header", "body"}
  /\ timeouts \in Nat /\ reads \in 0..MaxReads /\ releases \in 0..1

\* What was accepted has been written or waits in the queue, in that order; a write
\* that fails drops the queue, and nothing is written after it.
SentFirst ==
  /\ messageQueue \in Seq(Message) /\ accepted \in Seq(Message) /\ sent \in Seq(Message)
  /\ writing <=> messageQueue # <<>>
  /\ \/ accepted = sent \o messageQueue
     \/ /\ cut /\ connectionState = "CLOSED" /\ messageQueue = <<>>
        /\ Len(sent) <= Len(accepted) /\ sent = SubSeq(accepted, 1, Len(sent))

\* Only an error closes the socket under a queue that is not empty, and nothing is
\* added once it is closed.
ClosedWhenDone ==
  socket = "closed" /\ ~cut => messageQueue = <<>> /\ (connectionState = "CLOSED" \/ ~alive)

\* The release of the protocol is posted by the close of an open connection.
ReleasedOnClose == releases = 1 => connectionState = "CLOSED"

ConnectionInv == ConnectionTypeOK /\ SentFirst /\ ClosedWhenDone /\ ReleasedOnClose

PacketsOK ==
  /\ outputBuffer \in [Protocols -> Message]
  /\ written \in [Protocols -> Message]
-----------------------------------------------------------------------------
(* The connection.                                                         *)

\* A step that neither takes nor writes a message.
Quiet ==
  /\ UNCHANGED <<messageQueue, accepted, sent, writing>>
  /\ connectionState' \in {connectionState, "CLOSED"}
  /\ cut => cut'
  /\ alive' => alive
  /\ socket' = "closed" =>
       \/ socket = "closed" \/ cut'
       \/ messageQueue = <<>> /\ (connectionState' = "CLOSED" \/ ~alive')
  /\ releases' = releases \/ (releases' = releases + 1 /\ connectionState = "OPEN" /\ connectionState' = "CLOSED")

\* Such a step keeps the invariant when it keeps the types.
LEMMA QuietKeeps ==
  ASSUME ConnectionInv, ConnectionTypeOK', Quiet
  PROVE  ConnectionInv'
<1>1. SentFirst'
  BY DEF Quiet, ConnectionInv, ConnectionTypeOK, SentFirst
<1>2. ClosedWhenDone'
  BY DEF Quiet, ConnectionInv, ConnectionTypeOK, ClosedWhenDone
<1>3. ReleasedOnClose'
  BY DEF Quiet, ConnectionInv, ConnectionTypeOK, ReleasedOnClose
<1> QED
  BY <1>1, <1>2, <1>3 DEF ConnectionInv

\* Connection::close, by force or not: it closes the socket at once when nothing
\* waits to be written, or cuts what waits.
LEMMA Closes ==
  ASSUME ConnectionInv, NEW force \in BOOLEAN, NEW has \in BOOLEAN,
         Close(force, messageQueue, has), Cut(force),
         UNCHANGED <<messageQueue, accepted, sent, writing, alive>>
  PROVE  /\ Quiet /\ connectionState' = "CLOSED" /\ managed' = FALSE /\ cut' \in BOOLEAN
         /\ socket' \in {"open", "broken", "closed"} /\ releases' \in 0..1
<1>1. ConnectionTypeOK /\ ReleasedOnClose
  BY DEF ConnectionInv
<1>2. /\ connectionState' = "CLOSED" /\ managed' = FALSE
      /\ releases' = IF ~AlreadyClosed /\ has THEN releases + 1 ELSE releases
      /\ socket' = IF ~AlreadyClosed /\ (messageQueue = <<>> \/ force) THEN "closed" ELSE socket
      /\ cut' = (cut \/ (force /\ connectionState = "OPEN"))
  BY DEF Close, ClosesNow, Posts, Managed, Cut
<1>3. AlreadyClosed <=> connectionState = "CLOSED"
  BY <1>1 DEF AlreadyClosed, ConnectionTypeOK
<1>4. cut' \in BOOLEAN /\ (cut => cut')
  BY <1>1, <1>2 DEF ConnectionTypeOK
<1>5. socket' = "closed" => socket = "closed" \/ cut' \/ messageQueue = <<>>
  BY <1>1, <1>2, <1>3 DEF ConnectionTypeOK
<1>6. socket' \in {"open", "broken", "closed"}
  BY <1>1, <1>2 DEF ConnectionTypeOK
<1>7. /\ releases' = releases \/ (releases' = releases + 1 /\ connectionState = "OPEN")
      /\ releases' \in 0..1
  <2>1. CASE AlreadyClosed
    BY <1>1, <1>2, <2>1 DEF ConnectionTypeOK
  <2>2. CASE ~AlreadyClosed
    <3>1. connectionState = "OPEN" /\ releases = 0
      BY <1>1, <1>3, <2>2 DEF ConnectionTypeOK, ReleasedOnClose
    <3> QED
      BY <1>2, <3>1
  <2> QED
    BY <2>1, <2>2
<1>8. Quiet
  BY <1>2, <1>4, <1>5, <1>7 DEF Quiet
<1> QED
  BY <1>2, <1>4, <1>6, <1>7, <1>8

\* The steps of the reads, the timers, the closes, the peer and the end of the
\* server take and write no message.
LEMMA OthersAreQuiet ==
  ASSUME ConnectionInv,
         \/ \E ok \in BOOLEAN : ParseHeader(ok) \/ ParsePacket(ok)
         \/ Disconnect \/ ReadTimerExpires \/ WriteTimerExpires \/ HandleTimeout
         \/ CloseAll \/ PeerResets \/ Destroy
  PROVE  Quiet /\ ConnectionTypeOK'
<1>0. ConnectionTypeOK /\ SentFirst
  BY DEF ConnectionInv
<1>s. ASSUME Stay PROVE UNCHANGED <<connectionState, socket, releases, managed, cut>>
  BY <1>s DEF Stay
<1>r. ReadTimeout \in BOOLEAN /\ NextRead \in {"none", "header", "body"}
  BY DEF ReadTimeout, NextRead
<1>t. ASSUME NEW force \in BOOLEAN, NEW r \in BOOLEAN, NEW w \in BOOLEAN,
             Timers(messageQueue, force, r, w)
      PROVE  readTimer' \in BOOLEAN /\ writeTimer' \in BOOLEAN
  BY <1>t DEF Timers
<1>1. ASSUME NEW ok \in BOOLEAN, ParseHeader(ok) PROVE Quiet /\ ConnectionTypeOK'
  <2>1. /\ reads' = (IF ok THEN reads + 1 ELSE reads) /\ (ok => reads < MaxReads)
        /\ UNCHANGED <<writing, messageQueue, timeouts, protocol, alive, accepted, sent>>
    BY <1>1 DEF ParseHeader
  <2>2. reads' \in 0..MaxReads
    BY <1>0, <2>1, ConnectionAssumption DEF ConnectionTypeOK
  <2>3. reading' \in {"none", "header", "body"}
    BY <1>1 DEF ParseHeader
  <2>4. CASE \E force \in BOOLEAN :
               /\ Close(force, messageQueue, protocol) /\ Cut(force)
               /\ Timers(messageQueue, force, FALSE, writeTimer)
    <3>1. PICK force \in BOOLEAN :
               /\ Close(force, messageQueue, protocol) /\ Cut(force)
               /\ Timers(messageQueue, force, FALSE, writeTimer)
      BY <2>4
    <3>2. readTimer' \in BOOLEAN /\ writeTimer' \in BOOLEAN
      BY <1>0, <1>t, <3>1 DEF ConnectionTypeOK
    <3>3. protocol \in BOOLEAN
      BY <1>0 DEF ConnectionTypeOK
    <3>4. Quiet /\ connectionState' = "CLOSED" /\ managed' = FALSE /\ cut' \in BOOLEAN
          /\ socket' \in {"open", "broken", "closed"} /\ releases' \in 0..1
      BY <2>1, <3>1, <3>3, Closes
    <3> QED
      BY <1>0, <2>1, <2>2, <2>3, <3>2, <3>4 DEF ConnectionTypeOK
  <2>5. CASE Stay /\ readTimer' \in BOOLEAN /\ UNCHANGED writeTimer
    BY <1>0, <1>s, <2>1, <2>2, <2>3, <2>5 DEF Quiet, ConnectionTypeOK
  <2> QED
    BY <1>1, <1>r, <2>4, <2>5 DEF ParseHeader
<1>2. ASSUME NEW ok \in BOOLEAN, ParsePacket(ok) PROVE Quiet /\ ConnectionTypeOK'
  <2>1. UNCHANGED <<writing, messageQueue, timeouts, alive, accepted, sent, reads>>
    BY <1>2 DEF ParsePacket, history
  <2>2. reading' \in {"none", "header", "body"} /\ protocol' \in BOOLEAN
    BY <1>0, <1>2, <1>r DEF ParsePacket, ConnectionTypeOK
  <2>3. ASSUME NEW force \in BOOLEAN, NEW has \in BOOLEAN, Close(force, messageQueue, has), Cut(force),
               readTimer' \in BOOLEAN, writeTimer' \in BOOLEAN
        PROVE  Quiet /\ ConnectionTypeOK'
    <3>1. /\ Quiet /\ connectionState' = "CLOSED" /\ managed' = FALSE /\ cut' \in BOOLEAN
          /\ socket' \in {"open", "broken", "closed"} /\ releases' \in 0..1
      BY <2>1, <2>3, Closes
    <3> QED
      BY <1>0, <2>1, <2>2, <2>3, <3>1 DEF ConnectionTypeOK
  <2>4. CASE ~ok
    <3>1. /\ Close(TRUE, messageQueue, protocol) /\ Cut(TRUE)
          /\ Timers(messageQueue, TRUE, FALSE, writeTimer)
      BY <1>2, <2>4 DEF ParsePacket
    <3> QED
      BY <1>0, <1>t, <2>3, <3>1 DEF ConnectionTypeOK
  <2>5. CASE /\ Close(TRUE, messageQueue, FALSE) /\ Cut(TRUE)
             /\ Timers(messageQueue, TRUE, FALSE, writeTimer)
    BY <1>0, <1>t, <2>3, <2>5 DEF ConnectionTypeOK
  <2>6. CASE /\ Close(FALSE, messageQueue, TRUE) /\ Cut(FALSE)
             /\ writeTimer' = (writeTimer /\ ~Cancels(messageQueue, FALSE))
             /\ readTimer' = ReadTimeout
    <3>1. writeTimer' \in BOOLEAN /\ readTimer' \in BOOLEAN
      BY <1>0, <1>r, <2>6 DEF ConnectionTypeOK
    <3> QED
      BY <2>3, <2>6, <3>1
  <2>7. CASE Stay /\ readTimer' \in BOOLEAN /\ UNCHANGED writeTimer
    BY <1>0, <1>s, <2>1, <2>2, <2>7 DEF Quiet, ConnectionTypeOK
  <2> QED
    BY <1>2, <1>r, <2>4, <2>5, <2>6, <2>7 DEF ParsePacket
<1>3. CASE Disconnect
  <2>1. /\ Close(FALSE, messageQueue, protocol) /\ Cut(FALSE)
        /\ Timers(messageQueue, FALSE, readTimer, writeTimer)
        /\ UNCHANGED <<reading, writing, messageQueue, timeouts, protocol, alive, accepted, sent, reads>>
    BY <1>0, <1>3 DEF Disconnect, history, ConnectionTypeOK
  <2>2. readTimer' \in BOOLEAN /\ writeTimer' \in BOOLEAN /\ protocol \in BOOLEAN
    BY <1>0, <1>t, <2>1 DEF ConnectionTypeOK
  <2>3. /\ Quiet /\ connectionState' = "CLOSED" /\ managed' = FALSE /\ cut' \in BOOLEAN
        /\ socket' \in {"open", "broken", "closed"} /\ releases' \in 0..1
    BY <2>1, <2>2, Closes
  <2> QED
    BY <1>0, <2>1, <2>2, <2>3 DEF ConnectionTypeOK
<1>4. CASE HandleTimeout
  <2>1. /\ Close(TRUE, messageQueue, protocol) /\ Cut(TRUE)
        /\ Timers(messageQueue, TRUE, readTimer, writeTimer)
        /\ timeouts > 0 /\ timeouts' = timeouts - 1
        /\ UNCHANGED <<reading, writing, messageQueue, protocol, alive, accepted, sent, reads>>
    BY <1>0, <1>4 DEF HandleTimeout, history, ConnectionTypeOK
  <2>2. readTimer' \in BOOLEAN /\ writeTimer' \in BOOLEAN /\ protocol \in BOOLEAN
    BY <1>0, <1>t, <2>1 DEF ConnectionTypeOK
  <2>3. /\ Quiet /\ connectionState' = "CLOSED" /\ managed' = FALSE /\ cut' \in BOOLEAN
        /\ socket' \in {"open", "broken", "closed"} /\ releases' \in 0..1
    BY <2>1, <2>2, Closes
  <2>4. timeouts' \in Nat
    BY <1>0, <2>1 DEF ConnectionTypeOK
  <2> QED
    BY <1>0, <2>1, <2>2, <2>3, <2>4 DEF ConnectionTypeOK
<1>5. CASE ReadTimerExpires \/ WriteTimerExpires
  <2>1. /\ timeouts' = timeouts + 1 /\ readTimer' \in {readTimer, FALSE} /\ writeTimer' \in {writeTimer, FALSE}
        /\ UNCHANGED <<connectionState, socket, reading, writing, messageQueue, protocol, releases, managed,
                       alive, accepted, sent, reads, cut>>
    BY <1>5 DEF ReadTimerExpires, WriteTimerExpires, history
  <2>a. timeouts' \in Nat
    BY <1>0, <2>1 DEF ConnectionTypeOK
  <2>b. readTimer \in BOOLEAN /\ writeTimer \in BOOLEAN
    BY <1>0 DEF ConnectionTypeOK
  <2>2. timeouts' \in Nat /\ readTimer' \in BOOLEAN /\ writeTimer' \in BOOLEAN
    BY <2>1, <2>a, <2>b
  <2>3. Quiet
    BY <2>1 DEF Quiet
  <2> QED
    BY <1>0, <2>1, <2>2, <2>3 DEF ConnectionTypeOK
<1>6. CASE CloseAll
  BY <1>0, <1>6 DEF CloseAll, history, Quiet, ConnectionTypeOK
<1>7. CASE PeerResets
  BY <1>0, <1>7 DEF PeerResets, history, Quiet, ConnectionTypeOK
<1>8. CASE Destroy
  <2>1. /\ ~writing /\ alive' = FALSE /\ socket' = "closed" /\ readTimer' = FALSE /\ writeTimer' = FALSE
        /\ timeouts' = 0 /\ alive
        /\ UNCHANGED <<connectionState, reading, writing, messageQueue, protocol, releases, managed,
                       accepted, sent, reads, cut>>
    BY <1>8 DEF Destroy, history
  <2>2. messageQueue = <<>>
    BY <1>0, <2>1 DEF SentFirst
  <2> QED
    BY <1>0, <2>1, <2>2 DEF Quiet, ConnectionTypeOK
<1> QED
  BY <1>1, <1>2, <1>3, <1>4, <1>5, <1>6, <1>7, <1>8

\* Connection::send: the message waits behind the others, and a write starts when
\* there are none.
LEMMA SendKeeps ==
  ASSUME ConnectionInv, NEW m \in Message, Send(m)
  PROVE  ConnectionInv'
<1>0. ConnectionTypeOK /\ SentFirst /\ ClosedWhenDone /\ ReleasedOnClose
  BY DEF ConnectionInv
<1>1. /\ messageQueue' = Append(messageQueue, m) /\ accepted' = Append(accepted, m)
      /\ alive /\ connectionState = "OPEN"
      /\ messageQueue = <<>> => writing' = TRUE /\ writeTimer' = TRUE
      /\ messageQueue # <<>> => writing' = writing /\ writeTimer' = writeTimer
      /\ UNCHANGED <<connectionState, socket, reading, readTimer, timeouts, protocol,
                     releases, managed, alive, sent, cut, reads>>
  BY DEF Send, NoPendingWrite
<1>2. accepted = sent \o messageQueue
  BY <1>0, <1>1 DEF SentFirst, ConnectionTypeOK
<1>3. /\ messageQueue \in Seq(Message) /\ sent \in Seq(Message) /\ accepted \in Seq(Message)
      /\ writing <=> messageQueue # <<>>
  BY <1>0 DEF SentFirst
<1>4. /\ messageQueue' \in Seq(Message) /\ accepted' \in Seq(Message) /\ messageQueue' # <<>>
      /\ accepted' = sent' \o messageQueue'
  <2>1. Append(sent \o messageQueue, m) = sent \o Append(messageQueue, m)
    BY <1>3
  <2>2. Append(messageQueue, m) \in Seq(Message) /\ Append(accepted, m) \in Seq(Message)
        /\ Append(messageQueue, m) # <<>>
    BY <1>3
  <2> QED
    BY <1>1, <1>2, <2>1, <2>2
<1>5. writing' = TRUE /\ writeTimer' \in BOOLEAN
  BY <1>0, <1>1, <1>3 DEF ConnectionTypeOK
<1>6. SentFirst'
  BY <1>1, <1>3, <1>4, <1>5 DEF SentFirst
<1>7. ConnectionTypeOK'
  BY <1>0, <1>1, <1>5 DEF ConnectionTypeOK
<1>8. socket = "closed" => cut
  BY <1>0, <1>1 DEF ClosedWhenDone, ConnectionTypeOK
<1> QED
  BY <1>0, <1>1, <1>6, <1>7, <1>8 DEF ConnectionInv, ClosedWhenDone, ReleasedOnClose

\* A list begins with what something was added to.
LEMMA Begins ==
  ASSUME NEW S, NEW s \in Seq(S), NEW q \in Seq(S)
  PROVE  Len(s) <= Len(s \o q) /\ s = SubSeq(s \o q, 1, Len(s))
  OBVIOUS

\* A queue whose first message moves to what has been written.
LEMMA FirstMoves ==
  ASSUME NEW S, NEW s \in Seq(S), NEW q \in Seq(S), q # <<>>
  PROVE  /\ Head(q) \in S /\ Tail(q) \in Seq(S) /\ Append(s, Head(q)) \in Seq(S)
         /\ s \o q = Append(s, Head(q)) \o Tail(q)
  OBVIOUS

\* Connection::onWriteOperation: the next message is written, or the last one of a
\* closed connection ends it; an error ends it at once.
LEMMA WriteKeeps ==
  ASSUME ConnectionInv, NEW ok \in BOOLEAN, OnWriteOperation(ok)
  PROVE  ConnectionInv'
<1>0. ConnectionTypeOK /\ SentFirst /\ ClosedWhenDone /\ ReleasedOnClose
  BY DEF ConnectionInv
<1>1. /\ writing
      /\ UNCHANGED <<reading, timeouts, protocol, alive, accepted, reads>>
  BY DEF OnWriteOperation
<1>2. /\ messageQueue \in Seq(Message) /\ sent \in Seq(Message) /\ accepted \in Seq(Message)
      /\ messageQueue # <<>> /\ accepted = sent \o messageQueue
  BY <1>0, <1>1 DEF SentFirst
<1>3. CASE ok
  <2>1. /\ sent' = Append(sent, Head(messageQueue)) /\ messageQueue' = Tail(messageQueue)
        /\ writing' = (messageQueue' # <<>>) /\ writeTimer' = writing'
        /\ UNCHANGED <<connectionState, releases, managed, cut>>
    BY <1>3 DEF OnWriteOperation, WriteNext
  <2>2. /\ messageQueue' = <<>> /\ connectionState = "CLOSED"
             => socket' = "closed" /\ readTimer' = (readTimer /\ socket = "closed")
        /\ ~(messageQueue' = <<>> /\ connectionState = "CLOSED") => UNCHANGED <<socket, readTimer>>
    BY <1>3 DEF OnWriteOperation
  <2>3. /\ messageQueue' \in Seq(Message) /\ sent' \in Seq(Message) /\ accepted' \in Seq(Message)
        /\ accepted' = sent' \o messageQueue'
    BY <1>1, <1>2, <2>1, FirstMoves
  <2>4. SentFirst'
    BY <2>1, <2>3 DEF SentFirst
  <2>5. readTimer' \in BOOLEAN /\ socket' \in {"open", "broken", "closed"}
    BY <1>0, <2>2 DEF ConnectionTypeOK
  <2>6. writing' \in BOOLEAN /\ writeTimer' \in BOOLEAN
    BY <2>1
  <2>7. ConnectionTypeOK'
    BY <1>0, <1>1, <2>1, <2>5, <2>6 DEF ConnectionTypeOK
  <2>8. ClosedWhenDone'
    <3>1. socket = "closed" => cut
      BY <1>0, <1>2 DEF ClosedWhenDone
    <3>2. CASE messageQueue' = <<>> /\ connectionState = "CLOSED"
      BY <2>1, <3>2 DEF ClosedWhenDone
    <3>3. CASE ~(messageQueue' = <<>> /\ connectionState = "CLOSED")
      BY <2>1, <2>2, <3>1, <3>3 DEF ClosedWhenDone
    <3> QED
      BY <3>2, <3>3
  <2>9. ReleasedOnClose'
    BY <1>0, <2>1 DEF ReleasedOnClose
  <2> QED
    BY <2>4, <2>7, <2>8, <2>9 DEF ConnectionInv
<1>4. CASE ~ok
  <2>1. /\ sent' = sent /\ messageQueue' = <<>> /\ writing' = FALSE /\ cut' = TRUE
        /\ Close(TRUE, <<>>, protocol) /\ Timers(<<>>, TRUE, readTimer, FALSE)
    BY <1>4 DEF OnWriteOperation
  <2>2. /\ connectionState' = "CLOSED" /\ managed' = FALSE
        /\ releases' = IF ~AlreadyClosed /\ protocol THEN releases + 1 ELSE releases
        /\ socket' = IF ~AlreadyClosed THEN "closed" ELSE socket
    BY <2>1 DEF Close, ClosesNow, Posts, Managed
  <2>3. /\ readTimer' = (readTimer /\ ~Cancels(<<>>, TRUE)) /\ writeTimer' = FALSE
    BY <2>1 DEF Timers
  <2>4. releases' \in 0..1
    <3>1. AlreadyClosed \/ releases = 0
      BY <1>0 DEF AlreadyClosed, ConnectionTypeOK, ReleasedOnClose
    <3> QED
      BY <1>0, <2>2, <3>1 DEF ConnectionTypeOK
  <2>5. socket' \in {"open", "broken", "closed"} /\ readTimer' \in BOOLEAN
    BY <1>0, <2>2, <2>3 DEF ConnectionTypeOK
  <2>6. ConnectionTypeOK'
    BY <1>0, <1>1, <2>1, <2>2, <2>3, <2>4, <2>5 DEF ConnectionTypeOK
  <2>7. SentFirst'
    <3>1. <<>> \in Seq(Message)
      BY EmptySeq
    <3>2. Len(sent') <= Len(accepted') /\ sent' = SubSeq(accepted', 1, Len(sent'))
      BY <1>1, <1>2, <2>1, Begins
    <3>3. messageQueue' \in Seq(Message) /\ accepted' \in Seq(Message) /\ sent' \in Seq(Message)
      BY <1>1, <1>2, <2>1, <3>1
    <3> QED
      BY <2>1, <2>2, <3>2, <3>3 DEF SentFirst
  <2> QED
    BY <2>1, <2>2, <2>6, <2>7 DEF ConnectionInv, ClosedWhenDone, ReleasedOnClose
<1> QED
  BY <1>3, <1>4
-----------------------------------------------------------------------------
(* With the output buffers.                                                *)

\* A buffer holds packets, whatever is written, sent or thrown away.
LEMMA PacketsKept ==
  ASSUME PacketsOK, PoolNext \/ UNCHANGED poolVars
  PROVE  PacketsOK'
<1>0. outputBuffer \in [Protocols -> Message] /\ written \in [Protocols -> Message] /\ Client \in Protocols
  BY NetworkAssumption DEF PacketsOK
<1>1. CASE GameWrites
  <2> DEFINE packet == Len(written[Client]) + 1
  <2>1. /\ written' = [written EXCEPT ![Client] = Append(written[Client], packet)]
        /\ outputBuffer' = [outputBuffer EXCEPT ![Client] =
                              IF Pool!Full(Client) THEN <<packet>> ELSE Append(outputBuffer[Client], packet)]
    BY <1>0, <1>1 DEF GameWrites, Pool!Write
  <2>2. packet \in Nat
    BY <1>0 DEF Message
  <2> HIDE DEF packet
  <2>3. /\ Append(written[Client], packet) \in Message
        /\ <<packet>> \in Message /\ Append(outputBuffer[Client], packet) \in Message
    BY <1>0, <2>2 DEF Message
  <2> QED
    BY <1>0, <2>1, <2>3 DEF PacketsOK
<1>2. CASE SendAll
  <2>1. /\ written' = written
        /\ outputBuffer' = [p \in Protocols |-> IF p \in Pool!Registered THEN <<>> ELSE outputBuffer[p]]
    BY <1>2 DEF SendAll, Pool!SendAll
  <2>2. <<>> \in Message
    BY EmptySeq DEF Message
  <2> QED
    BY <1>0, <2>1, <2>2 DEF PacketsOK
<1>3. CASE Refuse \/ (\E p \in Protocols : LogsIn(p) \/ Release(p)) \/ UNCHANGED poolVars
  <2>1. UNCHANGED <<outputBuffer, written>>
    BY <1>3 DEF Refuse, LogsIn, Release, Pool!AddProtocol, Pool!RemoveProtocol, poolVars
  <2> QED
    BY <2>1 DEF PacketsOK
<1> QED
  BY <1>1, <1>2, <1>3 DEF PoolNext

\* What the output buffers give the connection are their packets.
LEMMA PoolKeepsConnection ==
  ASSUME ConnectionInv, PacketsOK, PoolNext
  PROVE  ConnectionInv'
<1>0. outputBuffer[Client] \in Message /\ <<0>> \in Message
  BY NetworkAssumption DEF PacketsOK, Message
<1>1. (\E m \in Message : Send(m)) \/ UNCHANGED vars
  BY <1>0 DEF PoolNext, GameWrites, Overflow, SendAll, Refuse, LogsIn, Release, Give
<1>2. CASE UNCHANGED vars
  BY <1>2 DEF vars, ConnectionInv, ConnectionTypeOK, SentFirst, ClosedWhenDone, ReleasedOnClose
<1> QED
  BY <1>1, <1>2, SendKeeps

\* The invariant of the connection holds in every state, with whatever the game
\* writes, the peer does and the timers cut.
THEOREM ConnectionInvariant == Spec => [](ConnectionInv /\ PacketsOK)
<1>1. NetworkInit => ConnectionInv /\ PacketsOK
  <2> SUFFICES ASSUME NetworkInit PROVE ConnectionInv /\ PacketsOK
    OBVIOUS
  <2>0. \A S : <<>> \in Seq(S)
    BY EmptySeq
  <2>1. ConnectionTypeOK
    <3>1. /\ {writing, readTimer, writeTimer, protocol, managed, alive, cut} \subseteq BOOLEAN
      BY DEF NetworkInit, Init
    <3>2. timeouts \in Nat /\ reads \in 0..MaxReads /\ releases \in 0..1
      BY ConnectionAssumption DEF NetworkInit, Init
    <3> QED
      BY <3>1, <3>2 DEF NetworkInit, Init, ConnectionTypeOK
  <2>2. /\ messageQueue = <<>> /\ accepted = <<>> /\ sent = <<>> /\ writing = FALSE /\ releases = 0
        /\ socket = "open"
    BY DEF NetworkInit, Init
  <2>3. accepted = sent \o messageQueue
    BY <2>2
  <2>4. SentFirst
    BY <2>0, <2>2, <2>3 DEF SentFirst
  <2>5. PacketsOK
    BY <2>0 DEF NetworkInit, Pool!Init, PacketsOK, Message
  <2> QED
    BY <2>1, <2>2, <2>4, <2>5 DEF ConnectionInv, ClosedWhenDone, ReleasedOnClose
<1>2. ConnectionInv /\ PacketsOK /\ [Next]_netVars => (ConnectionInv /\ PacketsOK)'
  <2> SUFFICES ASSUME ConnectionInv, PacketsOK, [Next]_netVars PROVE ConnectionInv' /\ PacketsOK'
    OBVIOUS
  <2>1. CASE PoolNext
    BY <2>1, PacketsKept, PoolKeepsConnection
  <2>2. CASE ConnectionNext /\ UNCHANGED poolVars
    <3>1. CASE \E ok \in BOOLEAN : OnWriteOperation(ok)
      BY <2>2, <3>1, WriteKeeps, PacketsKept
    <3>2. CASE \/ \E ok \in BOOLEAN : ParseHeader(ok) \/ ParsePacket(ok)
               \/ Disconnect \/ ReadTimerExpires \/ WriteTimerExpires \/ HandleTimeout
               \/ CloseAll \/ PeerResets \/ Destroy
      BY <2>2, <3>2, OthersAreQuiet, QuietKeeps, PacketsKept
    <3> QED
      BY <2>2, <3>1, <3>2 DEF ConnectionNext
  <2>3. CASE UNCHANGED netVars
    BY <2>3, PacketsKept
       DEF netVars, vars, ConnectionInv, ConnectionTypeOK, SentFirst, ClosedWhenDone, ReleasedOnClose
  <2> QED
    BY <2>1, <2>2, <2>3 DEF Next
<1> QED
  BY <1>1, <1>2, PTL DEF Spec

\* What has been written is what was accepted first, in that order, and a connection
\* that no error or forced close cut has written everything before its socket is
\* closed (connection.cpp:55-84, 237-308).
THEOREM GracefulCloseFinishes == Spec => []GracefulCloseSendsAll
<1>1. ConnectionInv => GracefulCloseSendsAll
  <2> SUFFICES ASSUME ConnectionInv PROVE GracefulCloseSendsAll
    OBVIOUS
  <2>1. /\ messageQueue \in Seq(Message) /\ sent \in Seq(Message)
    BY DEF ConnectionInv, SentFirst
  <2>3. sent = SubSeq(accepted, 1, Len(sent))
    BY <2>1, Begins DEF ConnectionInv, SentFirst
  <2>4. ASSUME socket = "closed", ~cut PROVE sent = accepted
    <3>1. messageQueue = <<>> /\ accepted = sent \o messageQueue
      BY <2>4 DEF ConnectionInv, ClosedWhenDone, SentFirst
    <3> QED
      BY <2>1, <3>1
  <2> QED
    BY <2>3, <2>4 DEF GracefulCloseSendsAll
<1> QED
  BY <1>1, ConnectionInvariant, PTL

\* The protocol is released at most once, however often the game, the timers and the
\* errors close the connection (connection.cpp:55-71).
THEOREM ConnectionTypeCorrect == Spec => []TypeOK
<1>1. ConnectionInv => TypeOK
  <2> SUFFICES ASSUME ConnectionInv PROVE TypeOK
    OBVIOUS
  <2>1. /\ messageQueue \in Seq(Message) /\ sent \in Seq(Message) /\ accepted \in Seq(Message)
    BY DEF ConnectionInv, SentFirst
  <2>2. Len(sent) + Len(messageQueue) <= Len(accepted)
    BY <2>1, Begins DEF ConnectionInv, SentFirst
  <2> QED
    BY <2>2 DEF ConnectionInv, ConnectionTypeOK, TypeOK
<1> QED
  BY <1>1, ConnectionInvariant, PTL
-----------------------------------------------------------------------------
(* The order of the packets.                                               *)

Starts(p, w) == Len(p) <= Len(w) /\ \A i \in 1..Len(p) : w[i] = p[i]

\* An open connection is there and reads.
OpenIsRead == connectionState = "OPEN" => alive /\ reading # "none"

\* The game writes for who has logged in; what it wrote has been given to the
\* connection or is in the buffer, until the connection takes no more.
NothingYet ==
  Client \notin Pool!Registered \cup gone => written[Client] = <<>> /\ outputBuffer[Client] = <<>>
GivenInOrder ==
  Client \in Pool!Registered =>
    /\ Starts(Packets(accepted), written[Client])
    /\ connectionState = "OPEN" => Packets(accepted) \o outputBuffer[Client] = written[Client]

OrderInv ==
  /\ bufferedProtocols \in Seq(Protocols)
  /\ OpenIsRead /\ NothingYet /\ GivenInOrder

AllInv == ConnectionInv /\ PacketsOK /\ OrderInv

\* Messages are lists of packets.
LEMMA PacketsOf ==
  ASSUME NEW q \in Seq(Message), NEW m \in Message
  PROVE  Packets(q) \in Message /\ Packets(Append(q, m)) = Packets(q) \o m
BY FlattenAppend DEF Packets, Message

\* What starts a list starts a longer one.
LEMMA StartsFacts ==
  ASSUME NEW p \in Message, NEW w \in Message, NEW r \in Message
  PROVE  /\ Starts(p, p \o r)
         /\ Starts(p, w) => Starts(p, w \o r) /\ p = SubSeq(w, 1, Len(p))
<1>1. Starts(p, p \o r)
  BY DEF Starts, Message
<1>2. ASSUME Starts(p, w) PROVE Starts(p, w \o r) /\ p = SubSeq(w, 1, Len(p))
  <2>1. Starts(p, w \o r)
    BY <1>2 DEF Starts, Message
  <2>2. p = SubSeq(w, 1, Len(p))
    BY <1>2 DEF Starts, Message
  <2> QED
    BY <2>1, <2>2
<1> QED
  BY <1>1, <1>2

\* removeProtocolFromAutosend takes out one protocol and no other.
LEMMA OneIsTakenOut ==
  ASSUME bufferedProtocols \in Seq(Protocols), NEW p \in Pool!Registered
  PROVE  /\ Pool!WithoutProtocol(p) \in Seq(Protocols)
         /\ Pool!ToSet(Pool!WithoutProtocol(p)) \subseteq Pool!Registered
         /\ Pool!Registered \ {p} \subseteq Pool!ToSet(Pool!WithoutProtocol(p))
<1> DEFINE b == bufferedProtocols
           n == Len(b)
           i == CHOOSE i \in DOMAIN b : b[i] = p
           s == [b EXCEPT ![i] = b[n]]
           t == SubSeq(s, 1, n - 1)
<1>1. n \in Nat /\ DOMAIN b = 1..n /\ \A k \in 1..n : b[k] \in Protocols
  BY LenProperties
<1>2. i \in 1..n /\ b[i] = p /\ n \in 1..n
  BY <1>1 DEF Pool!Registered, Pool!ToSet
<1> HIDE DEF i
<1>3. /\ s \in [1..n -> Protocols] /\ s[i] = b[n]
      /\ \A k \in 1..n : k # i => s[k] = b[k]
  BY <1>1, <1>2
<1>4. s \in Seq(Protocols) /\ Len(s) = n
  BY <1>1, <1>3
<1> HIDE DEF s
<1>5. t \in Seq(Protocols) /\ DOMAIN t = 1..(n - 1) /\ \A k \in 1..(n - 1) : t[k] = s[k]
  BY <1>1, <1>4
<1>6. Pool!WithoutProtocol(p) = t
  BY <1>4 DEF Pool!WithoutProtocol, Pool!Front, Pool!Last, s, i
<1> HIDE DEF t
<1>7. Pool!ToSet(t) = {t[k] : k \in 1..(n - 1)} /\ Pool!Registered = {b[k] : k \in 1..n}
  BY <1>1, <1>5 DEF Pool!ToSet, Pool!Registered
<1>8. ASSUME NEW k \in 1..(n - 1) PROVE t[k] \in Pool!Registered
  BY <1>1, <1>2, <1>3, <1>5, <1>7
<1>9. ASSUME NEW k \in 1..n, b[k] # p PROVE b[k] \in Pool!ToSet(t)
  <2>1. CASE k = n
    <3>1. i \in 1..(n - 1) /\ t[i] = b[k]
      BY <1>1, <1>2, <1>3, <1>5, <1>9, <2>1
    <3> QED
      BY <1>7, <3>1
  <2>2. CASE k # n
    <3>1. k \in 1..(n - 1) /\ k # i
      <4>1. k # i
        BY <1>2, <1>9
      <4>2. n \in Nat
        BY <1>1
      <4> HIDE DEF n
      <4> QED
        BY <2>2, <4>1, <4>2
    <3>2. t[k] = s[k] /\ s[k] = b[k]
      BY <1>3, <1>5, <3>1
    <3> QED
      BY <1>7, <3>1, <3>2
  <2> QED
    BY <2>1, <2>2
<1> QED
  BY <1>5, <1>6, <1>7, <1>8, <1>9

\* A closed connection that was open is closed for good, and reads until then.
LEMMA ReadUntilClosed ==
  ASSUME AllInv, ConnectionNext
  PROVE  OpenIsRead' /\ accepted' = accepted /\ connectionState' \in {connectionState, "CLOSED"}
<1>0. ConnectionTypeOK /\ OpenIsRead
  BY DEF AllInv, ConnectionInv, OrderInv
<1>c. ASSUME NEW force, NEW q, NEW has, Close(force, q, has) PROVE connectionState' = "CLOSED"
  BY <1>c DEF Close
<1>1. ASSUME NEW ok \in BOOLEAN, ParseHeader(ok) \/ ParsePacket(ok) \/ OnWriteOperation(ok)
      PROVE  /\ accepted' = accepted /\ alive' = alive
             /\ \/ connectionState' = "CLOSED"
                \/ connectionState' = connectionState /\ (reading' # "none" \/ reading' = reading)
  <2>1. CASE ParseHeader(ok)
    BY <1>c, <2>1 DEF ParseHeader, Stay
  <2>2. CASE ParsePacket(ok)
    BY <1>c, <2>2 DEF ParsePacket, Stay, history, NextRead
  <2>3. CASE OnWriteOperation(ok)
    BY <1>c, <2>3 DEF OnWriteOperation
  <2> QED
    BY <1>1, <2>1, <2>2, <2>3
<1>2. CASE Disconnect \/ HandleTimeout
  BY <1>2, <1>c DEF Disconnect, HandleTimeout, history, OpenIsRead
<1>3. CASE ReadTimerExpires \/ WriteTimerExpires \/ CloseAll \/ PeerResets
  BY <1>0, <1>3 DEF ReadTimerExpires, WriteTimerExpires, CloseAll, PeerResets, history, OpenIsRead
<1>4. CASE Destroy
  BY <1>0, <1>4 DEF Destroy, history, OpenIsRead
<1> QED
  BY <1>0, <1>1, <1>2, <1>3, <1>4 DEF ConnectionNext, OpenIsRead, ConnectionTypeOK

\* What a connection is given is added to what it accepted, while it is open.
LEMMA GiveAdds ==
  ASSUME AllInv, NEW m \in Message, Give(m)
  PROVE  /\ accepted' = IF connectionState = "OPEN" THEN Append(accepted, m) ELSE accepted
         /\ UNCHANGED <<connectionState, alive, reading>>
BY DEF AllInv, OrderInv, OpenIsRead, Give, Send, vars, history

\* The game, the autosend, the log-ins and the releases keep the order.
LEMMA PoolKeepsOrder ==
  ASSUME AllInv, PoolNext
  PROVE  OrderInv'
<1>0. /\ accepted \in Seq(Message) /\ Client \in Protocols
      /\ outputBuffer \in [Protocols -> Message] /\ written \in [Protocols -> Message]
      /\ bufferedProtocols \in Seq(Protocols) /\ OpenIsRead /\ NothingYet /\ GivenInOrder
  BY NetworkAssumption DEF AllInv, ConnectionInv, SentFirst, PacketsOK, OrderInv
<1> DEFINE buffer == outputBuffer[Client]
           all == written[Client]
<1>a. buffer \in Message /\ all \in Message /\ Packets(accepted) \in Message /\ <<>> \in Message
  BY <1>0, PacketsOf, EmptySeq DEF Message
<1>1. CASE GameWrites
  <2> DEFINE packet == Len(written[Client]) + 1
  <2>1. /\ written' = [written EXCEPT ![Client] = Append(all, packet)]
        /\ outputBuffer' = [outputBuffer EXCEPT ![Client] =
                              IF Pool!Full(Client) THEN <<packet>> ELSE Append(buffer, packet)]
        /\ UNCHANGED <<bufferedProtocols, gone>> /\ Client \in Pool!Registered
        /\ IF Pool!Full(Client) THEN Give(buffer) ELSE UNCHANGED vars
    BY <1>0, <1>1 DEF GameWrites, Pool!Write, Overflow
  <2>2. packet \in Nat /\ <<packet>> \in Message
    BY <1>a DEF Message
  <2> HIDE DEF packet
  <2>3. /\ written'[Client] = all \o <<packet>>
        /\ outputBuffer'[Client] = IF Pool!Full(Client) THEN <<packet>> ELSE buffer \o <<packet>>
    <3>1. Append(all, packet) = all \o <<packet>> /\ Append(buffer, packet) = buffer \o <<packet>>
      BY <1>a, <2>2, AppendIsConcat DEF Message
    <3> QED
      BY <1>0, <2>1, <3>1
  <2>4. Pool!Registered' = Pool!Registered
    BY <2>1 DEF Pool!Registered
  <2>5. UNCHANGED <<connectionState, alive, reading>>
    BY <1>a, <2>1, GiveAdds DEF vars
  <2>6. CASE connectionState = "OPEN" /\ Pool!Full(Client)
    <3>1. accepted' = Append(accepted, buffer)
      BY <1>a, <2>1, <2>6, GiveAdds
    <3>2. Packets(accepted') = all
      BY <1>0, <1>a, <2>1, <2>6, <3>1, PacketsOf DEF GivenInOrder
    <3>3. Starts(all, all \o <<packet>>)
      BY <1>a, <2>2, StartsFacts
    <3> QED
      BY <1>0, <2>1, <2>3, <2>4, <2>5, <2>6, <3>2, <3>3
         DEF OrderInv, OpenIsRead, NothingYet, GivenInOrder
  <2>7. CASE ~(connectionState = "OPEN" /\ Pool!Full(Client))
    <3>1. accepted' = accepted
      BY <1>a, <2>1, <2>7, GiveAdds DEF vars
    <3>2. Starts(Packets(accepted'), written'[Client])
      <4>1. Starts(Packets(accepted), all)
        BY <1>0, <2>1 DEF GivenInOrder
      <4>2. Starts(Packets(accepted), all \o <<packet>>)
        BY <1>a, <2>2, <4>1, StartsFacts
      <4> QED
        BY <2>3, <3>1, <4>2
    <3>3. (Packets(accepted) \o buffer) \o <<packet>> = Packets(accepted) \o (buffer \o <<packet>>)
      <4>1. Packets(accepted) \in Seq(Nat) /\ buffer \in Seq(Nat) /\ <<packet>> \in Seq(Nat)
        BY <1>a, <2>2 DEF Message
      <4>2. \A a, b, c \in Seq(Nat) : (a \o b) \o c = a \o (b \o c)
        BY ConcatAssociative
      <4> HIDE DEF buffer, packet
      <4> QED
        BY <4>1, <4>2
    <3>4. connectionState = "OPEN" => Packets(accepted') \o outputBuffer'[Client] = written'[Client]
      BY <1>0, <2>1, <2>3, <2>7, <3>1, <3>3 DEF GivenInOrder
    <3> QED
      BY <1>0, <2>1, <2>4, <2>5, <3>2, <3>4 DEF OrderInv, OpenIsRead, NothingYet, GivenInOrder
  <2> QED
    BY <2>6, <2>7
<1>2. CASE SendAll
  <2>1. /\ UNCHANGED <<written, bufferedProtocols, gone>>
        /\ outputBuffer' = [p \in Protocols |-> IF p \in Pool!Registered THEN <<>> ELSE outputBuffer[p]]
        /\ IF Client \in Pool!Registered /\ buffer # <<>> THEN Give(buffer) ELSE UNCHANGED vars
    BY <1>2 DEF SendAll, Pool!SendAll
  <2>2. Pool!Registered' = Pool!Registered
    BY <2>1 DEF Pool!Registered
  <2>3. UNCHANGED <<connectionState, alive, reading>>
    BY <1>a, <2>1, GiveAdds DEF vars
  <2>4. outputBuffer'[Client] = IF Client \in Pool!Registered THEN <<>> ELSE buffer
    BY <1>0, <2>1
  <2>5. ASSUME Client \in Pool!Registered
        PROVE  /\ Starts(Packets(accepted'), all)
               /\ connectionState = "OPEN" => Packets(accepted') = all
    <3>1. CASE connectionState = "OPEN" /\ buffer # <<>>
      <4>1. accepted' = Append(accepted, buffer)
        BY <1>a, <2>1, <2>5, <3>1, GiveAdds
      <4>2. Packets(accepted') = all
        BY <1>0, <1>a, <2>5, <3>1, <4>1, PacketsOf DEF GivenInOrder
      <4> QED
        BY <1>a, <4>2 DEF Starts, Message
    <3>2. CASE ~(connectionState = "OPEN" /\ buffer # <<>>)
      <4>1. accepted' = accepted
        BY <1>a, <2>1, <2>5, <3>2, GiveAdds DEF vars
      <4>2. buffer = <<>> => Packets(accepted) \o buffer = Packets(accepted)
        BY <1>a, ConcatEmptySeq DEF Message
      <4> QED
        BY <1>0, <2>5, <3>2, <4>1, <4>2 DEF GivenInOrder
    <3> QED
      BY <3>1, <3>2
  <2>6. Client \in Pool!Registered /\ connectionState = "OPEN" => Packets(accepted') \o <<>> = all
    BY <1>a, <2>5, ConcatEmptySeq DEF Message
  <2> QED
    BY <1>0, <2>1, <2>2, <2>3, <2>4, <2>5, <2>6 DEF OrderInv, OpenIsRead, NothingYet, GivenInOrder
<1>3. CASE Refuse
  <2>1. /\ UNCHANGED <<bufferedProtocols, outputBuffer, gone, written>>
        /\ UNCHANGED <<connectionState, alive, reading>>
        /\ Client \notin Pool!Registered
    BY <1>3 DEF Refuse, Send, poolVars
  <2>2. Pool!Registered' = Pool!Registered
    BY <2>1 DEF Pool!Registered
  <2> QED
    BY <1>0, <2>1, <2>2 DEF OrderInv, OpenIsRead, NothingYet, GivenInOrder
<1>4. ASSUME NEW p \in Protocols, LogsIn(p) PROVE OrderInv'
  <2>1. /\ UNCHANGED <<outputBuffer, gone, written>> /\ UNCHANGED vars
        /\ bufferedProtocols' = Append(bufferedProtocols, p)
        /\ p \notin Pool!Registered \cup gone /\ (p = Client => accepted = <<>>)
    BY <1>4 DEF LogsIn, Pool!AddProtocol
  <2>2. bufferedProtocols' \in Seq(Protocols)
    BY <1>0, <2>1
  <2>3. Pool!Registered' = Pool!Registered \cup {p}
    BY <1>0, <2>1 DEF Pool!Registered, Pool!ToSet
  <2>4. UNCHANGED <<connectionState, alive, reading, accepted>>
    BY <2>1 DEF vars, history
  <2>5. OpenIsRead' /\ NothingYet'
    BY <1>0, <2>1, <2>3, <2>4 DEF OpenIsRead, NothingYet
  <2>6. ASSUME p = Client
        PROVE  Starts(Packets(accepted), all) /\ Packets(accepted) \o buffer = all
    <3>1. all = <<>> /\ buffer = <<>> /\ accepted = <<>>
      BY <1>0, <2>1, <2>6 DEF NothingYet
    <3>2. Packets(accepted) = <<>>
      BY <3>1 DEF Packets, FlattenSeq
    <3> QED
      BY <3>1, <3>2 DEF Starts
  <2>7. GivenInOrder'
    BY <1>0, <2>1, <2>3, <2>4, <2>6 DEF GivenInOrder
  <2> QED
    BY <2>2, <2>5, <2>7 DEF OrderInv
<1>5. ASSUME NEW p \in Protocols, Release(p) PROVE OrderInv'
  <2>1. /\ UNCHANGED <<outputBuffer, written>> /\ UNCHANGED vars
        /\ bufferedProtocols' = IF p \in Pool!Registered THEN Pool!WithoutProtocol(p) ELSE bufferedProtocols
        /\ gone' = gone \cup {p}
    BY <1>5 DEF Release, Pool!RemoveProtocol
  <2>2. /\ bufferedProtocols' \in Seq(Protocols) /\ Pool!Registered' \subseteq Pool!Registered
        /\ Pool!Registered \ {p} \subseteq Pool!Registered'
    <3>1. Pool!Registered' = Pool!ToSet(bufferedProtocols')
      BY DEF Pool!Registered, Pool!ToSet
    <3>2. CASE p \in Pool!Registered
      BY <1>0, <2>1, <3>1, <3>2, OneIsTakenOut
    <3>3. CASE p \notin Pool!Registered
      BY <1>0, <2>1, <3>3 DEF Pool!Registered, Pool!ToSet
    <3> QED
      BY <3>2, <3>3
  <2>3. UNCHANGED <<connectionState, alive, reading, accepted>>
    BY <2>1 DEF vars, history
  <2> QED
    BY <1>0, <2>1, <2>2, <2>3 DEF OrderInv, OpenIsRead, NothingYet, GivenInOrder
<1> QED
  BY <1>1, <1>2, <1>3, <1>4, <1>5 DEF PoolNext

\* What the game writes for a client that has logged in reaches the wire in that
\* order and without a gap, and while the connection is open nothing is lost on the
\* way to it (protocol.cpp:50-60, connection.cpp:237-250).
THEOREM PacketsStayInOrder == Spec => []PacketsInOrder
<1>1. NetworkInit => OrderInv
  <2> SUFFICES ASSUME NetworkInit PROVE OrderInv
    OBVIOUS
  <2>1. /\ reading = "header" /\ alive = TRUE /\ bufferedProtocols = <<>>
        /\ written[Client] = <<>> /\ outputBuffer[Client] = <<>>
    BY NetworkAssumption DEF NetworkInit, Init, Pool!Init
  <2>2. Pool!Registered = {} /\ bufferedProtocols \in Seq(Protocols)
    BY <2>1, EmptySeq DEF Pool!Registered, Pool!ToSet
  <2> QED
    BY <2>1, <2>2 DEF OrderInv, OpenIsRead, NothingYet, GivenInOrder
<1>2. AllInv /\ [Next]_netVars => OrderInv'
  <2> SUFFICES ASSUME AllInv, [Next]_netVars PROVE OrderInv'
    OBVIOUS
  <2>1. CASE PoolNext
    BY <2>1, PoolKeepsOrder
  <2>2. CASE ConnectionNext /\ UNCHANGED poolVars
    <3>1. OpenIsRead' /\ accepted' = accepted /\ connectionState' \in {connectionState, "CLOSED"}
      BY <2>2, ReadUntilClosed
    <3>2. UNCHANGED <<bufferedProtocols, outputBuffer, gone, written>>
      BY <2>2 DEF poolVars
    <3>3. Pool!Registered' = Pool!Registered
      BY <3>2 DEF Pool!Registered
    <3> QED
      BY <3>1, <3>2, <3>3 DEF AllInv, OrderInv, NothingYet, GivenInOrder
  <2>3. CASE UNCHANGED netVars
    <3>1. /\ UNCHANGED <<bufferedProtocols, outputBuffer, gone, written>>
          /\ UNCHANGED <<connectionState, alive, reading, accepted>>
      BY <2>3 DEF netVars, vars, poolVars
    <3>2. Pool!Registered' = Pool!Registered
      BY <3>1 DEF Pool!Registered
    <3> QED
      BY <3>1, <3>2 DEF AllInv, OrderInv, OpenIsRead, NothingYet, GivenInOrder
  <2> QED
    BY <2>1, <2>2, <2>3 DEF Next
<1>3. AllInv => PacketsInOrder
  <2> SUFFICES ASSUME AllInv, Client \in Pool!Registered
               PROVE  /\ Packets(sent) = SubSeq(written[Client], 1, Len(Packets(sent)))
                      /\ connectionState = "OPEN" =>
                           Packets(accepted) \o outputBuffer[Client] = written[Client]
    BY DEF PacketsInOrder
  <2>1. /\ sent \in Seq(Message) /\ accepted \in Seq(Message) /\ written[Client] \in Message
        /\ Starts(Packets(accepted), written[Client])
    BY NetworkAssumption DEF AllInv, ConnectionInv, SentFirst, PacketsOK, OrderInv, GivenInOrder
  <2>2. PICK rest \in Seq(Message) : accepted = sent \o rest
    <3>1. CASE accepted = sent \o messageQueue
      BY <3>1 DEF AllInv, ConnectionInv, SentFirst
    <3>2. CASE Len(sent) <= Len(accepted) /\ sent = SubSeq(accepted, 1, Len(sent))
      <4> DEFINE rest == SubSeq(accepted, Len(sent) + 1, Len(accepted))
      <4>1. rest \in Seq(Message) /\ accepted = sent \o rest
        BY <2>1, <3>2
      <4> HIDE DEF rest
      <4> QED
        BY <4>1
    <3> QED
      BY <3>1, <3>2 DEF AllInv, ConnectionInv, SentFirst
  <2>3. Packets(accepted) = Packets(sent) \o Packets(rest)
    BY <2>1, <2>2, FlattenConcat DEF Packets, Message
  <2>4. Packets(sent) \in Message /\ Packets(rest) \in Message
    BY <2>1, <2>2, PacketsOf, EmptySeq DEF Message
  <2>5. Starts(Packets(sent), written[Client])
    BY <2>1, <2>3, <2>4 DEF Starts, Message
  <2> QED
    BY <2>1, <2>4, <2>5, StartsFacts, EmptySeq DEF AllInv, OrderInv, GivenInOrder, Message
<1>4. Spec => []AllInv
  <2>1. ConnectionInv /\ PacketsOK /\ OrderInv /\ [Next]_netVars => OrderInv'
    BY <1>2 DEF AllInv
  <2>2. Spec => [](ConnectionInv /\ PacketsOK /\ OrderInv)
    BY <1>1, <2>1, ConnectionInvariant, PTL DEF Spec
  <2>3. ConnectionInv /\ PacketsOK /\ OrderInv => AllInv
    BY DEF AllInv
  <2> QED
    BY <2>2, <2>3, PTL
<1> QED
  BY <1>3, <1>4, PTL
=============================================================================
