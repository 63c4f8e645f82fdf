---------------------------- MODULE GameLifecycle ----------------------------
(***************************************************************************)
(* The life of the game world from "Server Online!" to the exit of the     *)
(* process: the game state of src/src/game.cpp, the tasks that change it   *)
(* (signals.cpp, Lua scripts), the saves, the kick of the players and the  *)
(* order in which the threads are stopped and joined (otserv.cpp).         *)
(*                                                                         *)
(* Three threads matter: the game thread, which runs one task of the       *)
(* dispatcher at a time; the io thread, which reads the game state without *)
(* a lock when a client says hello and then queues a login; and the timer  *)
(* thread, which queues script events at the front.  The queue of the      *)
(* dispatcher is taken as Dispatcher.tla describes it; a task that touches *)
(* the game state takes several steps here, so that the other threads can  *)
(* look at it in between.  Game::shutdown tells the scheduler's and the    *)
(* database thread to end; a thread between the test of its state and its  *)
(* lock misses the notify (Scheduler.tla, DatabaseTasks.tla), and then     *)
(* only a spurious wake-up lets main's join of it return.                  *)
(***************************************************************************)
EXTENDS Integers, Sequences

CONSTANTS
  Players,
  CanAlwaysLogin,  \* the players with PlayerFlag_CanAlwaysLogin
  ScriptStates,    \* the states Lua scripts pass to Game.setGameState
  MaxQueue,        \* bound: requests waiting in the dispatcher
  None

ASSUME LifecycleAssumption ==
  /\ CanAlwaysLogin \subseteq Players
  /\ MaxQueue \in Nat \ {0}
  /\ ScriptStates \subseteq {"NORMAL", "CLOSED", "CLOSING", "STARTUP", "SHUTDOWN"}

VARIABLES
  gameState,
  online,      \* Game::players
  unsaved,     \* players whose state in the database is out of date
  failed,      \* history: those whose last savePlayer failed
  late,        \* history: players let in while the game shuts down
  queue,       \* the dispatcher's task list
  dispatcher,  \* the dispatcher's ThreadState
  timers,      \* the scheduler's ThreadState
  missed,      \* threads that sleep although they were told to end
  ended,       \* threads that have left threadMain
  running,     \* the task the game thread runs
  phase,       \* where it is in setGameState or saveGameState
  toSave,      \* players the save has still to write
  entering,    \* clients the io thread has let past its first check
  main         \* the main thread, which runs the io_service

lifecycleVars == <<gameState, online, unsaved, failed, late, queue, dispatcher, timers,
                   missed, ended, running, phase, toSave, entering, main>>
world == <<online, unsaved, failed, late>>
others == <<missed, ended>>
threads == <<dispatcher, timers, others, main>>

\* The threads main joins before the dispatcher's, in that order.
Others == {"scheduler", "database"}

Login(p) == [kind |-> "login", arg |-> p]
Play(p) == [kind |-> "play", arg |-> p]
Logout(p) == [kind |-> "logout", arg |-> p]
Set(s) == [kind |-> "set", arg |-> s]
Save == [kind |-> "save", arg |-> None]
GameShutdown == [kind |-> "shutdown", arg |-> None]
Terminate == [kind |-> "last", arg |-> None]
NoGameTask == [kind |-> "none", arg |-> None]

LifecycleInit ==
  /\ gameState = "NORMAL"
  /\ online = {} /\ unsaved = {} /\ failed = {} /\ late = {}
  /\ toSave = {} /\ entering = {} /\ missed = {} /\ ended = {}
  /\ queue = <<>> /\ running = NoGameTask /\ phase = "idle"
  /\ dispatcher = "RUNNING" /\ timers = "RUNNING" /\ main = "io"
-----------------------------------------------------------------------------
(* The io thread and the timer thread.                                     *)

\* Dispatcher::addTask deletes the task when the dispatcher is not running.
AddTask(t) == queue' = IF dispatcher = "RUNNING" THEN Append(queue, t) ELSE queue

\* onRecvFirstMessage: the first look at the game state.
RecvFirst(p) ==
  /\ main \in {"io", "stopping"} /\ p \notin entering
  /\ gameState # "SHUTDOWN"
  /\ entering' = entering \cup {p}
  /\ UNCHANGED <<gameState, world, queue, threads, running, phase, toSave>>

\* After decryption and the account lookup, the second look.
Admit(p) ==
  /\ main \in {"io", "stopping"} /\ p \in entering
  /\ Len(queue) < MaxQueue
  /\ entering' = entering \ {p}
  /\ IF gameState \in {"STARTUP", "MAINTAIN"} THEN queue' = queue ELSE AddTask(Login(p))
  /\ UNCHANGED <<gameState, world, threads, running, phase, toSave>>

\* parsePacket: a packet of a player in the game.
Packet(p) ==
  /\ main \in {"io", "stopping"} /\ p \in online
  /\ gameState # "SHUTDOWN"
  /\ Len(queue) < MaxQueue
  /\ \E t \in {Play(p), Logout(p)} : AddTask(t)
  /\ UNCHANGED <<gameState, world, threads, running, phase, toSave, entering>>

\* dispatchSignalHandler: SIGINT and SIGTERM, or SIGUSR1.
Signal ==
  /\ main \in {"io", "stopping"}
  /\ Len(queue) < MaxQueue
  /\ \E t \in {Set("SHUTDOWN"), Save} : AddTask(t)
  /\ UNCHANGED <<gameState, world, threads, running, phase, toSave, entering>>

\* A script event falls due: the timer thread pushes it at the front.
ScriptTimer(s) ==
  /\ timers # "TERMINATED"
  /\ dispatcher = "RUNNING" /\ Len(queue) < MaxQueue
  /\ queue' = <<Set(s)>> \o queue
  /\ UNCHANGED <<gameState, world, threads, running, phase, toSave, entering>>

\* The death timer of ServiceManager::stop ends io_service.run.
Die ==
  /\ main = "stopping"
  /\ main' = "join scheduler"
  /\ UNCHANGED <<gameState, world, queue, dispatcher, timers, others, running, phase,
                 toSave, entering>>

\* A thread that was told to end finds it out and leaves threadMain; one that
\* missed the notify does so only after a spurious wake-up.
ThreadLeaves(t) ==
  /\ timers = "TERMINATED" /\ t \notin ended
  /\ ended' = ended \cup {t}
  /\ UNCHANGED <<gameState, world, queue, dispatcher, timers, missed, running, phase,
                 toSave, entering, main>>

\* thread.join() of the scheduler, of the database thread and of the dispatcher.
Join ==
  /\ \/ main = "join scheduler" /\ "scheduler" \in ended /\ main' = "join database"
     \/ main = "join database" /\ "database" \in ended /\ main' = "join dispatcher"
     \/ main = "join dispatcher" /\ dispatcher = "TERMINATED" /\ main' = "key"
  /\ UNCHANGED <<gameState, world, queue, dispatcher, timers, others, running, phase,
                 toSave, entering>>

\* std::cin.get(): somebody presses a key, or nobody does.
KeyPressed ==
  /\ main = "key"
  /\ main' = "exited"
  /\ UNCHANGED <<gameState, world, queue, dispatcher, timers, others, running, phase,
                 toSave, entering>>
-----------------------------------------------------------------------------
(* The game thread.                                                        *)

Take ==
  /\ running = NoGameTask /\ dispatcher # "TERMINATED" /\ queue # <<>>
  /\ running' = Head(queue) /\ queue' = Tail(queue)
  /\ phase' = "start"
  /\ UNCHANGED <<gameState, world, threads, toSave, entering>>

Finish == running' = NoGameTask /\ phase' = "idle"

\* The game states in which ProtocolGame::login turns a player away: SHUTDOWN
\* is not among them.
Closed_ignored(p) == FALSE
Closed(p) == gameState \in {"CLOSING", "CLOSED"} /\ p \notin CanAlwaysLogin

\* ProtocolGame::login; the waiting list or a ban may refuse it too.
RunLogin(p) ==
  /\ running = Login(p)
  /\ \/ /\ ~Closed(p) /\ p \notin online
        /\ online' = online \cup {p} /\ unsaved' = unsaved \cup {p}
        /\ failed' = failed \ {p}
        /\ late' = IF gameState = "SHUTDOWN" THEN late \cup {p} ELSE late
     \/ UNCHANGED world
  /\ Finish
  /\ UNCHANGED <<gameState, queue, threads, toSave, entering>>

\* Any game action of a player who is still in the game.
RunPlay(p) ==
  /\ running = Play(p)
  /\ unsaved' = IF p \in online THEN unsaved \cup {p} ELSE unsaved
  /\ Finish
  /\ UNCHANGED <<gameState, online, failed, late, queue, threads, toSave, entering>>

\* IOLoginData::savePlayer: a query of it may fail.
Saved(p) ==
  \/ unsaved' = unsaved \ {p} /\ failed' = failed \ {p}
  \/ failed' = failed \cup {p} /\ UNCHANGED unsaved

\* removeCreature, with the save of Player::onRemoveCreature: a third failure
\* is logged, and the player leaves all the same.
Removed(p) == online' = online \ {p} /\ Saved(p) /\ UNCHANGED late

\* ProtocolGame::logout refuses it in a fight or where the script says no.
RunLogout(p) ==
  /\ running = Logout(p)
  /\ Removed(p) \/ UNCHANGED world
  /\ Finish
  /\ UNCHANGED <<gameState, queue, threads, toSave, entering>>

\* setGameState: the two early returns.
CannotBeStopped_missing == FALSE
CannotBeStopped == gameState = "SHUTDOWN"

SetRefused(s) ==
  /\ running = Set(s) /\ phase = "start"
  /\ CannotBeStopped \/ gameState = s
  /\ Finish
  /\ UNCHANGED <<gameState, world, queue, threads, toSave, entering>>

SetState(s) ==
  /\ running = Set(s) /\ phase = "start"
  /\ ~CannotBeStopped /\ gameState # s
  /\ gameState' = s
  /\ IF s \in {"SHUTDOWN", "CLOSED"}
     THEN phase' = "kick" /\ UNCHANGED running
     ELSE Finish
  /\ UNCHANGED <<world, queue, threads, toSave, entering>>

\* The players setGameState kicks.
ToKick_normal == online \ CanAlwaysLogin
ToKick == IF gameState = "SHUTDOWN" THEN online ELSE online \ CanAlwaysLogin

Kick(p) ==
  /\ phase = "kick" /\ p \in ToKick
  /\ Removed(p)
  /\ UNCHANGED <<gameState, queue, threads, running, phase, toSave, entering>>

\* saveGameState: a save asked for, or the one that follows the kicks.
BeginSave ==
  /\ \/ running = Save /\ phase = "start"
     \/ phase = "kick" /\ ToKick = {}
  /\ gameState' = IF gameState = "NORMAL" THEN "MAINTAIN" ELSE gameState
  /\ toSave' = online
  /\ phase' = "save"
  /\ UNCHANGED <<world, queue, threads, running, entering>>

SavePlayer(p) ==
  /\ phase = "save" /\ p \in toSave
  /\ toSave' = toSave \ {p}
  /\ Saved(p)
  /\ UNCHANGED <<gameState, online, late, queue, threads, running, phase, entering>>

\* Map::save and the flush are behind it.
AfterSave == IF gameState = "MAINTAIN" THEN "NORMAL" ELSE gameState

EndSave ==
  /\ phase = "save" /\ toSave = {}
  /\ gameState' = AfterSave
  /\ IF running = Set("SHUTDOWN") THEN phase' = "post" /\ UNCHANGED running ELSE Finish
  /\ UNCHANGED <<world, queue, threads, toSave, entering>>

PostShutdown ==
  /\ phase = "post"
  /\ AddTask(GameShutdown)
  /\ phase' = "stop"
  /\ UNCHANGED <<gameState, world, threads, running, toSave, entering>>

StopThreads ==
  /\ phase = "stop"
  /\ timers' = "CLOSING" /\ dispatcher' = "CLOSING"
  /\ Finish
  /\ UNCHANGED <<gameState, world, queue, main, others, toSave, entering>>

\* Game::shutdown: tell the other threads to end, with one notify each that a
\* thread may miss, queue the dispatcher's last task and stop the services.
LastTask_missing == <<>>
LastTask == <<Terminate>>

RunShutdown ==
  /\ running = GameShutdown
  /\ timers' = "TERMINATED"
  /\ missed' \in SUBSET Others
  /\ queue' = queue \o LastTask
  /\ main' = "stopping"
  /\ Finish
  /\ UNCHANGED <<gameState, world, dispatcher, ended, toSave, entering>>

RunLast ==
  /\ running = Terminate
  /\ dispatcher' = "TERMINATED"
  /\ Finish
  /\ UNCHANGED <<gameState, world, queue, timers, others, main, toSave, entering>>
-----------------------------------------------------------------------------
GameThread ==
  \/ Take
  \/ \E p \in Players : RunLogin(p) \/ RunPlay(p) \/ RunLogout(p) \/ Kick(p) \/ SavePlayer(p)
  \/ \E s \in ScriptStates \cup {"SHUTDOWN"} : SetRefused(s) \/ SetState(s)
  \/ BeginSave \/ EndSave \/ PostShutdown \/ StopThreads \/ RunShutdown \/ RunLast

LifecycleNext ==
  \/ \E p \in Players : RecvFirst(p) \/ Admit(p) \/ Packet(p)
  \/ Signal
  \/ \E s \in ScriptStates : ScriptTimer(s)
  \/ Die \/ Join \/ KeyPressed
  \/ \E t \in Others : ThreadLeaves(t)
  \/ GameThread

LifecycleSpec == LifecycleInit /\ [][LifecycleNext]_lifecycleVars

\* Every task returns, the death timer fires, main goes on, and so does a
\* thread that is awake.  Nobody has to press a key, and nothing wakes a
\* thread that missed its notify.
LifecycleFairness ==
  /\ WF_lifecycleVars(GameThread) /\ WF_lifecycleVars(Die) /\ WF_lifecycleVars(Join)
  /\ \A t \in Others : WF_lifecycleVars(t \notin missed /\ ThreadLeaves(t))

LifecycleFairSpec == LifecycleSpec /\ LifecycleFairness
-----------------------------------------------------------------------------
GameTasks == (UNION {{Login(p), Play(p), Logout(p)} : p \in Players})
             \cup {Set(s) : s \in ScriptStates \cup {"SHUTDOWN"}} \cup {Save, GameShutdown, Terminate}

\* The type invariant; MAINTAIN is only ever seen while a save runs.
LifecycleTypeOK ==
  /\ gameState \in {"NORMAL", "MAINTAIN", "SHUTDOWN"} \cup ScriptStates
  /\ online \subseteq Players /\ unsaved \subseteq Players
  /\ failed \subseteq Players /\ late \subseteq Players
  /\ missed \subseteq Others /\ ended \subseteq Others
  /\ toSave \subseteq online /\ entering \subseteq Players
  /\ queue \in Seq(GameTasks) /\ running \in GameTasks \cup {NoGameTask}
  /\ phase \in {"idle", "start", "kick", "save", "post", "stop"}
  /\ dispatcher \in {"RUNNING", "CLOSING", "TERMINATED"}
  /\ timers \in {"RUNNING", "CLOSING", "TERMINATED"}
  /\ main \in {"io", "stopping", "join scheduler", "join database", "join dispatcher",
               "key", "exited"}
  /\ gameState = "MAINTAIN" => phase = "save"

\* From the last kick of a shutdown on, whatever tasks were still queued, only
\* two kinds of players are not in the database as they are in memory: those
\* whose last save failed (player.cpp:1194-1204, game.cpp:164-167), and those
\* a login task let in behind the kicks, which ProtocolGame::login does not
\* refuse and nobody kicks or saves (protocolgame.cpp:80-88).
ShutdownSaves ==
  gameState = "SHUTDOWN" /\ phase # "kick" => unsaved \subseteq failed \cup late

\* Once a close has run to its end only players with the flag are in the
\* game, whatever logins were on their way (game.cpp:153-167 against
\* protocolgame.cpp:84).
ClosedIsClosed ==
  gameState = "CLOSED" /\ phase \in {"idle", "start"} => online \subseteq CanAlwaysLogin

\* "this cannot be stopped" (game.cpp:101): neither a script nor the end of
\* a save takes the game out of SHUTDOWN.
ShutdownIsFinal == [][gameState = "SHUTDOWN" => gameState' = "SHUTDOWN"]_lifecycleVars

\* The order of the stops lets the queued Game::shutdown run: from SHUTDOWN
\* main comes through its joins to the wait for a key, unless a thread missed
\* the one notify that tells it to end (game.cpp:144-149, 4530-4549;
\* otserv.cpp:93-96).
ShutdownExits ==
  (gameState = "SHUTDOWN") ~> (main \in {"key", "exited"} \/ missed # {})
=============================================================================
