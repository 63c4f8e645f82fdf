------------------------------- MODULE Session -------------------------------
(***************************************************************************)
(* Who controls a player: the ProtocolGame objects of src/src/             *)
(* protocolgame.cpp, the Player objects they create or take over, and the  *)
(* links between the two (ProtocolGame::player, Player::client and the     *)
(* player's reference counter), across logins, logouts, kicks, deaths,     *)
(* lost connections and second logins of the same character.               *)
(*                                                                         *)
(* Everything but the closing of a connection runs on the game thread, one *)
(* task at a time.  Tasks pushed at the back run in order; the delayed     *)
(* connect of a second login comes from the timer, which pushes it at the  *)
(* front, so it may run between any two tasks.  A session creates at most  *)
(* one Player object: the object bears the name of its session.            *)
(***************************************************************************)
EXTENDS Integers, Sequences, FiniteSets

CONSTANTS
  Sessions,
  Names,  \* character names
  None

ASSUME SessionAssumption == None \notin Sessions

VARIABLES
  conn,          \* the session's Connection: open, closing (closed, not yet
                 \* destroyed), gone (the weak pointer has expired)
  name,          \* the character the session logs in with
  tasks,         \* session tasks in the dispatcher
  event,         \* eventConnect: the player a delayed connect is to take
  player,        \* ProtocolGame::player
  client,        \* Player::client
  isConnecting,  \* Player::isConnecting
  created,       \* the Player objects there are or have been
  placed,        \* the players in the game
  refs,          \* Player's referenceCounter
  releasing,     \* entries of an object in the lists cleanup drains
  deleted,       \* the Player objects that have been deleted
  autosend,      \* OutputMessagePool::bufferedProtocols
  released       \* history: sessions whose release has run

sessionVars == <<conn, name, tasks, event, player, client, isConnecting, created,
          placed, refs, releasing, deleted, autosend, released>>
objects == <<isConnecting, created, placed, refs, releasing, deleted>>
links == <<event, player, client>>

Objects == Sessions

SessionInit ==
  /\ conn = [s \in Sessions |-> "new"]
  /\ name = [s \in Sessions |-> None]
  /\ tasks = <<>> /\ autosend = {} /\ released = {}
  /\ event = [s \in Sessions |-> None]
  /\ player = [s \in Sessions |-> None] /\ client = [o \in Objects |-> None]
  /\ isConnecting = [o \in Objects |-> FALSE]
  /\ created = {} /\ placed = {} /\ deleted = {}
  /\ refs = [o \in Objects |-> 0] /\ releasing = [o \in Objects |-> 0]
-----------------------------------------------------------------------------
(* Connections.                                                            *)

Task(k, s) == [kind |-> k, session |-> s]

\* Connection::close posts Protocol::release, once.
CloseOf(s) == [conn EXCEPT ![s] = IF conn[s] = "open" THEN "closing" ELSE conn[s]]
Posted(s) == IF conn[s] = "open" THEN <<Task("release", s)>> ELSE <<>>

\* Protocol::disconnect: nothing happens when the Connection is gone.
Disconnect(s) == conn' = CloseOf(s) /\ tasks' = tasks \o Posted(s)

\* A client is accepted and its first message queues the login.
FirstMessage(s, n) ==
  /\ conn[s] = "new"
  /\ conn' = [conn EXCEPT ![s] = "open"]
  /\ name' = [name EXCEPT ![s] = n]
  /\ tasks' = Append(tasks, Task("login", s))
  /\ UNCHANGED <<links, objects, autosend, released>>

\* The client goes away or times out.
LoseClient(s) ==
  /\ conn[s] = "open"
  /\ Disconnect(s)
  /\ UNCHANGED <<name, links, objects, autosend, released>>

\* The last handler that holds the closed Connection returns.
DestroyConnection(s) ==
  /\ conn[s] = "closing"
  /\ conn' = [conn EXCEPT ![s] = "gone"]
  /\ UNCHANGED <<name, tasks, links, objects, autosend, released>>

\* parsePacket 0x14: the client asks to log out (bound: one request waits).
AskLogout(s) ==
  /\ conn[s] = "open" /\ player[s] # None
  /\ ~\E i \in DOMAIN tasks : tasks[i] = Task("logout", s)
  /\ tasks' = Append(tasks, Task("logout", s))
  /\ UNCHANGED <<conn, name, links, objects, autosend, released>>
-----------------------------------------------------------------------------
(* The game thread.                                                        *)

Runs(k, s) == tasks # <<>> /\ Head(tasks) = Task(k, s)
Done == tasks' = Tail(tasks)
DoneDisconnect(s) == conn' = CloseOf(s) /\ tasks' = Tail(tasks) \o Posted(s)

Found(n) == {o \in placed : name[o] = n}

\* decrementReferenceCounter
Drop(o, k) ==
  /\ refs' = [refs EXCEPT ![o] = @ - k]
  /\ deleted' = IF refs[o] = k THEN deleted \cup {o} ELSE deleted

\* login, no such player in the game: create one.  A ban, the waiting list, a
\* failed load or a failed placement sends the client away.
LoginRefused(s) ==
  /\ Runs("login", s) /\ Found(name[s]) = {}
  /\ created' = created \cup {s}
  /\ player' = [player EXCEPT ![s] = s] /\ client' = [client EXCEPT ![s] = s]
  /\ refs' = [refs EXCEPT ![s] = 1]
  /\ DoneDisconnect(s)
  /\ UNCHANGED <<name, event, isConnecting, placed, releasing, deleted, autosend, released>>

\* placeCreature takes two references: the game's and the check list's.
LoginRefs == 1 + 2
LoginPlaced(s) ==
  /\ Runs("login", s) /\ Found(name[s]) = {}
  /\ created' = created \cup {s} /\ placed' = placed \cup {s}
  /\ player' = [player EXCEPT ![s] = s] /\ client' = [client EXCEPT ![s] = s]
  /\ refs' = [refs EXCEPT ![s] = LoginRefs]
  /\ autosend' = autosend \cup {s}
  /\ Done
  /\ UNCHANGED <<conn, name, event, isConnecting, releasing, deleted, released>>

\* login of a character that is in the game, replaceKickOnLogin off.  A reload
\* of the configuration may change the option at any time, so each login may
\* find it either way.
LoginTwice(s) ==
  /\ Runs("login", s) /\ Found(name[s]) # {}
  /\ DoneDisconnect(s)
  /\ UNCHANGED <<name, links, objects, autosend, released>>

\* It has a client: close that one and connect a second later.
LoginReplace(s) ==
  /\ Runs("login", s)
  /\ \E o \in Found(name[s]) :
       /\ client[o] # None
       /\ isConnecting' = [isConnecting EXCEPT ![o] = TRUE]
       /\ event' = [event EXCEPT ![s] = o]
       /\ conn' = CloseOf(client[o])
       /\ tasks' = Tail(tasks) \o Posted(client[o])
  /\ autosend' = autosend \cup {s}
  /\ UNCHANGED <<name, player, client, created, placed, refs, releasing, deleted, released>>

\* connect hands the player over to the session.
Occupied_ignored(o) == FALSE
Occupied(o) == client[o] # None
Take(s, o) ==
  /\ player' = [player EXCEPT ![s] = o] /\ client' = [client EXCEPT ![o] = s]
  /\ refs' = [refs EXCEPT ![o] = @ + 1]
  /\ isConnecting' = [isConnecting EXCEPT ![o] = FALSE]
  /\ UNCHANGED <<created, placed, releasing, deleted>>

\* It has none: connect at once.
LoginConnect(s) ==
  /\ Runs("login", s)
  /\ \E o \in Found(name[s]) :
       /\ client[o] = None
       /\ IF conn[s] = "gone"
          THEN UNCHANGED <<player, client, objects>>
          ELSE Take(s, o)
  /\ autosend' = autosend \cup {s}
  /\ Done
  /\ UNCHANGED <<conn, name, event, released>>

\* The delayed connect, which getPlayerByID may not find a player for.
Connect(s) ==
  /\ event[s] # None
  /\ event' = [event EXCEPT ![s] = None]
  /\ IF event[s] \notin placed \/ Occupied(event[s])
     THEN Disconnect(s) /\ UNCHANGED <<player, client, objects>>
     ELSE /\ IF conn[s] = "gone"
             THEN UNCHANGED <<player, client, objects>>
             ELSE Take(s, event[s])
          /\ UNCHANGED <<conn, tasks>>
  /\ UNCHANGED <<name, autosend, released>>

\* ProtocolGame::release.
Unlink(s) == [client EXCEPT ![player[s]] = None]
Unbuffered(s) == autosend \ {s}
Release(s) ==
  /\ Runs("release", s)
  /\ IF player[s] # None /\ client[player[s]] = s
     THEN /\ client' = Unlink(s)
          /\ player' = [player EXCEPT ![s] = None]
          /\ Drop(player[s], 1)
     ELSE UNCHANGED <<client, player, refs, deleted>>
  /\ autosend' = Unbuffered(s)
  /\ released' = released \cup {s}
  /\ Done
  /\ UNCHANGED <<conn, name, event, isConnecting, created, placed, releasing>>

\* removeCreature: out of the game; the references go with the next cleanups.
Removed_forgotten(o) == placed' = placed \ {o} /\ UNCHANGED releasing
Removed(o) ==
  /\ placed' = placed \ {o}
  /\ releasing' = IF o \in placed THEN [releasing EXCEPT ![o] = 2] ELSE releasing

\* ProtocolGame::logout; an unforced one may be refused.
Logout(s) ==
  /\ Runs("logout", s)
  /\ \/ player[s] = None /\ Done /\ UNCHANGED <<conn, placed, releasing>>
     \/ player[s] \in placed /\ Done /\ UNCHANGED <<conn, placed, releasing>>
     \/ player[s] # None /\ DoneDisconnect(s) /\ Removed(player[s])
  /\ UNCHANGED <<name, links, isConnecting, created, refs, deleted, autosend, released>>

\* kickPlayer, and the end of a player that lost its client (sendPing).
Kick(o) ==
  /\ o \in placed
  /\ IF client[o] # None THEN Disconnect(client[o]) ELSE UNCHANGED <<conn, tasks>>
  /\ Removed(o)
  /\ UNCHANGED <<name, links, isConnecting, created, refs, deleted, autosend, released>>

\* A death takes the player out of the game and leaves the client linked.
Die(o) ==
  /\ o \in placed
  /\ Removed(o)
  /\ UNCHANGED <<conn, name, tasks, links, isConnecting, created, refs, deleted,
                 autosend, released>>

\* Game::cleanup, after checkCreatures has dropped the object from its list.
Cleanup(o) ==
  /\ releasing[o] > 0
  /\ releasing' = [releasing EXCEPT ![o] = @ - 1]
  /\ Drop(o, 1)
  /\ UNCHANGED <<conn, name, tasks, links, isConnecting, created, placed, autosend, released>>
-----------------------------------------------------------------------------
\* All but the logins that the waiting list is asked about.
OtherTask(s) ==
  LoginTwice(s) \/ LoginReplace(s) \/ LoginConnect(s) \/ Release(s) \/ Logout(s)

OtherStep ==
  \/ \E s \in Sessions :
       \/ \E n \in Names : FirstMessage(s, n)
       \/ LoseClient(s) \/ DestroyConnection(s) \/ AskLogout(s)
       \/ OtherTask(s) \/ Connect(s)
  \/ \E o \in Objects : Kick(o) \/ Die(o) \/ Cleanup(o)

SessionNext == OtherStep \/ \E s \in Sessions : LoginRefused(s) \/ LoginPlaced(s)

SessionSpec == SessionInit /\ [][SessionNext]_sessionVars
-----------------------------------------------------------------------------

\* A character is in the game once (allowClones off), and the two links of a session
\* and a player always agree.  kickPlayer relies on it: logout returns at once
\* when the client it is called on has no player, and the loop that kicks
\* everybody (game.cpp:135-139) would never end.
LinksAgree ==
  /\ \A o \in Objects : client[o] # None => player[client[o]] = o
  /\ \A s \in Sessions : player[s] # None => client[player[s]] = s
  /\ \A o, u \in placed : name[o] = name[u] => o = u

\* The reference counter counts the sessions and the game's own references,
\* and the object is deleted exactly when they are all gone, so a placed or
\* controlled player is never a dangling pointer.
Holders(o) == Cardinality({s \in Sessions : player[s] = o})
              + (IF o \in placed THEN 2 ELSE releasing[o])
RefsCounted ==
  \A o \in created : refs[o] = Holders(o) /\ (o \in deleted <=> Holders(o) = 0)

\* "release() has been called at this point and the Connection object no longer
\* exists, so we return to prevent leakage of the Player" (protocolgame.cpp:181):
\* no player is ever linked to a session that has already been released.
NoLeakedPlayer == \A o \in placed : client[o] \notin released
=============================================================================
