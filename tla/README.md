# InfernumDataPack: a TLA+ model of the server

InfernumDataPack is a game server (a fork of The Forgotten Server, C++, in
`src/src`) with its data pack (Lua and XML, in `src/data`).  This directory holds
a model of its core in TLA+: what the threads, sessions, queues and players of
the server do, what must always hold of them, TLC configurations that check it on
small instances, and theorems that the TLA+ proof system checks for every value of
the constants.

A module is named after the part it models and its actions after the functions of
the code; where an action stands for a piece of a function, a comment says which.
`PROJECT.json` gives the source lines of every definition.

## The system

The server is one process with four threads that matter:

| thread | code | what it does |
| --- | --- | --- |
| main (io) | `otserv.cpp`, `server.cpp`, `connection.cpp` | starts everything, runs the `io_service`: accepts, reads, writes, timers and signals; at the end joins the others |
| game | `tasks.cpp` (Dispatcher) | runs one task at a time: every packet, timer event, database callback and script |
| timer | `scheduler.cpp` (Scheduler) | keeps a priority queue of events and pushes the due ones at the front of the dispatcher |
| database | `databasetasks.cpp` (DatabaseTasks) | runs asynchronous queries; their callbacks go to the dispatcher |

All game state belongs to the game thread and has no locks; the hard part of the
code is what crosses the threads (three hand-written queues, connections, the game
state read by the io thread), what outlives a task (timer events, raw pointers
between players, reference counts), and the order in which all of it ends.

### Components

| component | state it keeps | operations | correct when | model |
| --- | --- | --- | --- | --- |
| Scheduler | priority queue, ids of active events, last id, thread state | addEvent, stopEvent, threadMain, stop, shutdown | an event fires once, not early, not when stopped; no wake-up is lost; the thread ends | `Scheduler`, `TimerService` |
| Dispatcher | list of tasks, thread state | addTask (back or front), threadMain, stop, shutdown | order at the back, no lost wake-up, every task leaves the list | `Dispatcher` |
| DatabaseTasks | FIFO of queries, thread state | addTask, threadMain, flush, stop, shutdown | each query once, in order but for those in flight, none lost at shutdown | `DatabaseTasks`; with the dispatcher in `Tasks` |
| Game life cycle | game state, players, thread states | setGameState, saveGameState, shutdown, signals, login and logout | what a shutdown leaves unsaved has a cause, closed is closed, shutdown is final and comes to the key, unless a thread missed its notify | `GameLifecycle` |
| Sessions | `ProtocolGame::player`, `Player::client`, reference counts, delayed connect | login, connect, logout, release, kick, death | links agree, counts exact, a character once | `Session`; with the waiting list in `Logins` |
| Connection | socket, message queue, timers, state | accept, parse, send, onWrite, timeout, close | one write outstanding, all messages written before a graceful close, a silent client cut | `Connection`; with its buffers in `Network` |
| Output pool | registered protocols, their buffers | write, sendAll, add, remove | sendAll never dies out, order of packets | `OutputPool` |
| Waiting list | two lists with time-outs and their sizes | clientLogin (with cleanupList) | who comes back in time keeps its entry and its place, stale entries dropped | `WaitingList`, `Logins` |
| Parties | leader, members, invited; `Player::party`, `invitePartyList` | invite, join, revoke, pass leadership, leave, disband, log out | both ends agree; no empty party; nothing refers to who left | `Party`, `Town` |
| Trade | state, partner and item of each player; `Game::tradeItems` | request, accept, close, and the checks on moves of players and items | both sides agree; the offer is in reach and untouched | `Trade`, `Town` |
| Chat | channels and their users, per guild, party and player | open, close, create, invite, exclude, reconnect | users of a private channel are invited; nothing refers to who left | `Chat`, `Town` |
| Guilds, VIP | ranks, members online | load, addMember, removeMember | a member's Guild is there and knows it | `Chat` (members); VIP lists not modelled |
| Services and ports | acceptor, pendingStart, connection counts | open, accept, close, onStopServer | re-opens once | not modelled |
| Market, banks | offers (in the database), what they hold, bank balances and inboxes in memory or database | create, accept, cancel, expire in two threads | gold and goods are conserved | `Market`, `Town` |
| Houses | owner, lists, warnings, deed; the database's copy | buy, leave, trade the deed, edit lists, kick, save, restart | who is inside is invited; lists belong to the owner | `House`, `Town` |
| Beds | sleeper of each bed, map of sleepers | use, dialog, sleep, wake, restart | bed and map agree | `House`, `Town` |
| Creatures, monsters, spawns, raids | targets, friends, masters, summons, check list, reference counts | appear, move, think, attack, summon, die, remove, release | no pointer to a freed creature; counts exact; the dead are found | `Creatures`, `World`; raids and respawn timers not modelled |
| Decay of items | kind, duration and state of an item, `toDecayItems`, four buckets, release list | start, visit, transform, use, equip, remove, clean up | references counted; in time | `Decay`, `Town` |
| Items, containers, slots | parents, counts, weights of containers and players | move, split, merge, exchange, give, use up, pay | one place each, right weight, nothing lost or made | `Cylinders`, `Belongings` |
| Tiles, browsing | ground, items on top, creatures, items; flags; the container of who browses; the copy each client has | add, replace, remove, transform, walk, place, hide; browse, close, time out; teleports and trash | clients show the tile, flags tell its items, the container holds them and lives as long as it is used | `Tiles`, `Belongings` |
| Conditions, equipment, mounts | conditions, sums of speed and skills, what is seen of a player, slots in force, mount | add, merge, delay, dispel, expire, save, restore; put on, take off, use a charge; mount, tame, change outfit | every bonus, look and item condition has its cause, and only once | `Conditions`, `World` |
| Combat | damage, blocks, areas, fields | | | not modelled: formulas |
| Persistence, files, configuration, Lua glue, XML tables | | | | not modelled (see below) |

### How they interact

- The io thread and the database thread give tasks to the Dispatcher at the back;
  the Scheduler at the front.  `Dispatcher` models both, and `GameLifecycle` uses
  the queue as `Dispatcher` describes it.
- A `Connection` that closes posts `Protocol::release`, which `Session` takes as a
  task behind those already there; the delayed `connect` of a second login comes
  from the timer, so at any time.
- A player that leaves (`Player::onRemoveCreature`) ends its trade, its deeds, its
  invitations and its party, is removed from the channels and its guild, and is
  saved, in one task: `Town.Logout` and `GameLifecycle.Removed`.
- What a player owns (bank, inbox, house, bed) is in memory or in the database, and
  others change it while it is away: `Town.Login` and `Town.Logout` move it.
- A market search is asked by the timer, run by the database thread and answered
  on the game thread, with players dealing in between.
- `checkCreatures` calls handlers that put creatures into the list it walks.
- `setGameState(SHUTDOWN)` kicks everybody, saves, queues `Game::shutdown` and
  stops the three queues; main joins the threads.

## The modules

`TimerService` is the abstract specification of the scheduler: events are armed,
fired, cancelled or dropped.  `Scheduler` implements it (`TimerSpec`): armed is
the queue minus the stopped events, an event is fired from the moment the thread
has taken it, and a stopped event stays in the queue until it is due and is then
dropped.  The thread's loop is cut at each point where another thread can come
in: the test of the state, the lock, the wait, and the call of the dispatcher.

`Dispatcher` and `DatabaseTasks` are cut the same way.  What runs under a lock is
one action; `notify_one` after the unlock is a second action of the caller; a
wait ends by a notify, a spurious wake-up or, in the scheduler, a timeout.  A
notify wakes the thread only if it waits at that moment, which is where
wake-ups can be lost.  `Tasks` puts the two together: only tasks of the dispatcher
add, flush and stop queries, a query with a callback gives the dispatcher a task
when it has run, and the end is that of `setGameState(SHUTDOWN)` and
`Game::shutdown`, in their order.

`GameLifecycle` has the game state, who is online, who is unsaved, the queue of
the dispatcher with requests (logins, game actions, logouts, state changes, saves)
and the steps of `setGameState` and `saveGameState`, cut so that the io thread can
read the game state in the middle of them.  A save of a player may fail each time, and the
player leaves all the same; a login task behind the kicks of a shutdown is let in,
because `ProtocolGame::login` turns nobody away in that state.  At the end main joins
the scheduler, the database thread and the dispatcher, in that order, and waits for a
key.  The two threads that are woken by one notify each may miss it (`missed`): how
that comes about is in `Scheduler`, here it is a choice.

`Session` has the two pointers between a session and a player, the reference count
of the player and the lists through which the game gives a reference back, the
tasks of the sessions in the dispatcher, and the delayed connect.

`Connection` has one connection with its two asynchronous operations and its
timers; an expiry and its handler are two steps, because cancelling a timer does
not take back a handler that was already queued.  `OutputPool` has the buffers in
front of the connections, and `Network` joins the two for one client: what the game
writes goes through a buffer that fills, is sent by the timer or at a release, and
then through the queue of the connection to the wire.

`WaitingList` has both lists with their time-outs, and models two facts of C++
that decide its behaviour: the unsigned subtraction of `cleanupList`, and the size
that `std::list::erase` decrements when it is called on the wrong list.  `Logins`
joins sessions and waiting list: who is let in takes a place in the game.  `told` is
history: the place each client was told and when it was asked to come back.  A premium
client that joins moves the others down, and so their `told`.

`Roster` is the list of players in the game.  `Party`, `Chat`, `Trade`, `Market` and
`House` extend it, each with its own variables, handlers (guarded by `online`, as
`getPlayerByID`) and a log-in and a log-out part.  `Town` composes them: `Next` takes
a step of one and leaves the others unchanged, and `Login` and `Logout` are
conjunctions of the parts.  The parts meet only there, so a behaviour plays a
`scene`, chosen in `Init`: only the parts of the scene take steps, and the states
are a sum over the scenes rather than a product.
- In `Party` the handlers that call one another are functions of the three variables
  taken together, so a leave that passes the leadership, removes the player and
  disbands is one step, as in the code.  `Trade` puts players on a line whose origin
  is the tile with the items.  What a container holds, however deep, is the least set
  closed under "lies in" (`Nested`).  When the second accepts, both items go over,
  neither, or the first alone: the code does not ask whether the second move succeeded.
- `Chat` keeps the channel of a party by the address of the Party, as the code does.
- `Market` has each player's purse twice, in memory and in the database; offers hold
  the gold or goods put into them.  `minted` is a history variable: what came from
  nowhere (see the disagreements) less the fees.
- `House` has the owner in memory and at once in the database, and everything else
  in the database as of the last save.  Windows, dialogs and deeds are requests
  whose answer comes in a later step, when the house may have changed hands.
- `Decay` has the items that decay, the list of those that have just begun, the four
  buckets and the releases that are due, each list as a count per item, because an
  item can be listed twice.  A tick is the 250 ms between two visits.

`Creatures` has one record per creature, and its handlers are functions from a world
to a world, because they call one another deep down: a death removes the creature,
which makes every monster that sees it drop it from its lists, which may drop the
last reference to another creature, whose destructor orphans its summons.  A visit
of one creature by `checkCreatures` is a step, with the visits yet to come in
`todo`, so that what a visit adds or removes is there for the next.  The module
uses recursive operators for this and has no theorems.

`Conditions` has one player as a record: the list of its conditions, the sums that
conditions, items and mount add to, what it wears and which slots are in force, its
default, current and shown outfit, and the delayed tasks.  The handlers are functions
from a character to a character, in the order of the code: adding a condition starts
it or merges it with the one that has its type, id and subId, and then may remove
another one or dismount.  An item that turns into another kind when it is put on is
taken off and put on by the transformation in the middle of `EquipItem`; one that turns
when it is taken off has already turned when `DeEquipItem` takes away what it gave, and
takes what the other kind gives: `left` is a ledger of what stays behind.  A change of
outfit changes the mount first and may be refused the look after that (`refused`).  A handler that walks over the list is a function of how far it
has come.  `World` puts creatures and conditions side by side, as
scenes of one run, and gives the scenes their spells, items and mounts.

`Cylinders` has one world of items, as a record: where each is, how many units it
has, what each container believes to weigh and what the player believes to carry.
A move is what `internalMoveItem` does: destinations are asked until a cylinder
names itself, then room and capacity, then both ends change, then the player is told.
A stack that is split takes the name of a free item.  `Belongings` lays the items on
the tile and chooses the scene; the player moves any of them anywhere, and scripts
give, take, use up, change, pay and charge.

`Tiles` has some tiles and what is derived from them: the view of each client, the
flags, the browsing containers with their references.  Its handlers are functions
from a world to a world, in the order of the code, because the position that is sent
to a client is computed before some changes and after others.  `Watchers` are clients
of players who stand elsewhere: one sees hidden creatures, one does not, and one sees
only one of the tiles.  What stacks joins the pile it meets, also behind a teleport, and
the pile of two is full.  An item that is freed while a container still lists it makes
the world `dangling`, and the behaviour stops there.  `Belongings` takes a tile scene or
one of `Cylinders`.

## What the runs check

Every run is `tlc -config <cfg> <module>`; sizes are distinct states.

| run | module | shows | instance |
| --- | --- | --- | --- |
| Scheduler | Scheduler | NoLostWakeup, StoppedNeverFires, TimerSpec (refinement), EventsLeaveQueue | 2 events, 2 callers, delays 0 and 1, clock to 2; 63 thousand |
| SchedulerShutdown | Scheduler | ThreadEnds is **violated** | 1 event, 1 caller |
| Tasks | Tasks | BackTasksInOrder, EachQueryOnce, TasksLeaveList, QueriesRun | see `Tasks.cfg`: tasks of packets and timers, queries with and without callback, to the exit |
| Lifecycle | GameLifecycle | ShutdownSaves, ClosedIsClosed, ShutdownIsFinal, ShutdownExits | 2 players, one always let in, 2 requests waiting; 386 thousand |
| SessionLeak | Session | NoLeakedPlayer is **violated** | 2 sessions |
| Network | Network | GracefulCloseSendsAll, PacketsInOrder, SilentClientIsCut, BufferIsSent | one client followed from buffer to wire, a second that comes and goes |
| Logins | Logins | LinksAgree, RefsCounted, PlacesAreKept | scenes `sessions` (3 sessions, 2 characters) and `queue` (4 clients, 2 of them premium, 1 place, clock to 3); 987 thousand |
| WaitingListStale | WaitingList | StaleIsDropped is **violated** | 3 clients, clock to 4 |
| World | World | RefsCounted, PointersAgree, DeadAreChecked, BonusesAgree, AppearanceAgrees | scene `creatures` (1 player, 2 monsters, 2 places, 2 visits to come) and four of one player's conditions; 1.6 million |
| Town | Town | NobodyRefersToTheGone, PartyAgrees, ChatAgrees, TradeAgrees, Accounted, InsideAreInvited, BedsAgree, ItemsCounted, OfferStands, DecayKeepsTime | 3 players in eight scenes; 457 thousand |
| Belongings | Belongings | ItemsAgree, Conserved, ClientAgrees, FlagsAgree, BrowseAgrees, NeverOverburdened | 2 containers of 2 places, 4 other items, stacks of 2, in four scenes; 2 tiles, 3 items, 3 creatures, 3 watchers, 2 who browse, in four; 92 thousand |
| HouseLists | Town | OwnerlessHasNoLists is **violated** | scene `listsSaved` |

`CHECK_DEADLOCK FALSE` is in every configuration: the server stops when it is shut
down, a connection when it is destroyed, and the bounded clocks and histories end.

### Bounds

- Tasks, events, queries, messages: each is added once, and two or three are enough
  for one to be in a thread's hands while another is queued and a third comes.
- `MaxId`, `MaxTime` (Scheduler): ids up to the number of events and a clock one
  beyond the longest delay.  `Wraps` says whether `lastEventId` may wrap: in the
  code it takes 2^32 events, and what the properties say of ids is said of the time
  before.
- `MaxQueue` (GameLifecycle): two requests wait while one runs, which is enough for
  a login behind a close and a state change behind a shutdown.
- Three sessions: one that has the character, one that waits for its delayed
  connect, and one more that takes it over.
- `queue`: clients wait in both lists, come back in time, late or never, and are pushed
  down by premium clients that come later; the second place (`FarSlot`) asks for a longer
  wait than the first; the clock goes on for longer than the longest of these waits,
  so that entries become stale while others are kept.  Who has premium time is a
  constant, as the account is not read again while one waits.
- `MaxReads`, `MaxPackets`, `MaxEvents`: packets a client sends, packets written
  for a protocol, send-all events at once.
- Logins: `FarSlot`, `ShortRetry`, `LongRetry` and `Slack` are the slots and
  seconds of `getTime` and `getTimeout` in ticks; `SizeMod` stands for 2^64 and is
  larger than any size the lists can have.
- Belongings: a container that holds two and a stack of two make every case (full,
  half full, empty) reachable in a few steps; two containers may hold one another or
  both be worn.  Four loose items allow two hands, a spare and a stack to split.
  The capacity of each scene lets the player carry all but the last things it
  could pick up.  `Most` bounds what scripts give.
  The scenes of tiles: `MaxShown` is 4 where the code has 10, so that two tiles and six
  things reach the case that a tile has more than is shown.  `crowd` has items that
  are on top, that move and that teleport, and creatures that come, walk, hide and go;
  `things` every kind that is replaced, refused or turned, on a tile with a ground that
  changes; `piles` two stacks, or a stack and a crate, on both sides of a teleport, with
  or without a trash holder; `browsed` two players, one of whom also opens the tile from a
  container and logs out once.
- World: two monsters are a master and its summon, or two that hunt one player;
  `MaxRound` and `MaxDue` bound the visits still to come (of several only in a round
  that starts with nothing due for release) and, at a teleport, the entries of one
  creature in the release list.  The scenes of conditions: two hastes of different
  value and a paralysis with a pair of boots; two spells that hide or change the look,
  one of them for ever, with two items that hide; an outfit and a haste with two
  mounts; two values of one attribute and another subId, one of which disables the
  defence, with two items that suppress the same.  The boots turn into others when they
  are taken off, one ring turns when it is put on, and turns back when it is taken off.
  `MaxLeaks` bounds how often an item turns as it is taken off in one session, and
  `MaxDelayed` the tasks that wait for the end of a step.
- Town, by scene.  `Crowd` bounds who is in the game at once:
  three in `parties`, `trades` and `lists`, two in `chat`, `market` and `beds`, one
  in `restarts`; three players in all, so that somebody is always away, or enters.
  - parties, trades: three are one leader and two members, or two traders and one who
    interferes; two addresses let a player be invited twice and a party be made
    where one has died; three bags may hold one another three deep.  The places 0, 2 and 3
    are next to the items, near the partner only, and out of reach.
  - chat: two slots for private channels, one guild, two party addresses.
  - market: two offers of one or two pieces; `MaxMinted` ends the searches for old
    offers once something was paid twice, so that the purses stay small.
  - lists, beds, restarts: one house with two beds; `MaxWarnings` stands for the
    seven warnings before a house is lost.
  - decay: one item at a time, and the one it turns into; kinds that switch, that stop
    and go on, that become another object; durations of one to three rounds, with
    every rest an item may be loaded with; one kind whose mark stays when it has become
    another that never ends.  `MaxListed` ends the uses of an item that is in the lists
    twice.  Three addresses are enough: no state of the run has all of them in use at
    the end of a round.

### Fairness

Safety properties are checked of `Init /\ [][Next]_vars`.  For liveness:

- a thread that can take a step of its loop takes it, a task and a query return,
  and a call in progress completes (its unlock, its notify): `WF` of the thread's
  actions and of `Notify`.  No fairness is given to callers: nobody has to add
  anything.
- the clock goes on and a timer that is waiting expires (Scheduler, Connection).
- operations on a socket that is broken or closed are aborted; nothing makes a
  peer send or receive.
- in GameLifecycle, the game thread goes on, the death timer of the services fires, main
  goes on as soon as the thread it joins has ended, and a thread that was told to end and
  got the notify ends.  Nobody has to press the key, and nothing wakes a thread that
  missed its notify.

### Disagreements found

- `scheduler.cpp:27`: the state is tested before the lock is taken, and `shutdown`
  notifies once.  If that falls between the test and the wait, the thread sleeps
  for ever and `join` in `otserv.cpp` does not return.  `databasetasks.cpp:37` has
  the same loop; the dispatcher has not, because its last task runs on the thread
  itself.
- `protocolgame.cpp:180`: a delayed connect looks only at whether its `Connection`
  has been destroyed, but `release` may have run while the object is still alive
  (a graceful close with a write in flight): the player is linked to a session that
  nobody will release.
- `waitlist.cpp:49`: an unsigned difference is compared with `<= 0`, so an entry
  whose time has passed is dropped only at the very millisecond.
- `house.cpp:80`: the access lists are cleaned in memory when a house changes hands,
  and reach the database with the next save only, while the new owner is there at
  once.  After a crash in between the house has the lists of the owner before, and
  buying it does not clean them, because it had no owner.

Each is a run whose property TLC refutes, and a finding in `PROJECT.json` with the
comment of the code that says otherwise.

What the model also shows, where no comment or document says how it should be:

- `iomarket.cpp:131`: an expired offer is paid with the amount it had when the
  database thread read it; what was accepted in between is paid twice.
  `Accounted` counts it in `minted`.
- `house.cpp:383`: a deed is transferred without asking whether its maker still owns
  the house or its receiver has got another one.
- `house.cpp:757`: rent warnings are counted per start of the server, though the
  letter speaks of days, and paying does not reset them.
- `game.cpp:5536`: the dialog of a bed may be answered from anywhere and by one who is
  no longer invited; the player is put on the bed for a moment.
- `game.cpp:1083`: an exchange of a stack for an item asks whether some of the stack
  has room in the container, then puts all of it there as one more item, so that a
  container may hold more than its capacity.
- `player.cpp:2650`: the search for a place counts the free places of a container
  without the items it passes over (the one that is moved, the one that is offered
  in a trade), and subtracts sizes without sign: a full container may be the answer.
- `game.cpp:1267`: the rest of a stack that was merged in part is added in a call of
  its own; when that is refused, which happens because `queryMaxCount` counts room in
  a container that `queryDestination` does not search, callers of the short form
  (`addMoney`) lose the rest, and the player is not told of the part, so that its
  weight is behind until the next change.  `Conserved` counts it in `lost`.
- `game.cpp:1101`: when the item asked for is refused after the exchange, the other
  stays where it was put.
- `item.cpp:273`: an item that is used while it decays, and changes into a kind that
  decays, is marked as not decaying though it is still in a bucket; `startDecay` lists
  it once more.  It then ages twice as fast, and each use adds an entry, until one
  of the visits removes it.  `DecayKeepsTime` is said of items that are listed once.
- `party.cpp:111`: the pointer to the party is cleared before the channel is looked up
  by it, so who leaves a party goes on hearing its channel, and that of the next
  party made at the same address, until it logs out.
- `condition.cpp:343`: a condition that disables the defence enables it when it is
  cast again before its end, because the merge ends and starts the attributes without
  `disableDefense`; and it is saved without it.
- `condition.cpp:126`: a condition that lasts for ever and is cast again ends, for
  `hasCondition`, a millisecond ago, and yet stays.
- `condition.cpp:1503`: the end of one of two outfit conditions shows the default
  outfit though the other goes on.
- `player.cpp:3310`: haste and paralysis replace each other only when `hasCondition` finds
  the other: one whose time is over, but has not been visited yet, can be renewed and
  both stay.  In the same way a player whose outfit condition is over but still there
  can mount; a renewal then hides the mount and leaves its speed.
- `player.cpp:4164`: suppressions are a set of bits, not counted: of two items that
  suppress the same condition, taking off one ends the effect of both.
- `game.cpp:5497`: a paralysis that was to be removed after a step takes with it any
  that was cast since.
- `player.h:791`: a creature other than a player that hides is taken off the client's
  tile, but the tile is not sent again: if it had more than ten things, the client misses
  the last until something leaves the tile.  `ClientAgrees` leaves these out (`behind`).
- `tile.cpp:405`: whether an updated item was and is movable is asked after its id has
  changed, so the answers are the same; an item that is no longer movable stays in the
  container of who browses the tile, and may be freed there; one that has become movable
  is not put into it (`stuck`, `missed`, `dangling`).
- `player.cpp:56`: a player that is freed keeps the references to the containers it
  had open: the container of a browsed tile then lives for ever (`leaked`).
- `tile.cpp:1582`: when one of two magic fields, teleports or trash holders is removed,
  the flag of the tile goes though the other is still there.
- `movement.cpp:602`: an item that becomes another when it is taken off is transformed
  first, and then what the other one gives is taken away: the player keeps the speed, the
  skill, the suppressions and the conditions of the first until it logs out.
  `BonusesAgree` counts them in `left`.
- `game.cpp:3255`: a player on a mount that sends an outfit it may not wear, without a
  mount, is dismounted before the outfit is refused, and is still shown on the mount.
  `AppearanceAgrees` allows this until the next change (`refused`).
- `protocolgame.cpp:80`: a login task that runs between the kicks of a shutdown and
  `Game::shutdown` is let in, because only `CLOSING` and `CLOSED` are turned away; nobody
  kicks or saves the player (`late`).  And a player whose `savePlayer` has failed three
  times leaves all the same (`failed`).
- `game.cpp:2682`: the result of the second move of a trade is not asked for; when it
  fails, one side gives and gets nothing.
- `player.cpp:4705`: `setGuild` to a guild without a rank of level 1 returns before it
  leaves the old guild, which then lists a player it will not hear of again.  No
  script of the data pack calls it, and it is not modelled.

## What is proved

Eight modules hold the theorems; `tlapm <module>.tla` checks each.  Only the main
theorems are named here: `PROJECT.json` lists which of the runs' properties each one
states.

`ServerProofs`, on `Scheduler` (any sets of events and callers, any delays):

- `TypeCorrect`, `NeverFiresEarly`, `NoWakeupLost`, `SingleOwner`,
  `StoppedStaysStopped`, `ActiveIdsAreQueued`, and `ImplementsTimerService`: every
  step of the threaded queue is a step of `TimerService` or none.
- Assumptions: `SchedulerAssumption` on the constants; the theorems about ids and
  the refinement also assume `~Wraps`.
- The argument has three layers, each inductive relative to the one before.
  `TimerTyped` adds to the types that the thread holds a task exactly in its
  hand-over step.  `TimeInv` adds `DeadlineCovers`: a deadline the thread sleeps on
  is never earlier than the top of the queue, without which nothing is known of
  the task that is popped after other threads have changed the queue.  `IdInv` adds
  that ids were issued once each (`IdsIssued`) and that a queued task has lost its
  id exactly when it was stopped (`StoppedMatches`).

`ServerProofs`, on `GameLifecycle` (any players, any script states, any queue length):

- `LifecycleTypeCorrect`, `ShutdownIsSaved`, `CloseKeepsOut`, `ShutdownIsForGood`.
- `ShutdownSaves` needs, before and after the kicks, that who has left unsaved has failed
  (`LeftUnsavedFailed`), and after them that only late players are in the game
  (`OnlyLateOnline`).
- `ClosedIsClosed` speaks of the time after the kicks and is not inductive: the
  strengthening `KickedOrKicking` says that in a closed game either the kicks are
  still going on or nobody is left whom they would take, also during the save that
  follows; `PhaseOfTask` says that only a state change or a save has these phases,
  so that no other task can end them.

`TasksProofs` (any tasks, queries and calling threads):

- `BackTasksRunInOrder` and `QueriesRunOnce`.
- The order of the tasks pushed at the back must be said of more than what has run:
  of what has run before the task in hand, and of that before what is still in the
  list (`InOrder`), also while the thread has taken a task and not started it, and a
  task is given once (`Mem(back) \subseteq Known`).
- A query is in one place: in the list, with the database thread, with the game
  thread that flushes, or done (`OnePlace`); and every query that was accepted is in
  one of them (`Found`).  Two threads pop the same list, so that neither half is
  inductive without the other.

`SessionProofs` (any sessions, characters and clients):

- `LoginsLinked`, `LoginsCounted`, and `LoginsKeepSessions`: every step of `Logins` is
  one of `Session` or none for its variables.
- `LinksAgree` needs `LoginsAreNew` (a session logs in with its first message only, so
  that a log-in never meets a session that has a player) and `OneAtATime` (who waits
  for a delayed connect has no player; an object that was not created has no client).
  The counts need that an object in the game has no release due.


`ServerProofs`, on `Network` (any client, any number of reads, packets and events):

- `ConnectionTypeCorrect`, `GracefulCloseFinishes`, `PacketsStayInOrder`.
- `SentFirst`: what was accepted is what was written followed by the queue, until an
  error cuts it.  `ClosedWhenDone` and `ReleasedOnClose` say that only an error closes
  the socket over a queue that is not empty, and that a protocol is released by the
  close of an open connection only.
- For the packets, `NothingYet` and `GivenInOrder` say the same one floor up: what the game
  wrote is what the connection was given followed by the buffer, as long as the connection
  takes anything.  Messages are lists of packets, so the proof needs what flattening a
  list of lists does (`DataInduction`).

`DealingsProofs` has what each operation of parties, trades and the market does to its
invariant, and `TownProofs` the same for houses, channels, guilds and what decays,
then the log-ins, log-outs and restarts of all of them (any players, parties, guilds,
items, containers, houses, beds, offers and kinds).  The theorems are in `TownProofs`:

- `TownInvariant`, from which `PartiesAgree`, `TradesAgree`, `OffersStand`,
  `ChannelsAgree`, `GuestsAreInvited`, `SleepersInTheirBeds` and `NobodyMeetsTheGone`
  follow.  Its parts:
  - parties: of the three variables taken together, a leader is no member, nobody is
    twice in a list, a party without a leader is gone (`Sound`), and party and player
    know each other (`Linked`).  Handlers call one another in the middle of a change, so
    there is a weaker form for a party that is being disbanded (`Ending`).  The
    invitations of different parties do not touch, so that clearing all of a player's is
    one step.
  - trades: each side's partner, state and item fit (`Sides`), what two trades offer is
    apart (`Apart`), containers have no loops, partners are near each other and offers near
    their owners (`InReach`), without which a bag that moves might carry an offered item.
    Neither the number of containers nor how deep they hold one another is bounded:
    `Nested` is the least closed set, so what is in a container is shown to be in every
    closed set that the proof names, and what a move changes follows from that
    (from `NestedLeast` to `NestedRemoved`).
  - houses: `InsideAreInvited` and `BedsAgree` are inductive as they stand, once the types
    are known.
  - channels and guilds: whoever one of them lists is in the game (`PrivatesInv`,
    `GroupsInv`); deeds are between two that are in the game (`DeedsArePresent`).
  - `TradeIdle` and `PartyIdle`: restarts are in scenes in which nobody trades or is in a
    party.
- `NothingIsLost`: `Accounted`, with its own invariant `LedgerInv`: the purses are
  natural numbers, the accounts balance, and in scenes without a market memory and
  database agree (`MarketIdle`), so that a restart loses nothing.  Assumptions: players
  and offers are finite sets (their ids have 32 bits), `None` is no offer.
  `processExpiredOffers` pays an unbounded list: the proof is an induction on the part
  that was paid.
- `ItemsAreCounted`: `ItemsCounted`, with its own invariant `DecayInv`: the counts, that
  an address with references is in use, that nothing is listed more than `MaxListed`
  times, and that the mark of an item can be trusted also when it has become a kind
  that keeps its time (`Trusted`), because it may decay on when it is used again.  A
  round of `checkDecay` visits the entries one by one: after each, an item has as many
  references as it is listed elsewhere, stays in the bucket, and has entries to come
  (`RoundSound`).  Assumptions: finitely many addresses, which do not run out in the
  middle of a round, and `KindsAssumption`, what `items.xml` has of kinds that keep
  their time: without it a mark could be left over from a kind that does not decay, as
  it is for item 8273 (see `ItemsCounted`).

`TilesProofs`, on `Tiles` (any tiles, items, creatures, watchers and players, and every item
and every tile in play at once, which no scene of the run has):

- `FlagsAreRight` and `BrowsingIsRight`, from one invariant of a world, `TileInv`:
  - an item lies on one tile at most, once (`PlacesOK`), with a kind that fits the half of
    the list it is in (`KindsOK`): without the first, taking an item out would leave it
    elsewhere, without the second a movable item could be missing from the container;
  - the flags are those of the items and the ground (`FlagsOK`);
  - a container is referred to as often as the timer, those who have it open and those who
    logged out with it say (`RefsOK`): sets of references, so the proof counts with finite
    sets, and what a player gives up when it walks away is counted by a bijection;
  - per item of a browsed tile, whether the container lists it, and whose child it is
    (`ListsOK`).  This is said only until an item dangles; `BrowseAgrees` has the same
    exception.
- The handlers are functions from a world to a world that nest (a coin that is put on a
  teleport may update a pile, go on and be trashed).  Each change of one or two fields has
  a lemma that says what it leaves, up to the fields no part of the invariant reads
  (`Alike`), then a lemma that it keeps `TileInv`; the handlers follow by composition.
- Assumption: `TilesAssumption` (tiles and players are finite sets, `NoItem` is neither an
  item nor a tile), which the run evaluates for its own constants.

`ConditionsProofs`, on `Conditions` (any items, mounts, spells and looks, all of them in play
at once, and any number of delayed tasks):

- `BonusesAddUp` and `AppearanceIsRight`, from one invariant of a character, `CharInv`, whose
  parts differ in when they hold:
  - `Base` is kept by every single step of every handler.  It has that no key is in the list
    twice and that a condition with the id of a slot is what an item makes (`Sound`), without
    which the item's own would merge with another; that what is in force is worn
    (`InForceOK`); that speed and skills are the sums over conditions, items and mount
    (`SumsOK`); that a disabled defence has its cause (`DefenceOK`); and how the player looks
    (`LooksOK`).  The delayed and the stored conditions are part of `Sound`: they come back
    later.
  - `GearOK`, that the conditions of items are exactly those of the items in force, is broken
    while an item is put on or taken off, when the sums are already right and the conditions
    follow one by one, and holds again at the end of the handler.
- Handlers that walk over a list while they end or add conditions (a dispel, a visit, a death,
  a log-in) are loops: functions of the number of turns.  `TurnsExist` says that such a
  function has a value after every turn, and the invariant is then carried from turn to turn.
- Assumptions: `ConditionsAssumption` (0 is no mount, what is given can be added up), and that
  no spell makes a condition with the id of a slot (`IsSpell`): in the code only
  `updateAbilityConditions` does.  `World` evaluates both for its scenes (`ScenesFit`), and
  what its scenes do is part of `ConditionsNext`.
- Condition types that no handler treats in a way of its own are one here, that of
  regeneration (`Types`).

`DataInduction` has the inductions these proofs need.  The library's induction theorems
take an operator as a parameter, which the provers cannot instantiate; here the property
is a set: a set of numbers that has 0 and with each number the next has all of them
(`Counting`), and a set of sets that has each set of whose smaller parts it has all
(`SetInduction`).  From the first follow the facts about flattened lists; from the second,
that a fold over a finite set is defined, has a type and unfolds element by element
(`FoldExists`, `FoldsAgree`), and that sums over finite sets are integers, do not depend on
the order, and change by what one element changes (`SumAnyOrder`, `SumChanges`, `SumOfAll`).

TLC checked the inductive invariants before they were proved: those of the town, the market
and decay on the run Town, those of the sessions on Logins, of the tasks on Tasks, of the
connection and the packets on Network, of the tiles on the scenes of Belongings that
are about tiles, and of the conditions on World.

What is model-checked only:

- liveness under fairness (EventsLeaveQueue, ThreadEnds, ShutdownExits, TasksLeaveList,
  QueriesRun, SilentClientIsCut, BufferIsSent), which the provers do not reason about.
- `DecayKeepsTime`: its invariant would relate the phase of the buckets to the age of each
  item, for items that are listed once.
- `Creatures` and `Cylinders` with their properties (`RefsCounted` of World, `PointersAgree`,
  `DeadAreChecked`, `ItemsAgree`, `Conserved`, `NeverOverburdened`): their handlers are
  recursive operators, of which nothing can be proved.
- `ClientAgrees` of `Tiles` and `PlacesAreKept` of `WaitingList`: what a client shows is
  filtered from the list of creatures by a condition, and what is left of a waiting list by
  another; the facts about such filters take an operator as a parameter.

## What is not modelled, and why

- Persistence (`iologindata`, `iomap`, `database`): sequences of queries; failures
  of the database are noted as hazards.
- Lua glue (`luascript.cpp`) and the scripts of `src/data`: calls of functions
  modelled elsewhere, or content.  A script is a task that may set the game state
  (GameLifecycle) or a veto (Trade).  The party events are disabled in
  `data/events/events.xml` and answer true.
- Encodings (RSA, XTEA, network messages, file formats), tables read at start-up,
  damage formulas: data, not control.
- In Party: shared experience and parties made by scripts.  In Trade: capacity and
  line of sight (any refusal is allowed), stacks of items.  In Chat: public
  channels, who may speak, messages.  In House: doors, items and their way to the
  depot, guilds and patterns in lists.  In Market: statistics, history, browsing.
  In Cylinders: what a tile or a house refuses, slots other than the four, item
  attributes, locked or unlimited containers, scripts that veto, items
  that become others when equipped, crystal coins.
  In Tiles: `queryAdd` of a tile for creatures (scripts put them anywhere), what hangs on
  walls, the view of the players who stand on the tile, beds, depots, mailboxes and changes
  of floor with their flags, and the flag IMMOVABLEBLOCKPATH, which `tile.cpp` resets but
  never sets.
  In Decay: charges and stacks of items that are transformed, and the save of what is left;
  the bucket for 875 to 999 ms (`game.cpp:4461`), because durations are whole seconds.
  In Market: queries that fail, after which an expired offer is deleted and not paid
  (`iomarket.cpp:135`, `142`).
- In Creatures: amounts of damage, spells, paths, respawn timers.
- In Conditions: damage over time, light, the ticks of regeneration, what is told to
  the client; percentages, which are computed anew when an item is taken off; the skill
  that an item gives by vocation (`player.cpp:4058`): who is promoted while it is worn
  loses another skill than it was given.
- In Connection: the catch clauses for `system_error`.  What they guard reports its errors
  to the handlers and throws nothing.
- In GameLifecycle: start-up and SIGHUP.

## Plan

Modules to come, most important first, each with a run that replaces or extends
one of those above where they overlap:

1. `Walking`: automatic walks and the actions that wait for them.
2. `Spawn` and `Raids` on top of `Creatures`: respawn timers, the map of spawned
   monsters, clean-up.
3. Depots, inboxes and mailboxes as further cylinders of `Cylinders`.
4. `ServicePort` and start-up.
5. An abstract ledger that `Market` implements, with a mapping that counts what
   offers hold.

Theorems worth proving next: those of `Cylinders` and `Creatures`, once their recursive
operators are written as recursive functions.
