----------------------------- MODULE Creatures -----------------------------
(***************************************************************************)
(* Players and monsters in the world (game.cpp, creature.cpp, monster.cpp) *)
(* and the raw pointers between them: whom a creature attacks and follows, *)
(* its master and its summons, the targets and friends a monster keeps,    *)
(* the list of creatures that are checked every second, and the reference  *)
(* counter that the last four share.                                       *)
(*                                                                         *)
(* Everything runs on the game thread: a task is a step, and so is the     *)
(* visit of one creature by checkCreatures.  The handlers are functions    *)
(* from a world w to a world.  Creatures see each other when they are at   *)
(* the same place.                                                         *)
(***************************************************************************)
EXTENDS Integers, FiniteSets, FiniteSetsExt, TLC

Seqs == INSTANCE SequencesExt

CONSTANTS
  Players,
  Monsters,
  Chasers,   \* the players that follow what they attack (chaseMode)
  Places,
  Nowhere,
  MaxDue,    \* bound: entries of one creature in ToReleaseCreatures at a teleport
  MaxRound,  \* bound: creatures still to be visited in a round
  None

ASSUME CreaturesAssumption ==
  /\ Chasers \subseteq Players
  /\ Players \cap Monsters = {} /\ None \notin Players \cup Monsters
  /\ Nowhere \notin Places /\ MaxDue \in Nat /\ MaxRound \in Nat

Creatures == Players \cup Monsters

VARIABLES
  world,  \* per creature: see Unborn
  todo    \* the creatures checkCreatures has yet to visit in this round

creatureVars == <<world, todo>>

\* st: none (no object), in (in the game), removed; due: its entries in
\* ToReleaseCreatures; check and listed: creatureCheck, inCheckCreaturesVector.
Unborn ==
  [st |-> "none", place |-> Nowhere, alive |-> TRUE, master |-> None, summons |-> {},
   targets |-> {}, friends |-> {}, attacked |-> None, follow |-> None,
   idle |-> TRUE, check |-> FALSE, listed |-> FALSE, refs |-> 0, due |-> 0]

CreaturesInit == world = [c \in Creatures |-> Unborn] /\ todo = {}

Exists(w, c) == w[c].st # "none"
InGame(w, c) == w[c].st = "in"
Sees(w, c, d) == w[c].place = w[d].place
Spectators(w, places) == {c \in Creatures : InGame(w, c) /\ w[c].place \in places}
-----------------------------------------------------------------------------
(* References.                                                             *)

Ref(w, c) == [w EXCEPT ![c].refs = @ + 1]

RECURSIVE Unref(_, _), SetAttacked(_, _, _)
UnrefAll(w, s) == FoldSet(LAMBDA c, v : Unref(v, c), w, s)
UnrefBoth(w, s, t) == Seqs!FoldLeft(UnrefAll, w, <<s, t>>)

Freed(w, s) == IF w[s].master = None THEN w ELSE Unref([w EXCEPT ![s].master = None], s)

\* ~Monster, then ~Creature.
Destroy(w, c) ==
  LET gone == [w EXCEPT ![c] = Unborn]
      listsCleared == UnrefBoth(gone, w[c].targets, w[c].friends)
  IN FoldSet(LAMBDA s, v : Freed(SetAttacked(v, s, None), s), listsCleared, w[c].summons)

Unref(w, c) ==
  IF w[c].refs = 1 THEN Destroy(w, c) ELSE [w EXCEPT ![c].refs = @ - 1]

\* Creature::setFollowCreature: a creature out of sight is refused.
SetFollowing(w, c, t) == [w EXCEPT ![c].follow = IF t = None \/ Sees(w, c, t) THEN t ELSE None]

Chase(w, c, t) ==
  IF c \in Monsters THEN w
  ELSE SetFollowing(w, c, IF c \in Chasers THEN t ELSE None)

\* Creature::setAttackedCreature and Player's: a target out of sight is refused,
\* and what the master attacks its summons attack.
SetAttacked(w, c, t) ==
  IF t # None /\ ~Sees(w, c, t)
  THEN [w EXCEPT ![c].attacked = None]
  ELSE LET own == [w EXCEPT ![c].attacked = t]
       IN Chase(FoldSet(LAMBDA s, v : SetAttacked(v, s, t), own, w[c].summons), c, t)

Unfollow(w, c, x) == IF w[c].follow = x THEN SetFollowing(w, c, None) ELSE w

\* Creature::onCreatureDisappear
Forget(w, c, x) == Unfollow(IF w[c].attacked = x THEN SetAttacked(w, c, None) ELSE w, c, x)

\* Mutant: the old master keeps the summon.
SetMaster_keep(w, c, m) ==
  LET linked == IF m = None THEN w ELSE Ref([w EXCEPT ![m].summons = @ \cup {c}], c)
  IN IF w[c].master = None THEN [linked EXCEPT ![c].master = m]
                           ELSE Unref([linked EXCEPT ![c].master = m], c)

\* Creature::setMaster: the new link counts one reference, the old gives one back.
SetMaster(w, c, m) ==
  LET old == w[c].master
      linked == IF m = None THEN w ELSE Ref([w EXCEPT ![m].summons = @ \cup {c}], c)
      set == [linked EXCEPT ![c].master = m]
  IN IF old # None /\ c \in set[old].summons
     THEN Unref([set EXCEPT ![old].summons = IF old = m THEN @ ELSE @ \ {c}], c) ELSE set
-----------------------------------------------------------------------------
(* The check list.                                                         *)

AddCheck(w, c) ==
  IF w[c].listed THEN [w EXCEPT ![c].check = TRUE]
                 ELSE Ref([w EXCEPT ![c].check = TRUE, ![c].listed = TRUE], c)
RemoveCheck(w, c) == [w EXCEPT ![c].check = @ /\ ~w[c].listed]

(* A monster's targets and friends.                                        *)

IsFriend(w, m, c) ==
  IF w[m].master \in Players
  THEN w[m].master = IF c \in Players THEN c ELSE w[c].master
  ELSE c \in Monsters /\ w[c].master = None

IsOpponent(w, m, c) ==
  IF w[m].master \in Players THEN c # w[m].master
                             ELSE c \in Players \/ w[c].master \in Players

AddFriend(w, m, c) ==
  IF c \in w[m].friends THEN w ELSE Ref([w EXCEPT ![m].friends = @ \cup {c}], c)
AddTarget(w, m, c) ==
  IF c \in w[m].targets THEN w ELSE Ref([w EXCEPT ![m].targets = @ \cup {c}], c)
RemoveFriend(w, m, c) ==
  IF c \in w[m].friends THEN Unref([w EXCEPT ![m].friends = @ \ {c}], c) ELSE w

\* Mutant: the reference of a target is not given back.
RemoveTarget_leak(w, m, c) == [w EXCEPT ![m].targets = @ \ {c}]
RemoveTarget(w, m, c) ==
  IF c \in w[m].targets THEN Unref([w EXCEPT ![m].targets = @ \ {c}], c) ELSE w
ClearLists(w, m) ==
  UnrefBoth([w EXCEPT ![m].targets = {}, ![m].friends = {}], w[m].targets, w[m].friends)

SetIdle(w, m, idle) ==
  CASE w[m].st = "removed" \/ ~w[m].alive -> w
    [] idle  -> RemoveCheck(ClearLists([w EXCEPT ![m].idle = TRUE], m), m)
    [] OTHER -> AddCheck([w EXCEPT ![m].idle = FALSE], m)

UpdateIdleStatus(w, m) == SetIdle(w, m, w[m].master = None /\ w[m].targets = {})

\* onCreatureFound, also for onCreatureEnter.
Found(w, m, c) ==
  LET befriended == IF IsFriend(w, m, c) THEN AddFriend(w, m, c) ELSE w
  IN UpdateIdleStatus(IF IsOpponent(w, m, c) THEN AddTarget(befriended, m, c) ELSE befriended, m)

IdleIfAlone(w, m) == IF w[m].targets = {} THEN UpdateIdleStatus(w, m) ELSE w

\* onCreatureLeave
Leaves(w, m, c) ==
  LET Unfriended(v) == IF IsFriend(w, m, c) THEN RemoveFriend(v, m, c) ELSE v
      Untargeted(v) == IF IsOpponent(w, m, c) THEN IdleIfAlone(RemoveTarget(v, m, c), m) ELSE v
  IN Untargeted(Unfriended(w))

UpdateTargetList(w, m) ==
  LET Lost(c) == ~w[c].alive \/ ~Sees(w, m, c)
      exFriends == {c \in w[m].friends : Lost(c)}
      exTargets == {c \in w[m].targets : Lost(c)}
      pruned == UnrefBoth([w EXCEPT ![m].friends = @ \ exFriends, ![m].targets = @ \ exTargets],
                          exFriends, exTargets)
      around == Spectators(w, {w[m].place}) \ {m}
  IN FoldSet(LAMBDA c, v : Found(v, m, c), pruned, around)

\* isTarget and selectTarget, for a hostile monster on ordinary ground.
SelectTarget(w, m, t) ==
  IF t \in w[m].targets /\ InGame(w, t)
  THEN SetFollowing(SetAttacked(w, m, t), m, t) ELSE w
-----------------------------------------------------------------------------
(* What the creatures around are told.                                     *)

LeaveMaster(w, c) ==
  IF w[c].master # None /\ w[w[c].master].st # "removed" THEN SetMaster(w, c, None) ELSE w

\* onRemoveCreature of s, after Creature has forgotten c.
RemovalSeen(w, s, c) ==
  CASE s # c /\ s \in Monsters -> Leaves(w, s, c)
    [] s # c /\ s \in Players  -> w
    [] s \in Monsters          -> SetIdle(LeaveMaster(w, c), c, TRUE)
    [] OTHER                   -> LeaveMaster(w, c)

\* Game::removeCreature.  The spectators are a hash set: those in early are told
\* before the creature itself.  Then its summons are removed.
RECURSIVE RemoveCreature(_, _, _)
RemoveSummons(w, c, early) == FoldSet(LAMBDA s, v : RemoveCreature(v, s, early), w, w[c].summons)

RemoveCreature(w, c, early) ==
  LET around == Spectators(w, {w[c].place}) \ {c}
      Tell(s, v) == RemovalSeen(Forget(v, s, c), s, c)
      TellAll(v, group) == FoldSet(Tell, v, group)
      told == Seqs!FoldLeft(TellAll, w, <<around \cap early, {c}, around \ early>>)
      out == RemoveCheck([told EXCEPT ![c].st = "removed", ![c].due = @ + 1], c)
  IN IF InGame(w, c) THEN RemoveSummons(out, c, early) ELSE w

\* onCreatureAppear of s.
Appears(w, s, c) ==
  CASE s \in Players -> w
    [] s = c         -> UpdateIdleStatus(UpdateTargetList(w, c), c)
    [] OTHER         -> Found(w, s, c)

\* Tile::postAddNotification keeps the creature until the next cleanup.
Held(w, c) == Ref([w EXCEPT ![c].due = @ + 1], c)

\* internalPlaceCreature, and placeCreature, which tells everybody.
PlaceSilently(w, c, p) ==
  Ref([w EXCEPT ![c] = [Unborn EXCEPT !.st = "in", !.place = p]], c)
Place(w, c, p) ==
  LET placed == PlaceSilently(w, c, p)
  IN AddCheck(Held(FoldSet(LAMBDA s, v : Appears(v, s, c), placed, Spectators(placed, {p})), c), c)

\* onCreatureMove of s: the part of Creature, then that of Monster.  One that has
\* been carried over 30 tiles away loses the summons it left behind.
DespawnFar(w, c, early) ==
  FoldSet(LAMBDA s, v : RemoveCreature(v, s, early), w, {s \in w[c].summons : ~Sees(w, s, c)})

LoseSight(w, s, c) ==
  LET Hidden(x, v) == x # None /\ c \in {s, x} /\ ~Sees(v, s, x)
      LoseQuarry(v) == IF Hidden(v[s].follow, v) THEN Forget(v, s, v[s].follow) ELSE v
      LosePrey(v) == IF Hidden(v[s].attacked, v) THEN Forget(v, s, v[s].attacked) ELSE v
  IN LosePrey(LoseQuarry(w))

Meet(w, s, c, from) ==
  CASE Sees(w, s, c) /\ w[s].place # from  -> Found(w, s, c)
    [] ~Sees(w, s, c) /\ w[s].place = from -> Leaves(w, s, c)
    [] OTHER                               -> w

Notice(w, s, c) ==
  IF w[s].master = None /\ w[s].follow = None /\ IsOpponent(w, s, c)
  THEN SelectTarget(w, s, c) ELSE w

MonsterMoveSeen(w, s, c, from) ==
  CASE s \in Players -> w
    [] s = c         -> UpdateIdleStatus(UpdateTargetList(w, c), c)
    [] OTHER         -> Notice(UpdateIdleStatus(Meet(w, s, c, from), s), s, c)
MoveSeen(w, s, c, from, far, early) ==
  LET left == IF s = c /\ far THEN DespawnFar(w, c, early) ELSE w
  IN MonsterMoveSeen(LoseSight(left, s, c), s, c, from)

\* Map::moveCreature
Move(w, c, p, far, early) ==
  LET moved == [w EXCEPT ![c].place = p]
      around == Spectators(moved, {w[c].place, p})
  IN Held(FoldSet(LAMBDA s, v : MoveSeen(v, s, c, w[c].place, far, early), moved, around), c)

\* Game::cleanup
RECURSIVE Cleanup(_)
Cleanup(w) ==
  LET owed == {c \in Creatures : w[c].due > 0}
  IN IF owed = {} THEN w
     ELSE LET c == CHOOSE c \in owed : TRUE
          IN Cleanup(Unref([w EXCEPT ![c].due = @ - 1], c))

\* Damage that kills: Monster::changeHealth wakes the monster first, so that
\* checkCreatures finds it.
Wake(w, c) == SetIdle(w, c, FALSE)
\* Mutant: the monster is not woken.
Kill_asleep(w, c) == [w EXCEPT ![c].alive = FALSE]
Kill(w, c) == [(IF c \in Monsters THEN Wake(w, c) ELSE w) EXCEPT ![c].alive = FALSE]
-----------------------------------------------------------------------------
(* checkCreatures.                                                         *)

Quit(w, c) == IF w[c].master # None THEN SetMaster(w, c, None) ELSE w

\* Creature::onDeath with Monster::death or Player::death: summons die too.
Death(w, c, early) ==
  LET Doom(s, v) == Unref([Kill(v, s) EXCEPT ![s].master = None], s)
      Doomed(v) == FoldSet(Doom, v, v[c].summons)
      calm == SetAttacked(w, c, None)
      dead == IF c \in Monsters
              THEN ClearLists([Doomed(calm) EXCEPT ![c].summons = {}], c)
              ELSE [w EXCEPT ![c].alive = TRUE]
  IN RemoveCreature(Quit(dead, c), c, early)

\* A player killed by a player in a PVP zone drops no corpse: it is sent to its
\* temple at p instead.
Revive(w, c, p, early) == Move([w EXCEPT ![c].alive = TRUE], c, p, TRUE, early)

\* A summon drops a target it finds no path to (onFollowCreatureComplete).
PathLost(w, c) ==
  IF c \in Monsters /\ w[c].master # None THEN RemoveTarget(w, c, w[c].follow) ELSE w

\* Monster::onThink: whom a summon follows; a wild monster picks a target t.
Hunt(w, m, t) ==
  LET owner == w[m].master
      prey == IF owner = None THEN None ELSE w[owner].attacked
  IN CASE owner = None                       -> SelectTarget(w, m, t)
       [] w[m].attacked = None /\ prey # None -> SelectTarget(w, m, prey)
       [] w[m].attacked = None               -> SetFollowing(w, m, owner)
       [] w[m].attacked = m                  -> SetFollowing(w, m, None)
       [] OTHER                              -> SetFollowing(w, m, w[m].attacked)

\* The summon is placed before it has its master.
Summon(w, m, s) == SetMaster(Place(w, s, w[m].place), s, m)

HuntAwake(w, m, t) == IF w[m].idle THEN w ELSE Hunt(w, m, t)
Think(w, m, t) == HuntAwake(UpdateIdleStatus(w, m), m, t)

\* An entry whose creature is no longer checked leaves the list.
DropCheck(w, c) == [w EXCEPT ![c].listed = FALSE, ![c].due = @ + 1]
-----------------------------------------------------------------------------
(* Tasks.  checkCreatures is one task in several steps: nothing else runs  *)
(* while it has creatures to visit, and it ends with cleanup.              *)

Between == todo = {}
Orders == SUBSET Monsters
Does(w) == world' = w /\ UNCHANGED todo
Alive(c) == InGame(world, c) /\ world[c].alive

\* ProtocolGame::login and connect; Game::removeCreature for a logout or a kick.
Login(p, pl) == Between /\ ~Exists(world, p) /\ Does(Place(world, p, pl))
Logout(p, early) == Between /\ InGame(world, p) /\ Does(RemoveCreature(world, p, early))

\* A script creates or removes a monster; Spawns::startup places its monsters
\* silently, before anything else happens.
Create(m, pl) == Between /\ ~Exists(world, m) /\ Does(Place(world, m, pl))
Startup(m, pl) ==
  /\ Between /\ ~Exists(world, m)
  /\ \A c \in Creatures : Exists(world, c) => world[c] = [Unborn EXCEPT
                             !.st = "in", !.place = world[c].place, !.refs = 1]
  /\ Does(PlaceSilently(world, m, pl))
Delete(m, early) == Between /\ InGame(world, m) /\ Does(RemoveCreature(world, m, early))

\* A player's spell summons a new monster or convinces a wild one (addSummon).
Conjure(p, m) ==
  Between /\ Alive(p) /\ ~Exists(world, m) /\ Does(Summon(world, p, m))
Convince(p, m) ==
  /\ Between /\ Alive(p) /\ Alive(m) /\ Sees(world, p, m)
  /\ world[m].master = None /\ world[m].summons = {}
  /\ Does(SetMaster(SetFollowing(SetAttacked(world, m, None), m, None), m, p))

\* checkCreatureWalk steps and cleans up; a teleport only moves, here of a player
\* with summons, far away and soon after a cleanup (a short one is a walk).
Walk(c, pl, early) ==
  /\ Between /\ Alive(c) /\ pl # world[c].place
  /\ Does(Cleanup(Move(world, c, pl, FALSE, early)))
Teleport(p, pl, early) ==
  /\ Between /\ InGame(world, p) /\ pl # world[p].place /\ world[p].summons # {}
  /\ \A c \in Creatures : world[c].due < MaxDue
  /\ Does(Move(world, p, pl, TRUE, early))

\* A player picks a target; its spell kills somebody it sees, or a script a
\* monster that sleeps.
Attack(p, t) ==
  /\ Between /\ Alive(p) /\ InGame(world, t) /\ t # p /\ Sees(world, p, t)
  /\ Does(SetAttacked(world, p, t))
Slay(t) ==
  /\ Between /\ Alive(t)
  /\ (t \in Monsters /\ world[t].idle) \/ \E p \in Players \ {t} : Alive(p) /\ Sees(world, p, t)
  /\ Does(Kill(world, t))

\* checkDecay ends with cleanup.
Decay == Between /\ world # Cleanup(world) /\ Does(Cleanup(world))

\* One of the lists of checkCreatures; a creature listed meanwhile may get into it.
\* Bound: a round of several starts when nothing is due.
Listed(w) == {c \in Creatures : w[c].listed}
CheckCreatures ==
  /\ Between
  /\ \E k \in 1..MaxRound :
       /\ todo' \in kSubset(k, Listed(world))
       /\ k > 1 => \A c \in Creatures : world[c].due = 0
  /\ UNCHANGED world

Visited(c, w) ==
  \E more \in SUBSET (Listed(w) \ Listed(world)) :
    /\ todo' = (todo \ {c}) \cup more
    /\ Cardinality(todo') < MaxRound
    /\ world' = IF todo' = {} THEN Cleanup(w) ELSE w

CheckDropped(c) == c \in todo /\ ~world[c].check /\ Visited(c, DropCheck(world, c))
CheckDead(c, early) ==
  /\ c \in todo /\ world[c].check /\ ~world[c].alive
  /\ \/ Visited(c, Death(world, c, early))
     \/ c \in Players /\ \E pl \in Places \ {world[c].place} :
          Visited(c, Revive(world, c, pl, early))
CheckPlayer(p) ==
  /\ p \in todo /\ world[p].check /\ world[p].alive
  /\ \/ Visited(p, world)
     \/ world[p].attacked # None /\ Visited(p, Kill(world, world[p].attacked))
\* What it may do after a thought w.
Strikes(m, w) ==
  \/ Visited(m, w)
  \/ w[m].attacked # None /\ Visited(m, Kill(w, w[m].attacked))
  \/ /\ w[m].master = None /\ w[m].follow # None
     /\ \E s \in Monsters : ~Exists(w, s) /\ Visited(m, Summon(w, m, s))
CheckMonster(m) ==
  /\ m \in todo /\ world[m].check /\ world[m].alive
  /\ \E lost \in BOOLEAN, t \in world[m].targets \cup {None} :
       Strikes(m, Think(IF lost THEN PathLost(world, m) ELSE world, m, t))

CreaturesNext ==
  \/ \E p \in Players, pl \in Places : Login(p, pl)
  \/ \E m \in Monsters, pl \in Places : Create(m, pl) \/ Startup(m, pl)
  \/ \E p \in Players, m \in Monsters : Conjure(p, m) \/ Convince(p, m)
  \/ \E p \in Players, t \in Creatures : Attack(p, t)
  \/ \E t \in Creatures : Slay(t)
  \/ \E early \in Orders :
       \/ \E p \in Players : Logout(p, early)
       \/ \E m \in Monsters : Delete(m, early)
       \/ \E c \in Creatures, pl \in Places : Walk(c, pl, early)
       \/ \E p \in Players, pl \in Places : Teleport(p, pl, early)
       \/ \E c \in Creatures : CheckDead(c, early)
  \/ \E c \in Creatures : CheckDropped(c)
  \/ \E p \in Players : CheckPlayer(p)
  \/ \E m \in Monsters : CheckMonster(m)
  \/ CheckCreatures \/ Decay
-----------------------------------------------------------------------------

\* An object lives exactly as long as somebody counts on it: the world, an entry
\* of ToReleaseCreatures, the check list, the lists of the monsters, its master.
RefsCounted ==
  \A c \in Creatures :
    /\ world[c].refs =
         (IF InGame(world, c) THEN 1 ELSE 0) + world[c].due
         + (IF world[c].listed THEN 1 ELSE 0)
         + Cardinality({m \in Monsters : c \in world[m].targets})
         + Cardinality({m \in Monsters : c \in world[m].friends})
         + (IF world[c].master # None THEN 1 ELSE 0)
    /\ Exists(world, c) <=> world[c].refs > 0

\* The raw pointers are good.  What a creature in the game attacks or follows is in
\* the game, and whoever is to be visited exists.  Master and summons exist and point
\* at each other, and no creature in the game serves one that has left it.
PointersAgree ==
  /\ \A c \in Creatures : InGame(world, c) =>
       \A x \in {world[c].attacked, world[c].follow} \ {None} : InGame(world, x)
  /\ \A c \in todo : Exists(world, c)
  /\ \A c \in Creatures : Exists(world, c) =>
       /\ \A s \in world[c].summons : world[s].master = c
       /\ world[c].master # None =>
            /\ c \in world[world[c].master].summons
            /\ Exists(world, world[c].master)
            /\ InGame(world, c) => InGame(world, world[c].master)

\* Whoever has died in the game will be found by checkCreatures, and so will every
\* monster that has targets.
DeadAreChecked ==
  \A c \in Creatures : InGame(world, c) =>
    /\ ~world[c].alive => world[c].check /\ world[c].listed
    /\ world[c].targets # {} => world[c].check /\ world[c].listed
=============================================================================
