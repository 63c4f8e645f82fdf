------------------------------- MODULE Tiles -------------------------------
(***************************************************************************)
(* A tile (tile.cpp): its ground, the items that are always on top, the    *)
(* creatures, newest first, and the other items, newest first.  Three      *)
(* things are derived from it and kept beside it.  The client of every     *)
(* player who sees the tile has a copy of the first MaxShown things the    *)
(* player may see, and is told only where something was added, changed or  *)
(* removed.  The tile has flags for the properties of its items.  And who  *)
(* browses the tile looks into a container that shares the items with it.  *)
(*                                                                         *)
(* The handlers are functions from a world s to a world.  Who watches      *)
(* stands elsewhere.  What the client does with a message is external.     *)
(***************************************************************************)
EXTENDS Integers, Sequences, FiniteSets, SequencesExt

CONSTANTS
  Squares,    \* tiles, all next to each other
  Beyond,     \* the one where teleports lead
  Items,      \* items that may lie there; grounds have no name
  Creatures,
  Watchers, Seers, Far,  \* who watches; who of them sees the hidden; who sees only Beyond
  Browsers,   \* players who browse
  MaxShown,   \* the 10 of the code
  NoItem

VARIABLE tile  \* the world: see Bare

Field == "field"  \* the parent of an item that the browsing container owns
Nowhere == -1     \* a stack position the client does not have
Extra == 0        \* the id of the container that a player had opened before

\* Kinds of items.
Grounds == {"floor", "rock"}
TopKinds == {"blood", "mud", "border", "open", "closed"}
Order(k) == CASE k = "border" -> 1 [] k \in {"blood", "mud"} -> 2 [] OTHER -> 3
Splashes == {"blood", "mud"}
Fields == {"fire", "wall"}
Replaceable == {"fire"}
Movables == {"coin", "coins", "crate"}
Piles == {"coin", "coins"}
Solids == {"rock", "closed", "crate", "statue", "wall"}
PathBlocks == {"rock", "closed", "crate", "statue", "wall", "fire"}
TypeOf(k) ==
  CASE k \in Fields -> "field" [] k \in {"open", "closed"} -> "door"
    [] k = "bin" -> "trash" [] k = "portal" -> "teleport" [] OTHER -> "none"

HasProperty(k, p) ==
  CASE p = "BLOCKSOLID" -> k \in Solids
    [] p = "IMMOVABLEBLOCKSOLID" -> k \in Solids \ Movables
    [] p = "BLOCKPATH" -> k \in PathBlocks
    [] p = "NOFIELDBLOCKPATH" -> k \in PathBlocks \ Fields
    [] p = "IMMOVABLENOFIELDBLOCKPATH" -> k \in PathBlocks \ (Fields \cup Movables)
Properties ==
  {"BLOCKSOLID", "IMMOVABLEBLOCKSOLID", "BLOCKPATH", "NOFIELDBLOCKPATH", "IMMOVABLENOFIELDBLOCKPATH"}
PropertiesOf(k) == {p \in Properties : HasProperty(k, p)}
Special(k) ==
  CASE k \in Fields -> {"MAGICFIELD"} [] k = "bin" -> {"TRASHHOLDER"}
    [] k = "portal" -> {"TELEPORT"} [] OTHER -> {}

\* browsed: tiles in browseFields; list: what their containers hold, refs: the
\* references to them; timer: decreaseBrowseFieldRef is scheduled; opened:
\* openContainers.  History: behind, see Vanish; missed, stuck, see UpdateThing;
\* leaked, see Logout; dangling, see Unbrowsed.
Bare ==
  [ground |-> [t \in Squares |-> "floor"],
   top |-> [t \in Squares |-> <<>>], down |-> [t \in Squares |-> <<>>],
   crowd |-> [t \in Squares |-> <<>>],
   kind |-> [i \in Items |-> "none"], parent |-> [i \in Items |-> NoItem],
   hidden |-> {}, flags |-> [t \in Squares |-> {}],
   view |-> [w \in Watchers |-> [t \in Squares |-> <<"floor">>]],
   browsed |-> {}, list |-> [t \in Squares |-> <<>>],
   refs |-> [t \in Squares |-> 0], timer |-> {},
   opened |-> [b \in Browsers |-> [n \in Squares \cup {Extra} |-> NoItem]],
   behind |-> {}, missed |-> {}, stuck |-> {},
   leaked |-> [t \in Squares |-> 0], dangling |-> FALSE]

Elems(seq) == {seq[p] : p \in DOMAIN seq}
Without(seq, x) == RemoveFirst(seq, x)
Kinds(s, seq) == [p \in DOMAIN seq |-> s.kind[seq[p]]]
IndexIn(seq, x) == CHOOSE p \in DOMAIN seq : seq[p] = x
On(s, t) == Elems(s.top[t]) \cup Elems(s.down[t])
GroundCount(s, t) == IF s.ground[t] = "none" THEN 0 ELSE 1
Below(s, t) == GroundCount(s, t) + Len(s.top[t])  \* things under the creatures
ThingCount(s, t) == Below(s, t) + Len(s.crowd[t]) + Len(s.down[t])
-----------------------------------------------------------------------------
(* What a client is shown, and what it makes of a message.                 *)

Sees(w, t) == w \in Far => t = Beyond
CanSee(s, w, c) == c \in s.hidden => w \in Seers
InView(s, w, seq) == SelectSeq(seq, LAMBDA c : CanSee(s, w, c))

Full(s, w, t) ==
  (IF s.ground[t] = "none" THEN <<>> ELSE <<s.ground[t]>>)
    \o Kinds(s, s.top[t]) \o Reverse(InView(s, w, s.crowd[t])) \o Kinds(s, s.down[t])
Truncated(v) == SubSeq(v, 1, IF Len(v) < MaxShown THEN Len(v) ELSE MaxShown)
TileDescription(s, w, t) == Truncated(Full(s, w, t))

\* Positions count from 0.
OrNowhere(n) == IF n >= MaxShown THEN Nowhere ELSE n
ClientIndexOfCreature(s, w, t, c) ==
  Below(s, t)
    + Len(InView(s, w, SubSeq(s.crowd[t], IndexIn(s.crowd[t], c) + 1, Len(s.crowd[t]))))
StackposOfCreature(s, w, t, c) == OrNowhere(ClientIndexOfCreature(s, w, t, c))
StackposOfItem(s, w, t, i) ==
  OrNowhere(IF i \in Elems(s.top[t])
            THEN GroundCount(s, t) + IndexIn(s.top[t], i) - 1
            ELSE Below(s, t) + Len(InView(s, w, s.crowd[t])) + IndexIn(s.down[t], i) - 1)

ClientAdds(v, n, x) == IF n = Nowhere THEN v
                       ELSE Truncated(InsertAt(v, IF n < Len(v) THEN n + 1 ELSE Len(v) + 1, x))
ClientUpdates(v, n, x) == IF n \in 0..(Len(v) - 1) THEN [v EXCEPT ![n + 1] = x] ELSE v
ClientRemoves(v, n) == IF n \in 0..(Len(v) - 1) THEN RemoveAt(v, n + 1) ELSE v
Lower(v) == SelectSeq(v, LAMBDA x : x \in Grounds \cup TopKinds \cup Creatures)
ClientMovesIn(v, c) == ClientAdds(v, Len(Lower(v)), c)

Told(s, t, v) ==
  [s EXCEPT !.view = [w \in Watchers |->
                        [@[w] EXCEPT ![t] = IF Sees(w, t) THEN v[w] ELSE @]]]
View(s, w, t) == s.view[w][t]
SentTile(s, t) ==
  [Told(s, t, [w \in Watchers |-> TileDescription(s, w, t)])
     EXCEPT !.behind = {x \in @ : x[2] # t}]
SentUpdate(s, t, i) ==
  Told(s, t, [w \in Watchers |->
                ClientUpdates(View(s, w, t), StackposOfItem(s, w, t, i), s.kind[i])])
-----------------------------------------------------------------------------
(* The flags.                                                              *)

OtherProperties(s, t, i) ==
  (IF s.ground[t] = "none" THEN {} ELSE PropertiesOf(s.ground[t]))
    \cup UNION {PropertiesOf(s.kind[j]) : j \in On(s, t) \ {i}}
\* Not here: what supports what hangs, beds, mailboxes, depots and the change of floor,
\* whose flags stand for kinds left out; and IMMOVABLEBLOCKPATH, which the code resets
\* but never sets.
SetTileFlags(s, t, k) == [s EXCEPT !.flags[t] = @ \cup PropertiesOf(k) \cup Special(k)]
\* Mutant: the other items are not asked.
ResetTileFlags_alone(s, t, i, k) ==
  [s EXCEPT !.flags[t] = (@ \ PropertiesOf(k)) \ Special(k)]
ResetTileFlags(s, t, i, k) ==
  [s EXCEPT !.flags[t] = (@ \ (PropertiesOf(k) \ OtherProperties(s, t, i))) \ Special(k)]
-----------------------------------------------------------------------------
(* The container of who browses.                                           *)

Listed(s, t, i) == t \in s.browsed /\ i \in Elems(s.list[t])
Browsed(s, t, i) ==
  IF t \in s.browsed /\ s.kind[i] \in Movables
  THEN [s EXCEPT !.list[t] = Append(@, i)] ELSE s
Rebrowsed(s, t, old, new) ==
  IF s.kind[new] \in Movables
  THEN IF Listed(s, t, old)
       THEN [s EXCEPT !.list[t][IndexIn(s.list[t], old)] = new,
                      !.parent[old] = NoItem, !.parent[new] = t]
       ELSE s
  ELSE IF s.kind[old] \in Movables THEN [s EXCEPT !.list[t] = Without(@, old)] ELSE s

\* An item that is not taken out, since it is no longer movable, is freed while
\* the container still holds it: nothing is said of what follows.
Unbrowsed(s, t, i) ==
  IF s.kind[i] \in Movables THEN [s EXCEPT !.list[t] = Without(@, i), !.missed = @ \ {i}]
  ELSE [s EXCEPT !.dangling = @ \/ Listed(s, t, i)]
-----------------------------------------------------------------------------
(* The changes a tile makes.                                               *)

\* Mutant: only a tile that still has too much is sent again.
PostRemove_late(s, t) == IF ThingCount(s, t) > MaxShown THEN SentTile(s, t) ELSE s
PostRemove(s, t) == IF ThingCount(s, t) > MaxShown - 2 THEN SentTile(s, t) ELSE s

OnAddTileItem(s, t, i) ==
  Told(SetTileFlags(Browsed(s, t, i), t, s.kind[i]), t,
       [w \in Watchers |-> ClientAdds(View(s, w, t), StackposOfItem(s, w, t, i), s.kind[i])])

Erased(s, t, i) ==
  [s EXCEPT !.top[t] = Without(@, i), !.down[t] = Without(@, i), !.parent[i] = NoItem]
OnRemoveTileItem(s, t, i, old) ==
  Told(ResetTileFlags(Unbrowsed(s, t, i), t, i, s.kind[i]), t,
       [w \in Watchers |-> ClientRemoves(View(s, w, t), old[w])])
RemoveThing(s, t, i) ==
  OnRemoveTileItem(Erased(s, t, i), t, i, [w \in Watchers |-> StackposOfItem(s, w, t, i)])

\* Freed once removed.
Released(s, i) == [s EXCEPT !.kind[i] = "none"]
Dropped(s, t, i) == Released(PostRemove(RemoveThing(s, t, i), t), i)

TopPlaces(s, t, k) == {p \in DOMAIN s.top[t] : Order(k) <= Order(s.kind[s.top[t][p]])}
InsertedTop(s, t, i, ps) ==
  [s EXCEPT !.top[t] = IF ps = {} THEN Append(@, i)
                       ELSE InsertAt(@, CHOOSE p \in ps : \A q \in ps : p <= q, i),
            !.parent[i] = t]
FirstOf(s, seq, ks) == SelectInSeq(seq, LAMBDA j : s.kind[j] \in ks)

PutTop(s, t, i) == OnAddTileItem(InsertedTop(s, t, i, TopPlaces(s, t, s.kind[i])), t, i)
OldSplash(s, t) == FirstOf(s, s.top[t], Splashes)
AddTop(s, t, i) ==
  IF s.kind[i] \in Splashes /\ OldSplash(s, t) > 0
  THEN PutTop(Dropped(s, t, s.top[t][OldSplash(s, t)]), t, i)
  ELSE PutTop(s, t, i)

PutDown(s, t, i) ==
  OnAddTileItem([s EXCEPT !.down[t] = <<i>> \o @, !.parent[i] = t], t, i)
OldField(s, t) == FirstOf(s, s.down[t], Fields)
AddField(s, t, i) ==
  IF OldField(s, t) = 0 THEN PutDown(s, t, i)
  ELSE IF s.kind[s.down[t][OldField(s, t)]] \in Replaceable
  THEN PutDown(Dropped(s, t, s.down[t][OldField(s, t)]), t, i)
  ELSE Released([s EXCEPT !.parent[i] = NoItem], i)

AddThing(s, t, i) ==
  IF s.kind[i] \in TopKinds THEN AddTop(s, t, i)
  ELSE IF s.kind[i] \in Fields THEN AddField(s, t, i)
  ELSE PutDown(s, t, i)

\* The two items of onUpdateTileItem are one here: it is asked what it was only
\* after it has changed.
OnUpdateTileItem(s, t, old, new) == SentUpdate(Rebrowsed(s, t, old, new), t, new)
Mark(s, t, i, k) ==
  [s EXCEPT !.stuck = IF k \in Movables THEN @ \ {i}
                      ELSE IF Listed(s, t, i) THEN @ \cup {i} ELSE @,
            !.missed = IF k \notin Movables THEN @ \ {i}
                       ELSE IF t \in s.browsed /\ ~Listed(s, t, i) THEN @ \cup {i} ELSE @]
Renamed(s, i, k) == [s EXCEPT !.kind[i] = k]
UpdateThing(s, t, i, k) ==
  OnUpdateTileItem(
    SetTileFlags(Renamed(ResetTileFlags(Mark(s, t, i, k), t, i, s.kind[i]), i, k), t, k), t, i, i)

Swap(seq, i, j) == [p \in DOMAIN seq |-> IF seq[p] = i THEN j ELSE seq[p]]
Swapped(s, t, i, j) ==
  [s EXCEPT !.top[t] = Swap(@, i, j), !.down[t] = Swap(@, i, j), !.parent[j] = t]
NewlyMovable(s, t, i, j) ==
  IF t \in s.browsed /\ s.kind[j] \in Movables /\ ~Listed(s, t, i) THEN {j} ELSE {}
Orphaned(s, t, i) ==
  [s EXCEPT !.parent[i] = NoItem, !.missed = @ \ {i}, !.stuck = @ \ {i},
            !.dangling = @ \/ Listed(s, t, i)]
ReplaceThing(s, t, i, j) ==
  Orphaned(OnUpdateTileItem(
    SetTileFlags(ResetTileFlags(
      [Swapped(s, t, i, j) EXCEPT !.missed = @ \cup NewlyMovable(s, t, i, j)],
      t, i, s.kind[i]), t, s.kind[j]), t, i, j), t, i)
-----------------------------------------------------------------------------
(* What comes to a tile may go on at once.                                 *)

Trash(s, t, i) ==
  IF "TRASHHOLDER" \in s.flags[t] /\ i \in On(s, t) /\ s.kind[i] \in Movables
  THEN Dropped(s, t, i) ELSE s

Carried(s, from, to, c) ==
  [s EXCEPT !.crowd = [@ EXCEPT ![from] = Without(@, c), ![to] = <<c>> \o Without(@, c)]]
Jumps(s, to, force) == force \/ s.ground[to] = "none"

\* sendMoveCreature to one client: n is where the creature was, m where it is.
LeftView(s, w, from, n) == ClientRemoves(View(s, w, from), OrNowhere(n))
CameView(s, w, from, to, c, n, m, jumps) ==
  IF ~Sees(w, from) \/ jumps \/ n >= MaxShown THEN ClientAdds(View(s, w, to), m, c)
  ELSE ClientMovesIn(View(s, w, to), c)
MoveSeen(s, z, from, to, c, jumps) ==
  Told(Told(z, from, [w \in Watchers |->
         IF CanSee(s, w, c) THEN LeftView(s, w, from, ClientIndexOfCreature(s, w, from, c))
         ELSE View(s, w, from)]), to,
       [w \in Watchers |->
         IF CanSee(s, w, c)
         THEN CameView(s, w, from, to, c, ClientIndexOfCreature(s, w, from, c),
                       StackposOfCreature(z, w, to, c), jumps)
         ELSE View(s, w, to)])
Moved(s, from, to, c, force) ==
  PostRemove(MoveSeen(s, Carried(s, from, to, c), from, to, c, Jumps(s, to, force)), from)
MoveCreature(s, from, to, c, force) ==
  IF "TELEPORT" \in s.flags[to] /\ to # Beyond
  THEN Moved(Moved(s, from, to, c, force), to, Beyond, c, FALSE)
  ELSE Moved(s, from, to, c, force)

\* queryAdd of a tile for an item, but for what hangs on walls.
Accepts(s, t, k) ==
  /\ s.ground[t] \in Grounds \ Solids
  /\ k \in Solids => Elems(s.crowd[t]) \subseteq s.hidden
  /\ \A i \in On(s, t) : s.kind[i] \in Solids => k \in Piles /\ s.kind[i] = "crate"
Movable(s, to, i) == s.kind[i] \in Movables /\ Accepts(s, to, s.kind[i])

\* What stacks joins the pile on top, and the pile of two is full; what the pile
\* does not take lies on it.
Joins(s, t, i) ==
  s.kind[i] \in Piles /\ s.down[t] # <<>> /\ s.kind[s.down[t][1]] \in Piles
Pile(s, t, i) == IF Joins(s, t, i) THEN s.down[t][1] ELSE i
Vanishes(s, t, i) == Joins(s, t, i) /\ s.kind[i] = "coin" /\ s.kind[s.down[t][1]] = "coin"
Rest(s, t, i) == IF s.kind[i] = s.kind[s.down[t][1]] THEN s.kind[i] ELSE "coin"
Stacked(s, t, i) ==
  IF ~Joins(s, t, i) THEN AddThing(s, t, i)
  ELSE IF Vanishes(s, t, i) THEN Released(UpdateThing(s, t, s.down[t][1], "coins"), i)
  ELSE AddThing(Renamed(UpdateThing(s, t, s.down[t][1], "coins"), i, Rest(s, t, i)), t, i)
Carry(s, from, to, i) == PostRemove(Stacked(RemoveThing(s, from, i), to, i), from)

\* Both are told of: the item that moved and the pile it met.
PostAdd(s, t, i) ==
  IF "TELEPORT" \notin s.flags[t] \/ t = Beyond THEN Trash(s, t, i)
  ELSE IF Movable(s, Beyond, i)
  THEN Trash(Trash(Carry(s, t, Beyond, i), Beyond, i), Beyond, Pile(s, Beyond, i))
  ELSE s
Arrived(s, t, i) == IF i \in On(s, t) THEN PostAdd(s, t, i) ELSE s
MoveItem(s, from, to, i) ==
  IF Movable(s, to, i)
  THEN Arrived(Arrived(Carry(s, from, to, i), to, i), to, Pile(s, to, i)) ELSE s
AddItem(s, t, i) ==
  Arrived(Stacked(s, t, i), t, IF Vanishes(s, t, i) THEN Pile(s, t, i) ELSE i)

\* Only a part of a pile is taken.
TakePart(s, t, i) == OnUpdateTileItem(Renamed(s, i, "coin"), t, i, i)

OnTop(k) == k \in TopKinds
Transform(s, t, i, j, k) ==
  IF OnTop(s.kind[i]) # OnTop(k)
  THEN Arrived(AddThing(Renamed(PostRemove(RemoveThing(s, t, i), t), i, k), t, i), t, i)
  ELSE IF TypeOf(s.kind[i]) = TypeOf(k)
  THEN PostAdd(UpdateThing(PostRemove(s, t), t, i, k), t, i)
  ELSE Released(PostRemove(PostAdd(ReplaceThing(Renamed(s, j, k), t, i, j), t, j), t), i)

ChangeGround(s, t, k) ==
  IF s.ground[t] = "none"
  THEN Told(SetTileFlags([s EXCEPT !.ground[t] = k], t, k), t,
            [w \in Watchers |-> ClientAdds(View(s, w, t), 0, k)])
  ELSE PostRemove(
         Told(SetTileFlags(ResetTileFlags([s EXCEPT !.ground[t] = k], t, NoItem, s.ground[t]), t, k),
              t, [w \in Watchers |-> ClientUpdates(View(s, w, t), 0, k)]), t)
RemoveGround(s, t) ==
  PostRemove(Told(ResetTileFlags([s EXCEPT !.ground[t] = "none"], t, NoItem, s.ground[t]), t,
                  [w \in Watchers |-> ClientRemoves(View(s, w, t), 0)]), t)
-----------------------------------------------------------------------------
(* Creatures come, go, hide and show themselves.                           *)

Placed(s, t, c) == [s EXCEPT !.crowd[t] = <<c>> \o @]
AppearSeen(z, t, c) ==
  Told(z, t, [w \in Watchers |-> ClientAdds(View(z, w, t), StackposOfCreature(z, w, t, c), c)])
Place(s, t, c) ==
  IF "TELEPORT" \in s.flags[t] /\ t # Beyond
  THEN Moved(AppearSeen(Placed(s, t, c), t, c), t, Beyond, c, FALSE)
  ELSE AppearSeen(Placed(s, t, c), t, c)

RemoveCreature(s, t, c) ==
  PostRemove(
    Told([s EXCEPT !.crowd[t] = Without(@, c), !.hidden = @ \ {c}], t,
         [w \in Watchers |-> IF CanSee(s, w, c)
                             THEN ClientRemoves(View(s, w, t), StackposOfCreature(s, w, t, c))
                             ELSE View(s, w, t)]), t)

\* The tile is not sent again: a client that had more to show does not get it.
Vanish(s, t, c) ==
  [Told([s EXCEPT !.hidden = @ \cup {c}], t,
        [w \in Watchers |-> IF w \in Seers THEN View(s, w, t)
                            ELSE ClientRemoves(View(s, w, t), StackposOfCreature(s, w, t, c))])
     EXCEPT !.behind = @ \cup {x \in (Watchers \ Seers) \X {t} :
                                 Sees(x[1], t) /\ Len(Full(s, x[1], t)) > MaxShown}]
Unveil(s, t, c) == [s EXCEPT !.hidden = @ \ {c}]
Reappear(s, t, c) ==
  Told(Unveil(s, t, c), t,
       [w \in Watchers |-> IF w \in Seers THEN View(s, w, t)
                           ELSE ClientAdds(View(s, w, t), StackposOfCreature(s, w, t, c), c)])
-----------------------------------------------------------------------------
(* Browsing.                                                               *)

Owner(s, t, is, x) == [s EXCEPT !.parent = [i \in Items |-> IF i \in is THEN x ELSE @[i]]]
\* Each movable item is put before those found so far.
MovablesOn(s, t) ==
  LET found[n \in 0..Len(s.down[t])] ==
        IF n = 0 THEN <<>>
        ELSE IF s.kind[s.down[t][n]] \in Movables THEN <<s.down[t][n]>> \o found[n - 1]
        ELSE found[n - 1]
  IN found[Len(s.down[t])]
NewField(s, t) ==
  [Owner(s, t, Elems(MovablesOn(s, t)), Field)
     EXCEPT !.browsed = @ \cup {t}, !.timer = @ \cup {t}, !.refs[t] = 1,
            !.list[t] = MovablesOn(s, t)]
FieldOf(s, t) == IF t \in s.browsed THEN s ELSE NewField(s, t)

\* n references go; ~Container, when the last one does.
Unreferenced(s, t, n) ==
  IF s.refs[t] > n THEN [s EXCEPT !.refs[t] = @ - n]
  ELSE [Owner(s, t, Elems(s.list[t]), t)
          EXCEPT !.browsed = @ \ {t}, !.refs[t] = 0, !.list[t] = <<>>,
                 !.missed = @ \ On(s, t), !.stuck = @ \ On(s, t)]

OldClosed(s, old) == IF old = NoItem THEN s ELSE Unreferenced(s, old, 1)
\* Mutant: the old one is given up before the new one is held.
AddContainer_late(s, b, n, t) ==
  [OldClosed(s, s.opened[b][n]) EXCEPT !.refs[t] = @ + 1, !.opened[b][n] = t]
AddContainer(s, b, n, t) ==
  [OldClosed([s EXCEPT !.refs[t] = @ + 1], s.opened[b][n]) EXCEPT !.opened[b][n] = t]
CloseContainer(s, b, n) ==
  IF s.opened[b][n] = NoItem THEN s
  ELSE Unreferenced([s EXCEPT !.opened[b][n] = NoItem], s.opened[b][n], 1)
BrowseField(s, b, t) ==
  IF s.opened[b][t] # NoItem THEN CloseContainer(FieldOf(s, t), b, t)
  ELSE AddContainer(FieldOf(s, t), b, t, t)
Opens(s, b, t) == Cardinality({n \in DOMAIN s.opened[b] : s.opened[b][n] = t})
CloseAll(s, b, t) ==
  Unreferenced([s EXCEPT !.opened[b] = [n \in DOMAIN @ |-> IF @[n] = t THEN NoItem ELSE @[n]]],
               t, Opens(s, b, t))
\* A player who is freed keeps the references it has.
Logout(s, b) ==
  [s EXCEPT !.opened[b] = [n \in DOMAIN @ |-> NoItem],
            !.leaked = [t \in Squares |-> @[t] + Opens(s, b, t)]]
-----------------------------------------------------------------------------
(* The handlers as actions.                                                *)

Free == {i \in Items : tile.kind[i] = "none"}
Fresh == CHOOSE i \in Free : TRUE
Named(k) == [tile EXCEPT !.kind[Fresh] = k]
Site(i) == CHOOSE t \in Squares : i \in On(tile, t)
Lies(i) == \E t \in Squares : i \in On(tile, t)
Suits(t, k) == k = "portal" => t # Beyond
Becomes(z) == ~tile.dangling /\ tile' = z

PutItem(t, k) == Free # {} /\ Suits(t, k) /\ Becomes(AddItem(Named(k), t, Fresh))
TakeItem(i) == Lies(i) /\ Becomes(Dropped(tile, Site(i), i))
TakeCoin(i) == Lies(i) /\ tile.kind[i] = "coins" /\ Becomes(TakePart(tile, Site(i), i))
\* The whole of it.
ThrowItem(i, t) ==
  /\ Lies(i) /\ Site(i) # t
  /\ Becomes(MoveItem(tile, Site(i), t, i))
TransformItem(i, k) ==
  /\ Lies(i) /\ k # tile.kind[i] /\ Free # {} /\ Suits(Site(i), k)
  /\ Becomes(Transform(tile, Site(i), i, Fresh, k))
NewGround(t, k) == k # tile.ground[t] /\ Becomes(ChangeGround(tile, t, k))
DigGround(t) == tile.ground[t] # "none" /\ Becomes(RemoveGround(tile, t))

Standing(c, t) == c \in Elems(tile.crowd[t])
Appear(c, t) == (\A u \in Squares : ~Standing(c, u)) /\ Becomes(Place(tile, t, c))
Disappear(c, t) == Standing(c, t) /\ Becomes(RemoveCreature(tile, t, c))
Walk(c, from, to, force) ==
  from # to /\ Standing(c, from) /\ Becomes(MoveCreature(tile, from, to, c, force))
Hide(c, t) == Standing(c, t) /\ c \notin tile.hidden /\ Becomes(Vanish(tile, t, c))
Show(c, t) == Standing(c, t) /\ c \in tile.hidden /\ Becomes(Reappear(tile, t, c))

Browse(b, t) == Becomes(BrowseField(tile, b, t))
\* From a container that lies on t and is open as Extra.
MoveUp(b, t) == Becomes(AddContainer(FieldOf(tile, t), b, Extra, t))
Close(b, n) == tile.opened[b][n] # NoItem /\ Becomes(CloseContainer(tile, b, n))
WalkAway(b, t) == Opens(tile, b, t) > 0 /\ Becomes(CloseAll(tile, b, t))
LogOut(b) == (\E t \in Squares : Opens(tile, b, t) > 0) /\ Becomes(Logout(tile, b))
BrowseTimer(t) ==
  t \in tile.timer /\ Becomes(Unreferenced([tile EXCEPT !.timer = @ \ {t}], t, 1))
-----------------------------------------------------------------------------
(* The tiles of a map on their own, with every item and every tile in play. *)

ItemKinds == TopKinds \cup Fields \cup Movables \cup {"statue", "bin", "portal"}

TilesAssumption ==
  /\ Beyond \in Squares /\ NoItem \notin Squares \cup Items
  /\ IsFiniteSet(Squares) /\ IsFiniteSet(Browsers)

TilesNext ==
  \/ \E t \in Squares, k \in ItemKinds : PutItem(t, k)
  \/ \E i \in Items : TakeItem(i) \/ TakeCoin(i)
  \/ \E i \in Items, t \in Squares : ThrowItem(i, t)
  \/ \E i \in Items, k \in ItemKinds : TransformItem(i, k)
  \/ \E t \in Squares : DigGround(t) \/ \E k \in Grounds : NewGround(t, k)
  \/ \E c \in Creatures, t \in Squares : Appear(c, t) \/ Disappear(c, t)
  \/ \E c \in Creatures, from, to \in Squares, force \in BOOLEAN : Walk(c, from, to, force)
  \/ \E c \in Creatures, t \in Squares : Hide(c, t) \/ Show(c, t)
  \/ \E b \in Browsers, t \in Squares : Browse(b, t) \/ MoveUp(b, t) \/ WalkAway(b, t)
  \/ \E b \in Browsers, n \in Squares \cup {Extra} : Close(b, n)
  \/ \E b \in Browsers : LogOut(b)
  \/ \E t \in Squares : BrowseTimer(t)
TilesSpec == tile = Bare /\ [][TilesNext]_tile
-----------------------------------------------------------------------------
(* A client that sees the tile shows what the server would describe to it; *)
(* the positions it is given are computed before or after the change.  The *)
(* exception is a creature that hides where there is more than is shown:   *)
(* that client is behind, but only until something leaves such a tile.     *)
ClientAgrees ==
  \A w \in Watchers, t \in Squares : Sees(w, t) =>
    IF <<w, t>> \in tile.behind THEN ThingCount(tile, t) > MaxShown
    ELSE View(tile, w, t) = TileDescription(tile, w, t)

(* The cached flags say what the items of the tile are like; a flag for a  *)
(* teleport, a trash holder or a field is set only where there is one.     *)
FlagsAgree ==
  \A t \in Squares :
    /\ tile.flags[t] \cap Properties = OtherProperties(tile, t, NoItem)
    /\ tile.flags[t] \ Properties \subseteq UNION {Special(tile.kind[i]) : i \in On(tile, t)}

(* A browsed tile and its container hold the same movable items, each with *)
(* one of the two as its parent, through every way an item comes, goes and *)
(* changes; and the container lives exactly as long as somebody or the     *)
(* timer refers to it, or somebody who logged out did.  The exceptions are *)
(* items that became movable, or were updated to be immovable, meanwhile.  *)
BrowseAgrees ==
  ~tile.dangling =>
    /\ \A t \in Squares :
         /\ t \in tile.browsed <=> tile.refs[t] > 0
         /\ tile.refs[t] = (IF t \in tile.timer THEN 1 ELSE 0) + tile.leaked[t]
                             + Cardinality({x \in Browsers \X (Squares \cup {Extra}) :
                                              tile.opened[x[1]][x[2]] = t})
         /\ Len(tile.list[t]) = Cardinality(Elems(tile.list[t]))
         /\ t \in tile.browsed =>
              Elems(tile.list[t]) \ tile.stuck
                = {i \in On(tile, t) : tile.kind[i] \in Movables} \ tile.missed
    /\ \A i \in Items :
         IF Lies(i)
         THEN tile.parent[i] \in {Site(i)}
                \cup (IF Listed(tile, Site(i), i) THEN {Field} ELSE {})
         ELSE tile.parent[i] = NoItem
=============================================================================
