----------------------------- MODULE Cylinders -----------------------------
(***************************************************************************)
(* Where items are: on a tile, in a container, in a slot of a player.  The *)
(* three are cylinders (tile.cpp, container.cpp, player.cpp), and the game *)
(* moves, adds, removes and transforms items by asking them in turn: where *)
(* to (queryDestination), whether (queryAdd), how much (queryMaxCount),    *)
(* and only then changes both ends, with stacks split and merged on the    *)
(* way.  Every item knows its parent, every container the weight of what   *)
(* it holds, and the player the weight of what it carries.                 *)
(*                                                                         *)
(* One player next to one tile.  The handlers are functions from a world s *)
(* to a world.  A refusal is no change.                                    *)
(***************************************************************************)
EXTENDS Integers, Sequences, FiniteSets

LOCAL Seqs == INSTANCE SequencesExt
LOCAL Sets == INSTANCE FiniteSetsExt

CONSTANTS
  Bags,       \* containers
  Loose,      \* the other items
  Room,       \* capacity() of a container
  MaxStack,   \* the 100 of the code, and the gold coins of a platinum coin
  Tile, Player, NoItem

VARIABLES
  items,  \* the world: see Empty
  made    \* history: units of each kind that were given, less those taken

cylinderVars == <<items, made>>

AllItems == Bags \cup Loose
Slots == <<3, 5, 6, 10>>  \* the backpack, the right hand, the left hand, ammunition
SlotSet == {3, 5, 6, 10}
Wherever == -1
Window == 0   \* dropped on the capacity window
MoveUp == 254
Anywhere == 255

Stackables == {"arrow", "bolt", "gold", "platinum"}
TwoHanded == {"bow"}
WeaponType(k) ==
  CASE k \in {"sword", "blade", "bow"} -> "weapon" [] k = "shield" -> "shield"
    [] k \in {"arrow", "bolt"} -> "ammo" [] OTHER -> "none"
UnitWeight(k) == IF k = "none" THEN 0 ELSE IF k \in {"blade", "bow"} THEN 2 ELSE 1
Worth(k) == IF k = "gold" THEN 1 ELSE IF k = "platinum" THEN MaxStack ELSE 0
UnitName(k) == IF Worth(k) > 0 THEN "money" ELSE k
UnitsOf(k, n) == IF Worth(k) > 0 THEN n * Worth(k) ELSE n

\* total: totalWeight of a container; carried: inventoryWeight; traded: tradeItem;
\* behind, lost: history, see PartlyAdded and Lose.
Empty ==
  [kind |-> [i \in AllItems |-> IF i \in Bags THEN "bag" ELSE "none"],
   count |-> [i \in AllItems |-> 0],
   parent |-> [i \in AllItems |-> NoItem],
   list |-> [c \in Bags \cup {Tile} |-> <<>>],
   slot |-> [n \in SlotSet |-> NoItem],
   total |-> [b \in Bags |-> 0],
   carried |-> 0, capacity |-> 0, traded |-> NoItem, classic |-> FALSE,
   behind |-> FALSE, lost |-> [k \in {"money", "arrow", "bolt"} |-> 0]]

Stackable(s, i) == s.kind[i] \in Stackables
Stacks(s, i, j) == j # NoItem /\ Stackable(s, i) /\ s.kind[i] = s.kind[j]
Mates(s, i, j) == Stacks(s, i, j) /\ i # j /\ s.count[j] < MaxStack

\* The cylinders that hold cylinder c, itself included.
RECURSIVE Above(_, _)
Above(s, c) == IF c \in Bags THEN {c} \cup Above(s, s.parent[c]) ELSE {c}
Owned(s, c) == Player \in Above(s, c)

Weight(s, i) == UnitWeight(s.kind[i]) * s.count[i] + (IF i \in Bags THEN s.total[i] ELSE 0)
SlotWeight(s, n) == IF s.slot[n] = NoItem THEN 0 ELSE Weight(s, s.slot[n])
InventoryWeight(s) == SlotWeight(s, 3) + SlotWeight(s, 5) + SlotWeight(s, 6) + SlotWeight(s, 10)
-----------------------------------------------------------------------------
(* The changes a cylinder makes.                                           *)

\* Player::checkTradeState: what happens to an item in the traded container.
Touch(s, c, i) ==
  IF s.traded \in Above(s, c) \cup {i} THEN [s EXCEPT !.traded = NoItem] ELSE s

\* onRemoveContainerItem, onRemoveInventoryItem, onRemoveTileItem.
HoldsTraded(s, c, i) ==
  /\ s.traded # NoItem
  /\ IF c \in Bags THEN s.parent[s.traded] # c /\ c \in Above(s, s.traded)
                   ELSE i \in Above(s, s.traded)
TouchRemoved(s, c, i) ==
  IF HoldsTraded(s, c, i) THEN [s EXCEPT !.traded = NoItem] ELSE Touch(s, c, i)

\* Mutant: only the container itself learns of the weight.
Heavier_itself(s, c, diff) == IF c \in Bags THEN [s EXCEPT !.total[c] = @ + diff] ELSE s

\* Container::updateItemWeight, up the chain of parents.
Heavier(s, c, diff) ==
  [s EXCEPT !.total = [b \in Bags |-> s.total[b] + (IF b \in Above(s, c) THEN diff ELSE 0)]]

Released(s, i) == [s EXCEPT !.kind[i] = "none", !.count[i] = 0]

\* The item is nowhere any more.
Lose(s, i) ==
  Released(IF Stackable(s, i)
           THEN [s EXCEPT !.lost[UnitName(s.kind[i])] = @ + UnitsOf(s.kind[i], s.count[i])]
           ELSE s, i)

PutInto(s, c, i) == [s EXCEPT !.list[c] = <<i>> \o @, !.parent[i] = c]
AddThing(s, c, index, i) ==
  IF c = Player THEN [s EXCEPT !.slot[index] = i, !.parent[i] = Player]
  ELSE IF c = Tile THEN PutInto(s, Tile, i)
  ELSE IF index >= Room THEN Lose(s, i)
  ELSE Touch(Heavier(PutInto(s, c, i), c, Weight(s, i)), c, i)

UpdateThing(s, c, i, k, n) ==
  Touch(Heavier([s EXCEPT !.kind[i] = k, !.count[i] = n], c,
                UnitWeight(k) * n - UnitWeight(s.kind[i]) * s.count[i]), c, i)

TakenFrom(s, c, i) ==
  IF c = Player
  THEN [s EXCEPT !.slot = [n \in SlotSet |-> IF s.slot[n] = i THEN NoItem ELSE s.slot[n]],
                 !.parent[i] = NoItem]
  ELSE [s EXCEPT !.list[c] = Seqs!Remove(@, i), !.parent[i] = NoItem]

\* n of a stack, or the whole.
RemoveThing(s, c, i, n) ==
  IF Stackable(s, i) /\ n # s.count[i] THEN UpdateThing(s, c, i, s.kind[i], s.count[i] - n)
  ELSE TakenFrom(Heavier(TouchRemoved(s, c, i), c, -Weight(s, i)), c, i)

\* postAddNotification and postRemoveNotification of the cylinder, up to the player.
Notified(s, c) ==
  IF Owned(s, c) THEN [s EXCEPT !.carried = InventoryWeight(s), !.behind = FALSE] ELSE s
-----------------------------------------------------------------------------
(* What a cylinder answers.                                                *)

HasCapacity_always(s, i, n) == TRUE
HasCapacity(s, i, n) ==
  \/ Owned(s, s.parent[i])
  \/ (IF i \in Bags THEN Weight(s, i) ELSE UnitWeight(s.kind[i]) * n) <= s.capacity - s.carried

\* Player::queryAdd for a hand, with what the other hand holds.
SecondHand(s, k, i, n, other) ==
  LET o == s.kind[other]
  IN /\ o \notin TwoHanded
     /\ \/ i = other /\ n = s.count[i]
        \/ {WeaponType(k), WeaponType(o)} # {"shield"}
           /\ {WeaponType(k), WeaponType(o)} # {"weapon"}
ClassicHand(s, k, i, n, other) ==
  \/ other = NoItem
  \/ k \in TwoHanded /\ other = i
  \/ k \notin TwoHanded /\ other # NoItem /\ SecondHand(s, k, i, n, other)

RightHand(s, k, i, n, left) ==
  IF s.classic THEN ClassicHand(s, k, i, n, left)
  ELSE k = "shield" /\ (left = NoItem \/ s.kind[left] \notin TwoHanded)
LeftHand(s, k, i, n, right) ==
  IF s.classic THEN ClassicHand(s, k, i, n, right)
  ELSE WeaponType(k) \notin {"none", "shield"} /\ ~(right # NoItem /\ k \in TwoHanded)

Fits(s, index, i, n) ==
  \/ index = 3 /\ s.kind[i] = "bag"
  \/ index = 5 /\ RightHand(s, s.kind[i], i, n, s.slot[6])
  \/ index = 6 /\ LeftHand(s, s.kind[i], i, n, s.slot[5])
  \/ index = 10 /\ (s.classic \/ WeaponType(s.kind[i]) = "ammo")

PlayerAdd(s, index, i, n) ==
  IF ~Fits(s, index, i, n) THEN "no"
  ELSE IF s.slot[index] # NoItem /\ ~Stacks(s, i, s.slot[index]) THEN "exchange"
  ELSE IF HasCapacity(s, i, n) THEN "ok" ELSE "no"

BagAdd(s, c, index, i, n) ==
  IF /\ i \notin Above(s, c)
     /\ index = Wherever => Len(s.list[c]) < Room
     /\ Owned(s, c) => HasCapacity(s, i, n)
  THEN "ok" ELSE "no"

QueryAdd(s, c, index, i, n) ==
  IF c = Tile THEN "ok" ELSE IF c = Player THEN PlayerAdd(s, index, i, n) ELSE BagAdd(s, c, index, i, n)

\* What fits on stack j at that index, which may be the item itself.
StackRoom(s, c, j, index, i) ==
  IF Stacks(s, i, j) /\ QueryAdd(s, c, index, i, MaxStack - s.count[j]) = "ok"
  THEN MaxStack - s.count[j] ELSE 0

\* What fits on the stacks js of cylinder c.
OnStacks(s, c, js, i) ==
  Sets!MapThenSumSet(
    LAMBDA j : IF Mates(s, i, j) THEN StackRoom(s, c, j, 0, i) ELSE 0, js)

\* The size may be beyond the capacity: see the README.
FreeSlots(s, c) == IF Len(s.list[c]) < Room THEN Room - Len(s.list[c]) ELSE 0
StackUnit(s, i) == IF Stackable(s, i) THEN MaxStack ELSE 1

ItemAt(s, c, index) == IF index < Len(s.list[c]) THEN s.list[c][index + 1] ELSE NoItem
Elems(s, c) == {s.list[c][p] : p \in DOMAIN s.list[c]}

BagMax(s, c, index, i) ==
  FreeSlots(s, c) * StackUnit(s, i)
    + (IF index = Wherever THEN OnStacks(s, c, Elems(s, c), i)
       ELSE StackRoom(s, c, ItemAt(s, c, index), index, i))

SlotMax(s, index, i, n) ==
  IF s.slot[index] = NoItem
  THEN IF PlayerAdd(s, index, i, n) = "ok" THEN StackUnit(s, i) ELSE 0
  ELSE IF Stacks(s, i, s.slot[index]) THEN MaxStack - s.count[s.slot[index]] ELSE 0

\* Room for a new item anywhere with the player, in nested containers too.
SlotRoom(s, n, i) ==
  IF s.slot[n] \in Bags THEN 0
  ELSE IF s.slot[n] = NoItem \/ PlayerAdd(s, n, i, MaxStack - s.count[s.slot[n]]) = "ok"
       THEN SlotMax(s, n, i, s.count[i]) ELSE 0
PlayerMax(s, i) ==
  Sets!MapThenSumSet(LAMBDA n : SlotRoom(s, n, i), SlotSet)
    + Sets!MapThenSumSet(LAMBDA b : BagMax(s, b, Wherever, i), {b \in Bags : Owned(s, s.parent[b])})

QueryMaxCount(s, c, index, i, n) ==
  IF c = Tile THEN n
  ELSE IF c \in Bags THEN BagMax(s, c, index, i)
  ELSE IF index = Wherever THEN PlayerMax(s, i) ELSE SlotMax(s, index, i, n)
-----------------------------------------------------------------------------
(* Where to: an answer is a cylinder, an index in it, and the stack found. *)

To(c, index, j) == [cyl |-> c, index |-> index, mate |-> j]

\* Tile::queryDestination, of a tile on level ground.
TileDestination(s) == To(Tile, 0, ItemAt(s, Tile, 0))

\* The first stack that s's list has room for: not when it is in this list already.
AutoStack(s, c, i, ps, otherwise) ==
  IF ps = {} THEN otherwise
  ELSE To(c, Sets!Min(ps) - 1, s.list[c][Sets!Min(ps)])
MatePositions(s, c, i) == {p \in DOMAIN s.list[c] : Mates(s, i, s.list[c][p])}

BagAt(s, c, index, i, there) ==
  IF there \in Bags THEN To(there, Wherever, NoItem)
  ELSE AutoStack(s, c, i, IF s.parent[i] = c THEN {} ELSE MatePositions(s, c, i), To(c, index, there))

BagDestination(s, c, index, i) ==
  IF index = MoveUp THEN To(IF s.parent[c] \in Bags THEN s.parent[c] ELSE c, Wherever, NoItem)
  ELSE IF index = Wherever \/ index >= Room THEN BagAt(s, c, Wherever, i, NoItem)
  ELSE BagAt(s, c, index, i, ItemAt(s, c, index))

\* The containers the player searches, breadth first.
Passed(s, i, j) == j = s.traded \/ j = i
SubBags(s, c, i) ==
  SelectSeq(s.list[c], LAMBDA j : j \in Bags /\ (Stackable(s, i) => ~Passed(s, i, j)))
RECURSIVE Search(_, _, _)
Search(s, i, found) ==
  IF found = <<>> THEN <<>>
  ELSE <<Head(found)>> \o Search(s, i, Tail(found) \o SubBags(s, Head(found), i))
WornBags(s, i) ==
  SelectSeq([p \in DOMAIN Slots |-> s.slot[Slots[p]]], LAMBDA j : j \in Bags /\ ~Passed(s, i, j))

\* In one of them: on the first stack, else at the index that the count of the
\* items looked at gives.  Those passed over are not counted (player.cpp:2632).
Looked(s, c, i, p) == Cardinality({q \in 1..(p - 1) : ~Passed(s, i, s.list[c][q])})
StackIn(s, c, i, ps, free) ==
  IF ps # {} THEN <<To(c, Looked(s, c, i, Sets!Min(ps)), s.list[c][Sets!Min(ps)])>>
  ELSE IF free < Room /\ BagAdd(s, c, free, i, s.count[i]) = "ok" THEN <<To(c, free, NoItem)>>
  ELSE <<>>
SearchIn(s, c, i) ==
  IF Stackable(s, i)
  THEN StackIn(s, c, i, {p \in MatePositions(s, c, i) : s.list[c][p] # s.traded},
               Looked(s, c, i, Len(s.list[c]) + 1))
  ELSE IF Len(s.list[c]) # Room /\ BagAdd(s, c, Len(s.list[c]), i, s.count[i]) = "ok"
       THEN <<To(c, Len(s.list[c]), NoItem)>> ELSE <<>>

\* A slot that is empty, or holds a stack to join.
SlotTakes(s, n, i) ==
  /\ s.slot[n] # NoItem => /\ ~Passed(s, i, s.slot[n])
                           /\ Mates(s, i, s.slot[n])
  /\ PlayerAdd(s, n, i, s.count[i]) = "ok"
SlotAnswer(s, n, i) == IF SlotTakes(s, n, i) THEN <<To(Player, n, s.slot[n])>> ELSE <<>>

FirstOf(answers) == Seqs!FlattenSeq(answers)
SearchAll(s, i, bags) == FirstOf([p \in DOMAIN bags |-> SearchIn(s, bags[p], i)])
FoundFor(s, i) ==
  FirstOf([p \in DOMAIN Slots |-> SlotAnswer(s, Slots[p], i)])
    \o SearchAll(s, i, Search(s, i, WornBags(s, i)))
    \o <<To(Player, Wherever, NoItem)>>

PlayerDestination(s, index, i) ==
  IF index \in {Window, Wherever} THEN Head(FoundFor(s, i))
  ELSE IF s.slot[index] \in Bags THEN To(s.slot[index], Wherever, NoItem)
  ELSE To(Player, index, s.slot[index])

QueryDestination(s, c, index, i) ==
  IF c = Tile THEN TileDestination(s)
  ELSE IF c = Player THEN PlayerDestination(s, index, i)
  ELSE BagDestination(s, c, index, i)

\* Asked again until a cylinder names itself.
RECURSIVE Settle(_, _, _)
Settle(s, d, i) ==
  LET e == QueryDestination(s, d.cyl, d.index, i)
  IN IF e.cyl = d.cyl THEN e ELSE Settle(s, e, i)
-----------------------------------------------------------------------------
(* Game::internalMoveItem.                                                 *)

Least(a, b) == IF a < b THEN a ELSE b
FreeOf(s, is) == {i \in is : s.parent[i] = NoItem}
Free(s) == FreeOf(s, Loose)
Fresh(s) == CHOOSE i \in Free(s) : TRUE

\* A stack is moved as a clone, which takes the name of the item if that is gone.
CloneName(s, i) == IF Stackable(s, i) /\ s.parent[i] # NoItem THEN Fresh(s) ELSE i
Added(s, d, i, k, n) ==
  AddThing([s EXCEPT !.kind[i] = k, !.count[i] = n], d.cyl, d.index, i)

\* Mutant: the rest of a stack is dropped.
RestPlaced_drop(s, d, i, rest) ==
  IF rest = 0 \/ d.mate # NoItem THEN (IF s.parent[i] = NoItem THEN Released(s, i) ELSE s)
  ELSE Added(s, d, CloneName(s, i), s.kind[i], rest)
RestPlaced(s, d, i, rest) ==
  IF rest = 0 THEN (IF s.parent[i] = NoItem THEN Released(s, i) ELSE s)
  ELSE Added(s, d, CloneName(s, i), s.kind[i], rest)

Merged(s, d, n) ==
  IF d.mate = NoItem THEN s
  ELSE UpdateThing(s, d.cyl, d.mate, s.kind[d.mate], s.count[d.mate] + n)

\* s is the world after the removal of m, of which n go to the stack found.
Arrive(s, i, d, m, n, from) ==
  Notified(Notified(RestPlaced(Merged(s, d, n), d, i, m - n), from), d.cyl)

OnlyMate(s, i, d) == IF Stacks(s, i, d.mate) THEN d ELSE [d EXCEPT !.mate = NoItem]
OntoMate(s, d, m) == IF d.mate = NoItem THEN 0 ELSE Least(MaxStack - s.count[d.mate], m)
Transfer(s, i, d, m) ==
  IF m = 0 THEN s
  ELSE Arrive(RemoveThing(s, s.parent[i], i, m), i, d, m, OntoMate(s, d, m), s.parent[i])

Allowed(s, i, d, n) ==
  IF QueryAdd(s, d.cyl, d.index, i, n) # "ok" THEN s
  ELSE Transfer(s, i, OnlyMate(s, i, d), Least(n, QueryMaxCount(s, d.cyl, d.index, i, n)))

\* What is in the slot goes where the item comes from, and then the item is asked
\* for again: it may be refused, with the other moved.
Swapped(s, d, from) ==
  LET j == d.mate
  IN Notified(Notified(AddThing(RemoveThing(s, Player, j, s.count[j]), from, 0, j), Player), from)
Exchangeable(s, i, j, from) ==
  /\ from # Player
  /\ QueryAdd(s, from, 0, j, s.count[j]) = "ok"
  /\ QueryMaxCount(s, from, Wherever, j, s.count[j]) > 0

MoveTo(s, i, d, n) ==
  IF i = d.mate THEN s
  ELSE IF QueryAdd(s, d.cyl, d.index, i, n) # "exchange" THEN Allowed(s, i, d, n)
  ELSE IF Exchangeable(s, i, d.mate, s.parent[i])
  THEN Allowed(Swapped(s, d, s.parent[i]), i, [d EXCEPT !.mate = NoItem], n)
  ELSE s

Move(s, i, c, index, n) == MoveTo(s, i, Settle(s, To(c, index, NoItem), i), n)
-----------------------------------------------------------------------------
(* Game::internalAddItem and internalRemoveItem.                           *)

\* An answer: the world, whether the item was taken, and the rest that found no place.
Answer(s, ok, rest) == [world |-> s, ok |-> ok, rest |-> rest]
Create(s, i, k, n) == [s EXCEPT !.kind[i] = k, !.count[i] = n]
Discard(s, i) == Answer(Released(s, i), TRUE, s.count[i])

RECURSIVE AddItem(_, _, _)

\* n units joined a stack; the rest, under the item's name, is added in its turn,
\* and the player hears of the n only with the rest.
LoseRest(s, k, n) ==
  IF n = 0 THEN s ELSE [s EXCEPT !.lost[UnitName(k)] = @ + UnitsOf(k, n)]
PartlyAdded(a, i, k) ==
  IF a.ok THEN Answer(LoseRest(a.world, k, a.rest), TRUE, 0) ELSE Discard(a.world, i)
Joined(s, c, d, i, n) ==
  IF n = s.count[i]
  THEN Answer(Notified(Released(Merged(s, d, n), i), d.cyl), TRUE, 0)
  ELSE PartlyAdded(AddItem([Merged([s EXCEPT !.count[i] = @ - n], d, n)
                              EXCEPT !.behind = @ \/ Owned(s, d.cyl)], c, i), i, s.kind[i])

\* Nothing is said of an item that was not placed.
Heard(s, c, i) == IF s.parent[i] = NoItem THEN s ELSE Notified(s, c)

AddTo(s, c, d, i) ==
  IF \/ QueryAdd(s, d.cyl, d.index, i, s.count[i]) # "ok"
     \/ QueryMaxCount(s, c, Wherever, i, s.count[i]) < s.count[i]
  THEN Answer(s, FALSE, 0)
  ELSE IF Stacks(s, i, d.mate) /\ s.count[d.mate] < MaxStack
  THEN Joined(s, c, d, i, OntoMate(s, d, s.count[i]))
  ELSE Answer(Heard(AddThing(s, d.cyl, d.index, i), d.cyl, i), TRUE, 0)

AddItem(s, c, i) == AddTo(s, c, QueryDestination(s, c, Wherever, i), i)

\* internalPlayerAddItem: what the player cannot take goes to the ground.
OnGround(s, k, n) ==
  IF n = 0 THEN s ELSE AddItem(Create(s, Fresh(s), k, n), Tile, Fresh(s)).world
Given(a, i, k) == IF a.ok THEN OnGround(a.world, k, a.rest) ELSE AddItem(a.world, Tile, i).world
GiveNamed(s, i, k, n) == Given(AddItem(Create(s, i, k, n), Player, i), i, k)
Give(s, k, n) == GiveNamed(s, Fresh(s), k, n)

RemoveItem(s, i, n) ==
  LET r == RemoveThing(s, s.parent[i], i, n)
  IN Notified(IF r.parent[i] = NoItem THEN Released(r, i) ELSE r, s.parent[i])

\* Game::transformItem between kinds of one type, or to another count of a stack.
Transform(s, i, k, n) ==
  IF n = 0 THEN RemoveItem(s, i, s.count[i])
  ELSE Notified(UpdateThing(s, s.parent[i], i, k, n), s.parent[i])
-----------------------------------------------------------------------------
(* Game::addMoney and removeMoney, of the player.                          *)

\* What is refused is put on the tile; of what is taken only in part the rest is lost.
Coins(a, i, k) ==
  IF ~a.ok THEN AddItem(a.world, Tile, i).world
  ELSE LoseRest(a.world, k, a.rest)
AddStack(s, i, k, n) == Coins(AddItem(Create(s, i, k, n), Player, i), i, k)
AddCoins(s, k, n) == IF n = 0 THEN s ELSE AddStack(s, Fresh(s), k, n)

RECURSIVE AddPlatinum(_, _)
AddPlatinum(s, n) ==
  IF n <= MaxStack THEN AddCoins(s, "platinum", n)
  ELSE AddPlatinum(AddCoins(s, "platinum", MaxStack), n - MaxStack)
AddMoney(s, money) == AddCoins(AddPlatinum(s, money \div MaxStack), "gold", money % MaxStack)

\* The coins in the order of their worth, those of equal worth as they are found.
WorthOf(s, i) == UnitsOf(s.kind[i], s.count[i])
IsMoney(s, i) == i # NoItem /\ Worth(s.kind[i]) > 0
RECURSIVE Nested(_, _)
Nested(s, bags) ==
  IF bags = <<>> THEN <<>>
  ELSE <<Head(bags)>>
         \o Nested(s, Tail(bags) \o SelectSeq(s.list[Head(bags)], LAMBDA j : j \in Bags))
Worn(s) == [p \in DOMAIN Slots |-> s.slot[Slots[p]]]
Purse(s) ==
  LET bags == Nested(s, SelectSeq(Worn(s), LAMBDA j : j \in Bags))
  IN SelectSeq(Worn(s) \o Seqs!FlattenSeq([p \in DOMAIN bags |-> s.list[bags[p]]]),
               LAMBDA j : IsMoney(s, j))
Emplace(s, sorted, i) ==
  SelectSeq(sorted, LAMBDA j : WorthOf(s, j) <= WorthOf(s, i)) \o <<i>>
    \o SelectSeq(sorted, LAMBDA j : WorthOf(s, j) > WorthOf(s, i))
MoneyMap(s) == Seqs!FoldLeft(LAMBDA sorted, i : Emplace(s, sorted, i), <<>>, Purse(s))
Money(s) == Seqs!FoldLeft(LAMBDA n, i : n + WorthOf(s, i), 0, Purse(s))

\* The change is added before the coins are removed.
Broken(s, i, money, worth, n) == RemoveItem(AddMoney(s, worth * n - money), i, n)
BreakCoin(s, i, money, worth) == Broken(s, i, money, worth, (money + worth - 1) \div worth)

RECURSIVE Pay(_, _, _)
Pay(s, coins, money) ==
  IF WorthOf(s, Head(coins)) < money
  THEN Pay(RemoveItem(s, Head(coins), s.count[Head(coins)]), Tail(coins), money - WorthOf(s, Head(coins)))
  ELSE IF WorthOf(s, Head(coins)) > money
  THEN BreakCoin(s, Head(coins), money, Worth(s.kind[Head(coins)]))
  ELSE RemoveItem(s, Head(coins), s.count[Head(coins)])

RemoveMoney(s, money) == Pay(s, MoneyMap(s), money)
-----------------------------------------------------------------------------
(* The handlers.                                                           *)

Held(i) == items.parent[i] # NoItem
\* A refusal is no step.
Does(s, k, n) ==
  /\ s # items /\ items' = s
  /\ made' = IF k \in DOMAIN made THEN [made EXCEPT ![k] = @ + n] ELSE made

\* Game::playerMoveItem.
PlayerMoveItem(i, c, index, n) ==
  /\ Held(i) /\ n <= items.count[i]
  /\ n = items.count[i] \/ Free(items) # {}
  /\ Does(Move(items, i, c, index, n), "none", 0)

\* A script or a shop gives, takes, or uses up a part of a stack.
GiveItem(k, n) ==
  /\ Cardinality(Free(items)) > 1
  /\ Does(Give(items, k, n), UnitName(k), UnitsOf(k, n))
TakeItem(i, n) ==
  /\ Held(i) /\ i \notin Bags /\ n <= items.count[i]
  /\ Does(RemoveItem(items, i, n), UnitName(items.kind[i]), -UnitsOf(items.kind[i], n))
UseOne(i) ==
  /\ Held(i) /\ Stackable(items, i)
  /\ Does(Transform(items, i, items.kind[i], items.count[i] - 1),
          UnitName(items.kind[i]), -UnitsOf(items.kind[i], 1))
Enchant(i) ==
  /\ Held(i) /\ items.kind[i] \in {"sword", "blade"}
  /\ Does(Transform(items, i, IF items.kind[i] = "sword" THEN "blade" ELSE "sword", 1), "none", 0)

PayMoney(money) ==
  /\ Free(items) # {} /\ Money(items) >= money
  /\ Does(RemoveMoney(items, money), "money", -money)
GetMoney(money) ==
  /\ Cardinality(Free(items)) > IF money > MaxStack /\ money % MaxStack > 0 THEN 1 ELSE 0
  /\ Does(AddMoney(items, money), "money", money)

OfferBag(b) ==
  /\ items.traded = NoItem /\ Held(b)
  /\ Does([items EXCEPT !.traded = b], "none", 0)
CloseOffer ==
  /\ items.traded # NoItem
  /\ Does([items EXCEPT !.traded = NoItem], "none", 0)
-----------------------------------------------------------------------------
Counted(s, u) ==
  Sets!MapThenSumSet(LAMBDA i : IF Held(i) /\ UnitName(s.kind[i]) = u
                                THEN UnitsOf(s.kind[i], s.count[i]) ELSE 0, Loose)

\* A weapon for two hands leaves the other hand empty, and nobody holds two weapons
\* or two shields, however the items come into the hands (player.cpp:2338-2437).
HandsAgree ==
  LET r == items.slot[5]
      l == items.slot[6]
  IN r # NoItem /\ l # NoItem =>
       /\ {items.kind[r], items.kind[l]} \cap TwoHanded = {}
       /\ {WeaponType(items.kind[r]), WeaponType(items.kind[l])} \notin {{"weapon"}, {"shield"}}

\* Every item is in one place, the one its parent says; no container is inside itself;
\* a stack has from one to MaxStack units; a container knows the weight of all it
\* holds, and the player that of all it carries, unless it has not been told of the
\* part of a stack whose rest found no place (container.cpp:144, player.cpp:436,
\* game.cpp:1251).
ItemsAgree ==
  /\ \A i \in AllItems, c \in Bags \cup {Tile} :
       Cardinality({p \in DOMAIN items.list[c] : items.list[c][p] = i})
         = IF items.parent[i] = c THEN 1 ELSE 0
  /\ \A i \in AllItems :
       Cardinality({n \in SlotSet : items.slot[n] = i}) = IF items.parent[i] = Player THEN 1 ELSE 0
  /\ \A b \in Bags : b \notin Above(items, items.parent[b])
  /\ \A i \in AllItems : Held(i) => items.count[i] \in 1..MaxStack
  /\ \A b \in Bags :
       items.total[b] = Sets!MapThenSumSet(LAMBDA i : Weight(items, i), Elems(items, b))
  /\ items.behind \/ items.carried = InventoryWeight(items)
  /\ HandsAgree

\* Moving, splitting, merging and exchanging neither makes nor destroys a unit; a payment
\* takes what was asked, whatever coins it breaks; and what is given arrives, but for
\* the rests that nobody puts anywhere (game.cpp:1248-1256, 1461-1477).
Conserved == \A u \in DOMAIN made : Counted(items, u) + items.lost[u] = made[u]

\* No step makes a player carry more than it can, in its slots or in containers deep
\* down, but for a kind that gets heavier and a weight that is behind.
CarriesNoMore ==
  \/ InventoryWeight(items') <= InventoryWeight(items)
  \/ InventoryWeight(items') <= items.capacity
  \/ items.behind
  \/ \E i \in AllItems : items.kind[i] = "sword" /\ items'.kind[i] = "blade"
=============================================================================
