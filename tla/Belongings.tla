----------------------------- MODULE Belongings -----------------------------
(***************************************************************************)
(* A player and the things around it.  Four scenes are about what it       *)
(* carries: weapons that compete for the hands; stacks that are split and  *)
(* merged in nested containers; a purse; and a player with no slot left.   *)
(* Everything lies on the tile first.  The others are about tiles: a crowd *)
(* that walks and hides between two, what is put on one and what becomes   *)
(* of it, piles that meet on both sides of a teleport, and two players who *)
(* browse one.                                                             *)
(***************************************************************************)
EXTENDS Tiles, TLC

CONSTANTS
  Scenes,  \* bound: what the behaviours are about
  Bags, Loose, Room, MaxStack, Tile, Player  \* those of Cylinders

VARIABLES scene, items, made

Pack == INSTANCE Cylinders

ASSUME TilesFit == TilesAssumption

belongingsVars == <<scene, tile, items, made>>

Carrying == {"hands", "stacks", "purse", "full"}

Layout(sc) ==
  CASE sc = "hands" -> <<<<"bag", 1>>, <<"bow", 1>>, <<"sword", 1>>, <<"sword", 1>>, <<"shield", 1>>>>
    [] sc = "stacks" -> <<<<"bag", 1>>, <<"bag", 1>>, <<"arrow", 1>>, <<"bolt", 1>>>>
    [] sc = "purse" -> <<<<"bag", 1>>, <<"bag", 1>>, <<"platinum", 2>>>>
    [] sc = "full" -> <<<<"bag", 1>>, <<"platinum", 2>>, <<"platinum", 1>>, <<"gold", 1>>>>

Layer(k) == IF k = "bag" THEN Bags ELSE Loose
LayNamed(s, i, x) == Pack!PutInto(Pack!Create(s, i, x[1], x[2]), Tile, i)
Lay(s, x) == LayNamed(s, CHOOSE i \in Pack!FreeOf(s, Layer(x[1])) : TRUE, x)
Laid(sc) == FoldLeft(Lay, Pack!Empty, Layout(sc))

Strength(sc) == CASE sc = "full" -> 7 [] sc = "stacks" -> 5 [] OTHER -> 4
Styles(sc) == CASE sc = "hands" -> BOOLEAN [] sc = "full" -> {TRUE} [] OTHER -> {FALSE}

\* Bound: units of a kind there may have been.
Most(sc) == CASE sc = "full" -> 11 [] sc = "purse" -> 4 [] OTHER -> 3

InitItems(sc) ==
  IF sc \in Carrying
  THEN \E classic \in Styles(sc) :
         items = [Laid(sc) EXCEPT !.classic = classic, !.capacity = Strength(sc)]
  ELSE items = Pack!Empty

Init ==
  /\ scene \in Scenes
  /\ InitItems(scene)
  /\ made = [u \in {"money", "arrow", "bolt"} |-> Pack!Counted(items, u)]
  /\ tile = Bare

Moves ==
  \E i \in Pack!AllItems, n \in 1..MaxStack :
    \/ Pack!PlayerMoveItem(i, Tile, 0, n)
    \/ \E index \in {Pack!Window} \cup Pack!SlotSet : Pack!PlayerMoveItem(i, Player, index, n)
    \/ \E b \in Bags, index \in (0..(Room - 1)) \cup {Pack!MoveUp, Pack!Anywhere} :
         Pack!Held(b) /\ Pack!PlayerMoveItem(i, b, index, n)

Gifts == made["arrow"] + MaxStack <= Most(scene) /\ Pack!GiveItem("arrow", MaxStack)
Uses == \E i \in Pack!AllItems : Pack!UseOne(i) \/ Pack!TakeItem(i, items.count[i])
Enchantments == \E i \in Pack!AllItems : Pack!Enchant(i)
Payments == \E money \in 1..(2 * MaxStack) : Pack!PayMoney(money)
Incomes ==
  \E money \in IF scene = "full" THEN {2 * MaxStack} ELSE 1..(2 * MaxStack) :
    made["money"] + money <= Most(scene) /\ Pack!GetMoney(money)
Offers == Pack!CloseOffer \/ \E b \in Bags : Pack!OfferBag(b)

\* The tiles of a scene that change, and the kinds of items there.
Sites == IF scene \in {"crowd", "piles"} THEN Squares ELSE {Beyond}
Sorts ==
  CASE scene = "crowd" -> {"border", "crate", "portal"}
    [] scene = "things" -> {"fire", "wall", "bin", "closed", "open", "blood", "mud", "crate"}
    [] scene = "browsed" -> {"coin", "statue", "bin"}
    [] scene = "piles" -> {"coin", "coins", "crate", "portal", "bin"}

\* Bounds: who has another container open; references that those who logged out left behind.
Climber == CHOOSE b \in Browsers : TRUE
Leaks == tile.leaked[Beyond]

Putting ==
  /\ scene \notin {"things", "piles"} => Cardinality(Free) > 1
  /\ \E t \in Sites, k \in Sorts : PutItem(t, k)
Taking == \E i \in Items : TakeItem(i) \/ TakeCoin(i)
Throwing == \E i \in Items, t \in Sites : ThrowItem(i, t)
Turning == \E i \in Items, k \in Sorts : TransformItem(i, k)
Digging ==
  \E t \in {Beyond} : DigGround(t) \/ \E k \in Grounds : NewGround(t, k)
Coming == \E c \in Creatures, t \in Squares : Appear(c, t) \/ Disappear(c, t)
Walking ==
  \E c \in Creatures, from, to \in Squares, force \in BOOLEAN : Walk(c, from, to, force)
Hiding == \E c \in Creatures, t \in Squares : Hide(c, t) \/ Show(c, t)
Browsing ==
  \E t \in Sites :
    \/ \E b \in Browsers : Browse(b, t)
    \/ MoveUp(Climber, t)
    \/ Close(Climber, Extra)
    \/ WalkAway(Climber, t)
    \/ Leaks = 0 /\ LogOut(Climber)
Timing == \E t \in Sites : BrowseTimer(t)

Next ==
  \/ /\ UNCHANGED <<scene, tile>>
     /\ \/ scene \in Carrying /\ Moves
        \/ scene = "hands" /\ Enchantments
        \/ scene = "stacks" /\ (Gifts \/ Uses \/ Offers)
        \/ scene = "purse" /\ (Payments \/ Incomes \/ Offers)
        \/ scene = "full" /\ (Incomes \/ Offers)
  \/ /\ UNCHANGED <<scene, items, made>>
     /\ \/ scene \notin Carrying /\ (Putting \/ Taking)
        \/ scene \in {"crowd", "piles"} /\ Throwing
        \/ scene = "crowd" /\ (Coming \/ Walking \/ Hiding)
        \/ scene = "things" /\ Digging
        \/ scene \in {"things", "browsed"} /\ Turning
        \/ scene = "browsed" /\ (Browsing \/ Timing)

Spec == Init /\ [][Next]_belongingsVars
-----------------------------------------------------------------------------
Symmetry == Permutations(Bags) \cup Permutations(Loose)

ItemsAgree == Pack!ItemsAgree
Conserved == Pack!Conserved

\* TLC's form of the action property of Cylinders.
NeverOverburdened == [][Pack!CarriesNoMore]_belongingsVars
=============================================================================
