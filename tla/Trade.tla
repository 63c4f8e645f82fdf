-------------------------------- MODULE Trade --------------------------------
(***************************************************************************)
(* Trades between two players (src/src/game.cpp:2477-2859 and the trade    *)
(* checks of player.cpp): who trades with whom, how far each has come,     *)
(* what each offers, and the items the game holds locked, while players    *)
(* and items move about, items are put into one another and disappear.     *)
(*                                                                         *)
(* Every handler is one task of the game thread, so TRADE_TRANSFER is      *)
(* never seen between two steps.  Players stand on a line whose origin is  *)
(* the tile with the items on the ground.  Capacity, lines of sight and    *)
(* scripts may refuse; a refusal changes nothing unless it is modelled.    *)
(* Deeds of houses (Lua house:startTrade) are in module House.             *)
(***************************************************************************)
EXTENDS Roster, FiniteSets, FiniteSetsExt

CONSTANTS
  Items,
  Containers,   \* those that can hold others
  Ground,       \* the tile that items lie on
  Nowhere,      \* where a removed item is
  Places,       \* where a player may stand
  ItemReach,    \* 1 tile in the code
  PartnerReach  \* 2 tiles in the code

ASSUME TradeAssumption ==
  /\ Containers \subseteq Items
  /\ Items \cap Players = {}
  /\ {Ground, Nowhere, None} \cap (Items \cup Players) = {}
  /\ Cardinality({Ground, Nowhere, None}) = 3
  /\ Places \subseteq Nat /\ ItemReach \in Nat /\ PartnerReach \in Nat

VARIABLES
  tradeState,
  tradePartner,
  tradeItem,
  tradeItems,  \* Game::tradeItems: for each item, who offers it, or None
  parent,      \* Item::getParent
  place        \* where a player stands

trades == <<tradeState, tradePartner, tradeItem, tradeItems>>
tradeVars == <<tradeState, tradePartner, tradeItem, tradeItems, parent, place>>

TradeInit ==
  /\ tradeState = [p \in Players |-> "NONE"]
  /\ tradePartner = [p \in Players |-> None]
  /\ tradeItem = [p \in Players |-> None]
  /\ tradeItems = [i \in Items |-> None]
  /\ parent = [i \in Items |-> Ground]
  /\ place \in [Players -> {0}]

\* All that is in c, however deep, when f tells what each item is in: the least
\* set with what lies in c and what lies in its members (ContainerIterator).
Nested(f, c) ==
  {i \in Items : \A s \in SUBSET Items : (\A j \in Items : f[j] \in s \cup {c} => j \in s) => i \in s}

Contents(c) == Nested(parent, c)

\* Container::isHoldingItem; and Item::getTopParent, a player or the tile.
Holds(c, i) == i \in Contents(c)
TopIs(i, top) == i \in Contents(top)

ItemInReach(p, i) == TopIs(i, p) \/ (TopIs(i, Ground) /\ place[p] <= ItemReach)
PlayersInReach(p, q) == place[p] - place[q] \in -PartnerReach .. PartnerReach
-----------------------------------------------------------------------------
\* internalCloseTrade for the players of ps, and the partner of each.
Closing_alone(ps) == ps
Closing(ps) == ps \cup ({tradePartner[p] : p \in ps} \ {None})

CloseTrade(ps) ==
  LET all == Closing(ps)
  IN /\ tradeState' = [p \in Players |-> IF p \in all THEN "NONE" ELSE tradeState[p]]
     /\ tradePartner' = [p \in Players |-> IF p \in all THEN None ELSE tradePartner[p]]
     /\ tradeItem' = [p \in Players |-> IF p \in all THEN None ELSE tradeItem[p]]
     /\ tradeItems' = [i \in Items |-> IF \E p \in all : tradeItem[p] = i THEN None ELSE tradeItems[i]]

\* playerRequestTrade refuses an item that is offered, that is in an offered
\* container, or that has an offered item in it.
IsTraded(i) == \E j \in Items : tradeItems[j] # None /\ (i = j \/ Holds(i, j) \/ Holds(j, i))

\* internalStartTrade: neither is in another trade.
MayStart(p, q) ==
  /\ tradeState[p] = "NONE" \/ (tradeState[p] = "ACKNOWLEDGE" /\ tradePartner[p] = q)
  /\ tradeState[q] = "NONE" \/ tradePartner[q] = p

RequestTrade(p, q, i) ==
  /\ p \in online /\ q \in online \ {p}
  /\ PlayersInReach(p, q) /\ ItemInReach(p, i)
  /\ ~IsTraded(i) /\ MayStart(p, q)
  /\ tradeState' = [tradeState EXCEPT ![p] = "INITIATED",
                                      ![q] = IF @ = "NONE" THEN "ACKNOWLEDGE" ELSE @]
  /\ tradePartner' = [tradePartner EXCEPT ![p] = q, ![q] = p]
  /\ tradeItem' = [tradeItem EXCEPT ![p] = i]
  /\ tradeItems' = [tradeItems EXCEPT ![i] = p]
  /\ UNCHANGED <<parent, place>>

\* playerAcceptTrade: the partner need not have offered anything yet.
MayAccept(p) ==
  p \in online /\ tradeState[p] \in {"ACKNOWLEDGE", "INITIATED"} /\ tradePartner[p] # None

AcceptFirst(p) ==
  /\ MayAccept(p) /\ tradeState[tradePartner[p]] # "ACCEPT"
  /\ tradeState' = [tradeState EXCEPT ![p] = "ACCEPT"]
  /\ UNCHANGED <<tradePartner, tradeItem, tradeItems, parent, place>>

\* Where internalMoveItem may put what q gets: on q, or in a container of q
\* other than the item q gives away and those in it.
Destinations(q, given) ==
  {q} \cup {c \in Containers : TopIs(c, q) /\ c # given /\ ~Holds(given, c)}

CancelTrade(p) ==
  /\ p \in online
  /\ CloseTrade({p})
  /\ UNCHANGED <<parent, place>>
-----------------------------------------------------------------------------
(* What else happens to the traders and the items.                         *)

ItemTooFar(p, x) ==
  tradeItem[p] # None /\ TopIs(tradeItem[p], Ground) /\ x > ItemReach
PartnerTooFar(p, x) ==
  tradePartner[p] # None /\ x - place[tradePartner[p]] \notin -PartnerReach .. PartnerReach

Walk(p, x) ==
  /\ p \in online /\ x # place[p]
  /\ place' = [place EXCEPT ![p] = x]
  /\ IF ItemTooFar(p, x) \/ PartnerTooFar(p, x) THEN CloseTrade({p}) ELSE UNCHANGED trades
  /\ UNCHANGED parent

\* checkTradeState and the remove notifications, for i taken from where it
\* is: i is offered, is in what is offered, or holds it; in a container, the
\* last is asked of that container, which makes it close for its neighbours too.
Disturbs_itself(p, i) == tradeItem[p] = i
Disturbs(p, i) ==
  LET t == tradeItem[p]
      from == parent[i]
  IN t # None /\ \/ t = i \/ Holds(t, i)
                 \/ from \notin Items /\ Holds(i, t)
                 \/ from \in Items /\ parent[t] # from /\ Holds(from, t)

\* onAddContainerItem: something is put into what p offers.
Fills(p, d) == tradeItem[p] # None /\ (tradeItem[p] = d \/ (d \in Items /\ Holds(tradeItem[p], d)))

\* Container::queryAdd refuses to put a container into itself, however deep.
MayPut(i, c) == c # i /\ ~Holds(i, c)

\* playerAcceptTrade of the second: both items go over; or neither, when one is
\* missing, does not fit or a script refuses; or the first alone, for nobody asks
\* whether the second move succeeded.  Either way the trade ends, and so do
\* trades of others that the moves disturb.
AcceptSecond(p) ==
  LET q == tradePartner[p]
      i == tradeItem[p]
      j == tradeItem[q]
      Others(k, d) == {r \in Players \ {p, q} : Disturbs(r, k) \/ Fills(r, d)}
  IN /\ MayAccept(p) /\ tradeState[q] = "ACCEPT"
     /\ \/ UNCHANGED parent /\ CloseTrade({p})
        \/ /\ None \notin {i, j}
           /\ \E d \in Destinations(q, j) :
                \/ /\ parent' = [parent EXCEPT ![i] = d]
                   /\ CloseTrade({p} \cup Others(i, d))
                \/ \E e \in Destinations(p, i) :
                     /\ parent' = [parent EXCEPT ![i] = d, ![j] = e]
                     /\ CloseTrade({p} \cup Others(i, d) \cup Others(j, e))
     /\ UNCHANGED place

\* A player moves an item in reach: to the inventory, the tile, or a container.
MoveItem(p, i, d) ==
  /\ p \in online
  /\ ItemInReach(p, i) /\ d # parent[i]
  /\ \/ d = p
     \/ d = Ground /\ place[p] <= ItemReach
     \/ d \in Containers /\ MayPut(i, d) /\ ItemInReach(p, d)
  /\ parent' = [parent EXCEPT ![i] = d]
  /\ CloseTrade({t \in Players : Disturbs(t, i) \/ Fills(t, d)})
  /\ UNCHANGED place

\* internalRemoveItem, with all that is in it: it decays, or a script takes it.
RemoveItem(i) ==
  /\ parent[i] # Nowhere
  /\ parent' = [j \in Items |-> IF j = i \/ Holds(i, j) THEN Nowhere ELSE parent[j]]
  /\ CloseTrade({t \in Players : Disturbs(t, i)})
  /\ UNCHANGED place

\* The part of Player::onRemoveCreature about trades.
TradeLogout(p) == IF tradePartner[p] # None THEN CloseTrade({p}) ELSE UNCHANGED trades

TradeNext ==
  \/ \E p, q \in Players, i \in Items : RequestTrade(p, q, i)
  \/ \E p \in Players : AcceptFirst(p) \/ AcceptSecond(p) \/ CancelTrade(p)
  \/ \E p \in Players, x \in Places : Walk(p, x)
  \/ \E p \in Players, i \in Items, d \in Players \cup Containers \cup {Ground} : MoveItem(p, i, d)
  \/ \E i \in Items : RemoveItem(i)
-----------------------------------------------------------------------------

\* What is offered stays within the reach of who offers it, and the partners
\* within each other's, whoever moves (player.cpp:1012-1030, 1261-1267, 1391).
OfferedInReach ==
  \A p \in Players :
    /\ tradeItem[p] # None => ItemInReach(p, tradeItem[p])
    /\ tradePartner[p] # None => PlayersInReach(p, tradePartner[p])

\* A trade is the same thing seen from both sides and from the game's list of
\* locked items: each is the other's partner, one has offered something, and
\* what the game holds locked is exactly what is offered, never an item inside
\* another that is offered (game.cpp keeps the three apart: 2604, 2822).  Bags that
\* hold one another would hide what they hold from all of these tests.
TradeAgrees ==
  /\ \A p \in Players :
       LET q == tradePartner[p]
       IN /\ tradeState[p] = "NONE" <=> q = None
          /\ q = None => tradeItem[p] = None
          /\ q # None => q # p /\ tradePartner[q] = p /\ {tradeItem[p], tradeItem[q]} # {None}
          /\ tradeState[p] = "INITIATED" => tradeItem[p] # None
          /\ tradeState[p] = "ACKNOWLEDGE" => tradeItem[p] = None
  /\ \A i \in Items, p \in Players : tradeItems[i] = p <=> tradeItem[p] = i
  /\ \A i, j \in Items : Holds(i, j) => None \in {tradeItems[i], tradeItems[j]}
  /\ \A i \in Items : ~Holds(i, i)
  /\ OfferedInReach

\* What the partner was shown is what it will get: nothing is put into or
\* taken out of an offered container, and an offered item does not leave its
\* place, as long as the offer stands (player.cpp:1321-1327, 1391-1400).
OfferedUntouched ==
  \A p \in Players :
    LET t == tradeItem[p]
    IN t # None /\ tradeItem'[p] = t => parent'[t] = parent[t] /\ Contents(t)' = Contents(t)
=============================================================================
