------------------------------- MODULE House --------------------------------
(***************************************************************************)
(* Houses and the beds in them (house.cpp, housetile.cpp, bed.cpp, the     *)
(* house scripts of the data pack): who owns a house, whom its lists let   *)
(* in, who is inside, who sleeps there, and what of it the database has.   *)
(* An access list is edited in a window, a bed is entered by answering a   *)
(* dialog, and a house is sold by trading a deed: three requests whose     *)
(* answers come later, when the house may have changed hands.              *)
(***************************************************************************)
EXTENDS Roster, FiniteSets

CONSTANTS
  Houses,
  Beds,
  HouseOf,     \* the house of a bed
  Outside,
  MaxWarnings  \* rent warnings before a house is lost (seven in the code)

ASSUME HouseAssumption ==
  /\ HouseOf \in [Beds -> Houses] /\ Outside \notin Houses /\ MaxWarnings \in Nat

VARIABLES
  owner, subOwners, guests, warnings,  \* per house
  deed,       \* transferItem: None, or the maker and the partner of the trade
  inHouse,    \* the house a player is in, or Outside; where it logged out
  editHouse,  \* None, or the house and list of the window a player has open
  bedItem,    \* None, or the bed the training dialog of a player is about
  sleeper,    \* per bed: sleeperGUID
  bedOf,      \* bedSleepersMap
  kicks,      \* players that lie in bed and are about to be kicked
  saved       \* the database: owner, lists, warnings and sleepers

houseVars == <<owner, subOwners, guests, warnings, deed, inHouse, editHouse, bedItem,
               sleeper, bedOf, kicks, saved>>

NobodyIn(S) == [x \in S |-> None]
NoLists == [h \in Houses |-> {}]

HouseInit ==
  /\ owner = NobodyIn(Houses) /\ deed = NobodyIn(Houses)
  /\ subOwners = NoLists /\ guests = NoLists /\ warnings = [h \in Houses |-> 0]
  /\ inHouse = [p \in Players |-> Outside]
  /\ editHouse = NobodyIn(Players) /\ bedItem = NobodyIn(Players)
  /\ sleeper = NobodyIn(Beds) /\ bedOf = NobodyIn(Players) /\ kicks = {}
  /\ saved = [owner |-> owner, subOwners |-> NoLists, guests |-> NoLists,
              warnings |-> warnings, sleeper |-> sleeper]
-----------------------------------------------------------------------------
(* Access.                                                                 *)

\* House::getHouseAccessLevel: 3 owner, 2 sub-owner, 1 guest, 0 not invited.
AccessLevel(h, p) ==
  IF p = owner[h] THEN 3 ELSE IF p \in subOwners[h] THEN 2 ELSE IF p \in guests[h] THEN 1 ELSE 0
Invited(h, p) == AccessLevel(h, p) > 0
CanEdit(h, list, p) == AccessLevel(h, p) = 3 \/ (AccessLevel(h, p) = 2 /\ list = "guests")
Inside(h) == {p \in online : inHouse[p] = h}

\* House::kickPlayer, to the entry.
Kick(gone) == inHouse' = [p \in Players |-> IF p \in gone THEN Outside ELSE inHouse[p]]

\* A walk onto a house tile asks for an invitation (HouseTile::queryAdd).
WalkIn(p, h) ==
  /\ p \in online /\ inHouse[p] = Outside /\ Invited(h, p)
  /\ inHouse' = [inHouse EXCEPT ![p] = h]
  /\ UNCHANGED <<owner, subOwners, guests, warnings, deed, editHouse, bedItem, sleeper, bedOf, kicks, saved>>

WalkOut(p) ==
  /\ p \in online /\ inHouse[p] # Outside
  /\ Kick({p})
  /\ UNCHANGED <<owner, subOwners, guests, warnings, deed, editHouse, bedItem, sleeper, bedOf, kicks, saved>>

\* The spell to kick: not from a lower rank, and from anywhere.
CastKick(p, q, h) ==
  /\ {p, q} \subseteq online /\ inHouse[q] = h /\ AccessLevel(h, p) >= AccessLevel(h, q)
  /\ Kick({q})
  /\ UNCHANGED <<owner, subOwners, guests, warnings, deed, editHouse, bedItem, sleeper, bedOf, kicks, saved>>

\* The spells that open a list.
EditList(p, h, list) ==
  /\ p \in online /\ inHouse[p] = h /\ CanEdit(h, list, p)
  /\ editHouse' = [editHouse EXCEPT ![p] = [house |-> h, list |-> list]]
  /\ UNCHANGED <<owner, subOwners, guests, warnings, deed, inHouse, bedItem, sleeper, bedOf, kicks, saved>>

\* The right to edit is asked again when the window comes back.
MayStillEdit(p) == CanEdit(editHouse[p].house, editHouse[p].list, p)

\* Mutant: those who are inside stay.
Uninvited_stay(h, invited) == {}

\* kick uninvited players
Uninvited(h, invited) == Inside(h) \ invited

\* House::setAccessList: the list is replaced, and the uninvited are kicked.
SetAccessList(h, list, names) ==
  LET invited == {owner[h]} \cup names \cup (IF list = "guests" THEN subOwners[h] ELSE guests[h])
  IN /\ subOwners' = [subOwners EXCEPT ![h] = IF list = "subOwners" THEN names ELSE @]
     /\ guests' = [guests EXCEPT ![h] = IF list = "guests" THEN names ELSE @]
     /\ Kick(Uninvited(h, invited))

\* Game::playerUpdateHouseWindow
UpdateHouseWindow(p, names) ==
  /\ p \in online /\ editHouse[p] # None
  /\ IF MayStillEdit(p) THEN SetAccessList(editHouse[p].house, editHouse[p].list, names)
                        ELSE UNCHANGED <<subOwners, guests, inHouse>>
  /\ editHouse' = [editHouse EXCEPT ![p] = None]
  /\ UNCHANGED <<owner, warnings, deed, bedItem, sleeper, bedOf, kicks, saved>>
-----------------------------------------------------------------------------
(* Beds.                                                                   *)

\* BedItem::wakeUp of some beds.
AwakeIn(beds) ==
  /\ sleeper' = [b \in Beds |-> IF b \in beds THEN None ELSE sleeper[b]]
  /\ bedOf' = [p \in Players |-> IF \E b \in beds : sleeper[b] = p THEN None ELSE bedOf[p]]

\* BedItem::canUse
CanUse(p, b) ==
  \/ sleeper[b] = None
  \/ owner[HouseOf[b]] = p
  \/ AccessLevel(HouseOf[b], sleeper[b]) <= AccessLevel(HouseOf[b], p)

\* BedItem::trySleep: an empty bed asks what to train; the owner wakes a sleeper.
UseBed(p, b) ==
  /\ p \in online /\ CanUse(p, b)
  /\ \/ /\ sleeper[b] = None
        /\ bedItem' = [bedItem EXCEPT ![p] = b]
        /\ UNCHANGED <<sleeper, bedOf>>
     \/ /\ sleeper[b] # None /\ owner[HouseOf[b]] = p
        /\ AwakeIn({b})
        /\ UNCHANGED bedItem
  /\ UNCHANGED <<owner, subOwners, guests, warnings, deed, inHouse, editHouse, kicks, saved>>

\* Mutant: a bed that was taken in the meantime is taken again.
Free_once(b) == TRUE

Free(b) == sleeper[b] = None

\* Game::playerAnswerModalWindow and BedItem::sleep: wherever the player is by now,
\* it is put on the bed, and kicked after a moment.
GoToSleep(p) ==
  /\ p \in online /\ bedItem[p] # None /\ Free(bedItem[p])
  /\ sleeper' = [sleeper EXCEPT ![bedItem[p]] = p]
  /\ bedOf' = [bedOf EXCEPT ![p] = bedItem[p]]
  /\ inHouse' = [inHouse EXCEPT ![p] = HouseOf[bedItem[p]]]
  /\ kicks' = kicks \cup {p}
  /\ bedItem' = [bedItem EXCEPT ![p] = None]
  /\ UNCHANGED <<owner, subOwners, guests, warnings, deed, editHouse, saved>>

\* The dialog is refused, or the bed is taken.
StayAwake(p) ==
  /\ p \in online /\ bedItem[p] # None
  /\ bedItem' = [bedItem EXCEPT ![p] = None]
  /\ UNCHANGED <<owner, subOwners, guests, warnings, deed, inHouse, editHouse, sleeper, bedOf, kicks, saved>>
-----------------------------------------------------------------------------
(* Ownership.                                                              *)

BedsToClear(h) == {b \in Beds : HouseOf[b] = h /\ sleeper[b] # None}

\* House::setOwner: the database has the new owner at once, everything else with
\* the next save.  An owned house is emptied of players, sleepers, lists and debts.
SetOwner(h, p) ==
  /\ owner' = [owner EXCEPT ![h] = p]
  /\ saved' = [saved EXCEPT !.owner[h] = p]
  /\ IF owner[h] \in {None, p}
     THEN UNCHANGED <<subOwners, guests, warnings, inHouse, sleeper, bedOf>>
     ELSE /\ Kick(Inside(h))
          /\ AwakeIn(BedsToClear(h))
          /\ subOwners' = [subOwners EXCEPT ![h] = {}]
          /\ guests' = [guests EXCEPT ![h] = {}]
          /\ warnings' = [warnings EXCEPT ![h] = 0]

OwnsNone(p) == \A h \in Houses : owner[h] # p

\* buyhouse.lua
BuyHouse(p, h) ==
  /\ p \in online /\ owner[h] = None /\ OwnsNone(p)
  /\ SetOwner(h, p)
  /\ UNCHANGED <<deed, editHouse, bedItem, kicks>>

\* leavehouse.lua
LeaveHouse(p, h) ==
  /\ p \in online /\ inHouse[p] = h /\ owner[h] = p
  /\ SetOwner(h, None)
  /\ UNCHANGED <<deed, editHouse, bedItem, kicks>>

\* sellhouse.lua and luaHouseStartTrade: one deed of a house at a time.
StartDeed(p, q, h) ==
  /\ {p, q} \subseteq online /\ p # q /\ inHouse[p] = h /\ owner[h] = p /\ OwnsNone(q)
  /\ deed[h] = None
  /\ deed' = [deed EXCEPT ![h] = [maker |-> p, partner |-> q]]
  /\ UNCHANGED <<owner, subOwners, guests, warnings, inHouse, editHouse, bedItem, sleeper, bedOf, kicks, saved>>

\* House::resetTransferItem, as the trade is closed.
CloseDeed(h) ==
  /\ deed[h] # None
  /\ deed' = [deed EXCEPT ![h] = None]
  /\ UNCHANGED <<owner, subOwners, guests, warnings, inHouse, editHouse, bedItem, sleeper, bedOf, kicks, saved>>

\* House::executeTransfer: only the deed itself is looked at.
ExecuteTransfer(h) ==
  /\ deed[h] # None
  /\ SetOwner(h, deed[h].partner)
  /\ deed' = [deed EXCEPT ![h] = None]
  /\ UNCHANGED <<editHouse, bedItem, kicks>>
-----------------------------------------------------------------------------
(* Players come and go, the server is saved, stopped and started.          *)

\* The tile of a house sends the uninvited to its entry (HouseTile::queryDestination),
\* and a sleeper is woken (Player::onCreatureAppear).
HouseLogin(p) ==
  /\ inHouse' = [inHouse EXCEPT ![p] = IF @ # Outside /\ ~Invited(@, p) THEN Outside ELSE @]
  /\ AwakeIn({b \in Beds : bedOf[p] = b})
  /\ UNCHANGED <<owner, subOwners, guests, warnings, deed, editHouse, bedItem, kicks, saved>>

\* Its windows go with the player, its trades are closed.
HouseLogout(p) ==
  /\ deed' = [h \in Houses |->
       IF deed[h] # None /\ p \in {deed[h].maker, deed[h].partner} THEN None ELSE deed[h]]
  /\ editHouse' = [editHouse EXCEPT ![p] = None]
  /\ bedItem' = [bedItem EXCEPT ![p] = None]
  /\ kicks' = kicks \ {p}
  /\ UNCHANGED <<owner, subOwners, guests, warnings, inHouse, sleeper, bedOf, saved>>

\* Map::save: IOMapSerialize::saveHouseInfo and saveHouseItems.
HouseSave ==
  /\ saved' = [owner |-> owner, subOwners |-> subOwners, guests |-> guests,
               warnings |-> warnings, sleeper |-> sleeper]
  /\ UNCHANGED <<owner, subOwners, guests, warnings, deed, inHouse, editHouse, bedItem, sleeper, bedOf, kicks>>

\* The server is gone and starts again: IOMapSerialize::loadHouseInfo and
\* loadHouseItems, then Houses::payHouses.  A house whose rent is not paid gets a
\* warning, and after the last one it has no owner; rents that are paid change
\* nothing here (in particular not the warnings).
Restart(warned, lost) ==
  LET was == saved.owner
      Kept(h, x, none) == IF h \in lost THEN none ELSE x
      slept == [b \in Beds |-> Kept(HouseOf[b], saved.sleeper[b], None)]
  IN /\ warned \cup lost \subseteq {h \in Houses : was[h] # None} /\ warned \cap lost = {}
     /\ \A h \in warned : saved.warnings[h] < MaxWarnings
     /\ \A h \in lost : saved.warnings[h] >= MaxWarnings
     /\ owner' = [h \in Houses |-> Kept(h, was[h], None)]
     /\ subOwners' = [h \in Houses |-> Kept(h, saved.subOwners[h], {})]
     /\ guests' = [h \in Houses |-> Kept(h, saved.guests[h], {})]
     /\ warnings' = [h \in Houses |->
          Kept(h, saved.warnings[h] + (IF h \in warned THEN 1 ELSE 0), 0)]
     /\ saved' = [saved EXCEPT !.owner = owner']
     /\ sleeper' = slept
     /\ bedOf' \in [Players -> Beds \cup {None}]
     /\ \A p \in Players :
          IF \E b \in Beds : slept[b] = p THEN bedOf'[p] # None /\ slept[bedOf'[p]] = p
                                          ELSE bedOf'[p] = None
     /\ deed' = NobodyIn(Houses) /\ editHouse' = NobodyIn(Players) /\ bedItem' = NobodyIn(Players)
     /\ kicks' = {}
     /\ UNCHANGED inHouse

OwnerNext == \E p \in Players, h \in Houses : BuyHouse(p, h) \/ LeaveHouse(p, h)

WalkNext == \E p \in Players : WalkOut(p) \/ \E h \in Houses : WalkIn(p, h)

ListNext(lists) ==
  \/ \E p \in Players, h \in Houses, list \in lists : EditList(p, h, list)
  \/ \E p \in Players, names \in SUBSET Players : UpdateHouseWindow(p, names)

DeedNext ==
  \/ \E p, q \in Players, h \in Houses : StartDeed(p, q, h) \/ CastKick(p, q, h)
  \/ \E h \in Houses : CloseDeed(h) \/ ExecuteTransfer(h)

BedNext ==
  \/ \E p \in Players, b \in Beds : UseBed(p, b)
  \/ \E p \in Players : GoToSleep(p) \/ StayAwake(p)
-----------------------------------------------------------------------------
\* Nobody is in a house whose owner has not let it in, however the house changed
\* hands or lists while it was there or away; but for a player who answers the
\* dialog of a bed late: it is put on the bed unasked (game.cpp:5536, bed.cpp:168)
\* and is about to be kicked.
InsideAreInvited ==
  \A p \in online, h \in Houses : inHouse[p] = h => Invited(h, p) \/ p \in kicks

\* Whoever the map of sleepers says lies in a bed does, and lies there for as long
\* as it is away: a player in the game with a bed is about to be kicked.
BedsAgree ==
  \A p \in Players : bedOf[p] # None =>
    /\ sleeper[bedOf[p]] = p
    /\ p \in online => p \in kicks

\* A house without an owner has no lists, and who buys it starts with none
\* (house.cpp:80, "clean access lists").
OwnerlessHasNoLists ==
  \A h \in Houses : owner[h] = None => subOwners[h] = {} /\ guests[h] = {}
=============================================================================
