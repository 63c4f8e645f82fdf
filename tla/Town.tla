-------------------------------- MODULE Town --------------------------------
(***************************************************************************)
(* What links players to one another and to what they own, while they come *)
(* and go: parties, chat, trades, the market, houses and beds, over the    *)
(* list of players that are in the game.  A log-out must undo every link   *)
(* in one step, because the others go on with pointers to the player that  *)
(* the game is about to free.                                              *)
(*                                                                         *)
(* The parts meet in the log-ins and log-outs only, so a behaviour plays a *)
(* few of them, its scene, and the rest stay as they were: the states are  *)
(* a sum over the scenes and not a product.                                *)
(***************************************************************************)
EXTENDS Chat, Trade, Market, House, Decay, TLC

CONSTANTS
  Scenes,  \* bound: what the behaviours are about
  Crowd    \* bound: players in the game at once, per scene

VARIABLE scene

townVars ==
  <<scene, online, partyVars, chatVars, tradeVars, marketVars, houseVars, decayVars>>

Init ==
  /\ scene \in Scenes
  /\ online \in SUBSET Players /\ Cardinality(online) = Crowd[scene]
  /\ PartyInit
  /\ ChatInit
  /\ TradeInit
  /\ MarketInit
  /\ HouseInit
  /\ DecayInit

\* Player::onRemoveCreature: trade, invitations, party, channels, guild, and the save.
Logout(p) ==
  /\ Leaves(p)
  /\ TradeLogout(p)
  /\ PartyLogout(p)
  /\ ChatLogout(p)
  /\ MarketLogout(p)
  /\ HouseLogout(p)
  /\ UNCHANGED <<scene, parent, place, decayVars>>

\* Player::onCreatureAppear, with what loadPlayer has read.
Login(p) ==
  /\ Enters(p) /\ Cardinality(online) < Crowd[scene]
  /\ ChatLogin(p)
  /\ MarketLogin(p)
  /\ HouseLogin(p)
  /\ UNCHANGED <<scene, partyVars, tradeVars, decayVars>>

InScene(s) == scene = s /\ UNCHANGED <<scene, online>>

HouseScene ==
  \/ InScene("lists") /\ (OwnerNext \/ WalkNext \/ DeedNext \/ ListNext({"subOwners", "guests"}))
  \/ InScene("beds") /\ (OwnerNext \/ WalkNext \/ BedNext \/ ListNext({"guests"}))
  \/ InScene("restarts") /\ (OwnerNext \/ BedNext \/ HouseSave)
  \/ InScene("listsSaved") /\ (OwnerNext \/ WalkNext \/ ListNext({"guests"}) \/ HouseSave)

\* The server goes down, whether it has saved or not, and starts again.
RestartScene ==
  /\ scene \in {"restarts", "listsSaved"} /\ online' = {}
  /\ \E warned, lost \in SUBSET Houses : Restart(warned, lost)
  /\ ChatRestart
  /\ UNCHANGED scene

Next ==
  \/ /\ InScene("parties") /\ PartyNext
     /\ UNCHANGED <<chatVars, tradeVars, marketVars, houseVars, decayVars>>
  \/ /\ InScene("trades") /\ TradeNext
     /\ UNCHANGED <<partyVars, chatVars, marketVars, houseVars, decayVars>>
  \/ /\ InScene("chat") /\ PartyNext
     /\ UNCHANGED <<chatVars, tradeVars, marketVars, houseVars, decayVars>>
  \/ /\ InScene("chat") /\ ChatNext
     /\ UNCHANGED <<partyVars, tradeVars, marketVars, houseVars, decayVars>>
  \/ /\ InScene("market") /\ MarketNext
     /\ UNCHANGED <<partyVars, chatVars, tradeVars, houseVars, decayVars>>
  \/ /\ HouseScene
     /\ UNCHANGED <<partyVars, chatVars, tradeVars, marketVars, decayVars>>
  \/ /\ InScene("decay") /\ DecayNext
     /\ UNCHANGED <<partyVars, chatVars, tradeVars, marketVars, houseVars>>
  \/ /\ RestartScene
     /\ UNCHANGED <<partyVars, tradeVars, marketVars, decayVars>>
  \/ \E p \in Players : Logout(p) \/ Login(p)

Spec == Init /\ [][Next]_townVars
-----------------------------------------------------------------------------
\* Nobody in the game can still reach a player that has left it: no party has
\* it as its leader, member or guest, no channel or guild lists it, no trade has it as
\* its partner, no item is locked for it, no deed is made out by or to it
\* (player.cpp:1172-1190; the pointers would outlive the player).
NobodyRefersToTheGone ==
  \A p \in Players \ online :
    /\ ~PartyKnows(p) /\ ~ChatKnows(p)
    /\ \A q \in Players : tradePartner[q] # p
    /\ \A i \in Items : tradeItems[i] # p
    /\ \A h \in Houses : deed[h] # None => p \notin {deed[h].maker, deed[h].partner}

\* TLC's form of the action property of Trade.
OfferStands == [][OfferedUntouched]_townVars

\* Three for what three may do to one another; one at a time for the restarts.
CrowdOf == [s \in Scenes |->
  IF s \in {"parties", "trades", "lists"} THEN 3 ELSE IF s = "restarts" THEN 1
  ELSE IF s = "decay" THEN 0 ELSE 2]

\* All are in one guild.
TheGuild == [p \in Players |-> CHOOSE g \in Guilds : TRUE]

\* All beds are in one house.
TheHouse == [b \in Beds |-> CHOOSE h \in Houses : TRUE]

\* Decaying kinds as in items.xml: a clock that is used, a ring that is worn and keeps
\* its time when it is taken off, a corpse that turns into bones and these into nothing,
\* and one that turns into remains that stay (Koshei's).
DecayToOf == [k \in Kinds |->
  CASE k = "on" -> "off" [] k = "off" -> "on" [] k = "worn" -> NoItem
    [] k = "corpse" -> "bones" [] k = "bones" -> NoItem
    [] k = "Koshei" -> "remains" [] k = "remains" -> NoItem [] OTHER -> Never]
DecayTimeOf == [k \in Kinds |->
  CASE k = "on" -> 6 [] k = "off" -> 5 [] k = "worn" -> 11 [] k = "corpse" -> 4 [] k = "bones" -> 8
    [] k = "Koshei" -> 4 [] OTHER -> 0]
UsedToOf == [k \in Kinds |->
  CASE k = "on" -> "off" [] k = "off" -> "on" [] k = "worn" -> "bare" [] k = "bare" -> "worn"
    [] OTHER -> Never]
ClassOf == [k \in Kinds |-> IF k = "bones" THEN 1 ELSE 0]

\* TLC's form of the action property of Decay.
DecayKeepsTime == [][DecaysInTime]_townVars

\* Players are alike, and so are offers and the beds of a house.
Symmetry ==
  Permutations(Players) \cup Permutations(OfferIds) \cup Permutations(Beds)
=============================================================================
