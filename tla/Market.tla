------------------------------- MODULE Market -------------------------------
(***************************************************************************)
(* The market (game.cpp 5096-5431, iomarket.cpp): offers live in the       *)
(* database and hold what was put into them; bank balances and inboxes     *)
(* live in memory while their player is in the game and in the database    *)
(* while it is not.  An offer that is too old is found by a query of the   *)
(* database thread and paid back when the answer comes to the game thread, *)
(* with players dealing in between.                                        *)
(***************************************************************************)
EXTENDS Roster, FiniteSetsExt

CONSTANTS
  OfferIds,
  Amounts,    \* what a player may put in an offer, or ask of it
  Price,      \* of one piece
  Fee,        \* the fee of an offer
  Gold,       \* what a player has at first: gold in the bank,
  Goods,      \* and pieces in the depot
  MaxMinted   \* bound: no search for old offers once this much was paid twice

ASSUME MarketAssumption ==
  /\ {Price, Gold, Goods, MaxMinted} \subseteq Nat /\ Amounts \subseteq Nat \ {0} /\ Fee \in Nat \ {0}
  /\ IsFiniteSet(Players) /\ IsFiniteSet(OfferIds)
  /\ None \notin [owner : Players, sells : BOOLEAN, amount : Nat]

VARIABLES
  live,    \* bank balance and depot of a player in the game
  stored,  \* and as the database has them
  offers,  \* market_offers
  asked,   \* a search for old offers waits for the database thread
  rows,    \* the offers in its answer, as they were
  minted   \* history: gold and goods that came from nowhere, less the fees

marketVars == <<live, stored, offers, asked, rows, minted>>

Nothing == [gold |-> 0, goods |-> 0]
Active == {i \in OfferIds : offers[i] # None}
Answered == {i \in OfferIds : rows[i] # None}

MarketInit ==
  /\ live = [p \in Players |-> [gold |-> Gold, goods |-> Goods]]
  /\ stored = live
  /\ offers = [i \in OfferIds |-> None]
  /\ asked = FALSE
  /\ rows = offers
  /\ minted = Nothing
-----------------------------------------------------------------------------
(* Handlers are functions of the purses, in memory and in the database.    *)

Purses == [live |-> live, stored |-> stored]
Add(purse, gold, goods) == [gold |-> purse.gold + gold, goods |-> purse.goods + goods]

\* Mutant: the database is credited also while the player is in the game.
Credit_stored(s, p, gold, goods) == [s EXCEPT !.stored[p] = Add(@, gold, goods)]

\* A player in the game is credited in memory; for another one the database is
\* updated (increaseBankBalance), or the player is loaded, given the items, and saved.
Credit(s, p, gold, goods) ==
  IF p \in online THEN [s EXCEPT !.live[p] = Add(@, gold, goods)]
                  ELSE [s EXCEPT !.stored[p] = Add(@, gold, goods)]

Debit(s, p, gold, goods) == [s EXCEPT !.live[p] = Add(@, -gold, -goods)]
Affords(p, gold, goods) == live[p].gold >= gold /\ live[p].goods >= goods
SetPurses(s) == live' = s.live /\ stored' = s.stored

\* What an offer holds: the goods to be sold, or the gold to pay with.
EscrowGold(o) == IF o = None \/ o.sells THEN 0 ELSE o.amount * Price
EscrowGoods(o) == IF o # None /\ o.sells THEN o.amount ELSE 0

\* A new row has an id no row has or had while an answer may still name it.
Fresh(i) == i \notin Active \cup Answered

\* Game::playerCreateMarketOffer
CreateOffer(p, i, o) ==
  /\ p \in online /\ o.owner = p /\ Fresh(i)
  /\ Affords(p, EscrowGold(o) + Fee, EscrowGoods(o))
  /\ SetPurses(Debit(Purses, p, EscrowGold(o) + Fee, EscrowGoods(o)))
  /\ offers' = [offers EXCEPT ![i] = o]
  /\ minted' = [minted EXCEPT !.gold = @ - Fee]
  /\ UNCHANGED <<asked, rows>>

\* Game::playerCancelMarketOffer
CancelOffer(p, i) ==
  /\ p \in online /\ i \in Active /\ offers[i].owner = p
  /\ SetPurses(Credit(Purses, p, EscrowGold(offers[i]), EscrowGoods(offers[i])))
  /\ offers' = [offers EXCEPT ![i] = None]
  /\ UNCHANGED <<asked, rows, minted>>

\* What is left of an offer: nothing is deleted, less is updated.
Reduced(o, n) == IF o.amount = n THEN None ELSE [o EXCEPT !.amount = @ - n]

\* Game::playerAcceptMarketOffer: the one who accepts is in the game, the one who
\* offered may not be, or may be the same.
AcceptOffer(p, i, n) ==
  /\ p \in online /\ i \in Active /\ n <= offers[i].amount
  /\ LET o == offers[i]
         gold == IF o.sells THEN n * Price ELSE 0
         goods == IF o.sells THEN 0 ELSE n
         paid == Debit(Purses, p, gold, goods)
         served == Credit(paid, p, n * Price - gold, n - goods)
     IN /\ Affords(p, gold, goods)
        /\ SetPurses(Credit(served, o.owner, gold, goods))
        /\ offers' = [offers EXCEPT ![i] = Reduced(o, n)]
  /\ UNCHANGED <<asked, rows, minted>>
-----------------------------------------------------------------------------
(* Offers that are too old.                                                *)

\* IOMarket::checkExpiredOffers, from the timer: the query goes to the database thread.
CheckExpiredOffers ==
  /\ ~asked /\ Answered = {}
  /\ minted.gold <= MaxMinted /\ minted.goods <= MaxMinted
  /\ asked' = TRUE
  /\ UNCHANGED <<live, stored, offers, rows, minted>>

\* The database thread finds the old offers, whichever these are.
QueryRuns(old) ==
  /\ asked /\ old \subseteq Active
  /\ asked' = FALSE
  /\ rows' = [i \in OfferIds |-> IF i \in old THEN offers[i] ELSE None]
  /\ UNCHANGED <<live, stored, offers, minted>>

\* moveOfferToHistory fails for an offer that is no longer in the database.
StillThere(i) == offers[i] # None
Due == {i \in Answered : StillThere(i)}

\* What a row of the answer pays, and how much more than the offer holds by now.
PayBack(i, s) == Credit(s, rows[i].owner, EscrowGold(rows[i]), EscrowGoods(rows[i]))
Excess(i) ==
  IF i \in Due THEN [gold |-> EscrowGold(rows[i]) - EscrowGold(offers[i]),
                    goods |-> EscrowGoods(rows[i]) - EscrowGoods(offers[i])]
               ELSE Nothing

\* IOMarket::processExpiredOffers: what is deleted is the offer as it is now,
\* what is paid is the amount of the answer.  Queries succeed: a kind or an owner
\* that is not found would end with the offer deleted and nothing paid.  The inbox
\* refuses nothing that may be dealt in, with FLAG_NOLIMIT.
ProcessExpiredOffers ==
  /\ Answered # {}
  /\ SetPurses(FoldSet(PayBack, Purses, Due))
  /\ offers' = [i \in OfferIds |-> IF i \in Due THEN None ELSE offers[i]]
  /\ minted' = Add(minted, SumFunction([i \in OfferIds |-> Excess(i).gold]),
                           SumFunction([i \in OfferIds |-> Excess(i).goods]))
  /\ rows' = [i \in OfferIds |-> None]
  /\ UNCHANGED asked
-----------------------------------------------------------------------------
(* Players come and go.                                                    *)

\* IOLoginData::loadPlayerByName
MarketLogin(p) ==
  /\ live' = [live EXCEPT ![p] = stored[p]]
  /\ UNCHANGED <<stored, offers, asked, rows, minted>>

\* IOLoginData::savePlayer, as the player leaves; the object is deleted.
MarketLogout(p) ==
  /\ stored' = [stored EXCEPT ![p] = live[p]]
  /\ live' = [live EXCEPT ![p] = Nothing]
  /\ UNCHANGED <<offers, asked, rows, minted>>

MarketNext ==
  \/ \E p \in Players, i \in OfferIds :
       \/ \E n \in Amounts, sells \in BOOLEAN :
            CreateOffer(p, i, [owner |-> p, sells |-> sells, amount |-> n])
       \/ CancelOffer(p, i)
       \/ \E n \in Amounts : AcceptOffer(p, i, n)
  \/ CheckExpiredOffers \/ ProcessExpiredOffers
  \/ \E old \in SUBSET OfferIds : QueryRuns(old)
-----------------------------------------------------------------------------

\* What a player has, wherever it is kept.
Belongings(p) == IF p \in online THEN live[p] ELSE stored[p]

\* Nothing is lost or doubled by offers, acceptances, cancellations, log-ins,
\* log-outs and saves in any order: all there is, in purses and in offers, is what
\* there was at first, less the fees, plus what processExpiredOffers pays for an
\* offer that was accepted in part between its query and its answer.  And nobody
\* spends what it has not.
Accounted ==
  /\ \A p \in Players : Belongings(p).gold >= 0 /\ Belongings(p).goods >= 0
  /\ SumFunction([p \in Players |-> Belongings(p).gold])
       + SumFunction([i \in OfferIds |-> EscrowGold(offers[i])])
     = Cardinality(Players) * Gold + minted.gold
  /\ SumFunction([p \in Players |-> Belongings(p).goods])
       + SumFunction([i \in OfferIds |-> EscrowGoods(offers[i])])
     = Cardinality(Players) * Goods + minted.goods
=============================================================================
