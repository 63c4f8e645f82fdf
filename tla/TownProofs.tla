----------------------------- MODULE TownProofs -----------------------------
(***************************************************************************)
(* Theorems about module Town, for any players, parties, guilds, channels, *)
(* houses, beds, items, containers, offers and kinds.  DealingsProofs has  *)
(* what parties, trades and the market do; here are the houses, the        *)
(* channels, the guilds, the deeds and what decays, and the log-ins,       *)
(* log-outs and restarts of all of them.                                   *)
(***************************************************************************)
EXTENDS Town, DealingsProofs, DataInduction
-----------------------------------------------------------------------------
(* Houses and beds.                                                        *)


Somebody == Players \cup {None}
AccessLists == {"subOwners", "guests"}

HouseTypeOK ==
  /\ online \subseteq Players
  /\ owner \in [Houses -> Somebody]
  /\ subOwners \in [Houses -> SUBSET Players] /\ guests \in [Houses -> SUBSET Players]
  /\ warnings \in [Houses -> Nat]
  /\ deed \in [Houses -> [maker : Players, partner : Players] \cup {None}]
  /\ inHouse \in [Players -> Houses \cup {Outside}]
  /\ editHouse \in [Players -> [house : Houses, list : AccessLists] \cup {None}]
  /\ bedItem \in [Players -> Beds \cup {None}]
  /\ sleeper \in [Beds -> Somebody] /\ bedOf \in [Players -> Beds \cup {None}]
  /\ kicks \subseteq Players

SavedTypeOK ==
  saved \in [owner : [Houses -> Somebody],
             subOwners : [Houses -> SUBSET Players], guests : [Houses -> SUBSET Players],
             warnings : [Houses -> Nat], sleeper : [Beds -> Somebody]]

\* Each of the two invariants is inductive as it stands, once the types are known.
HouseInv == HouseTypeOK /\ SavedTypeOK /\ InsideAreInvited /\ BedsAgree

\* What players do in and to their houses between log-ins and restarts.
HouseStep ==
  OwnerNext \/ WalkNext \/ DeedNext \/ BedNext \/ HouseSave \/ ListNext(AccessLists)
-----------------------------------------------------------------------------
\* Who is invited: the owner and those on a list.
LEMMA InvitedAre ==
  ASSUME NEW h \in Houses, NEW p \in Players
  PROVE  Invited(h, p) <=> p = owner[h] \/ p \in subOwners[h] \/ p \in guests[h]
BY DEF Invited, AccessLevel

\* A server starts with houses nobody owns and beds nobody sleeps in.
LEMMA HouseStart == HouseInit /\ online \subseteq Players => HouseInv
BY RosterAssumption, HouseAssumption
DEF HouseInit, NobodyIn, NoLists, HouseInv, HouseTypeOK, SavedTypeOK, Somebody, InsideAreInvited,
    BedsAgree

\* Waking sleepers takes from the map of sleepers exactly those it takes from a bed.
LEMMA Awake ==
  ASSUME HouseInv, NEW beds, AwakeIn(beds)
  PROVE  /\ sleeper' \in [Beds -> Somebody] /\ bedOf' \in [Players -> Beds \cup {None}]
         /\ \A p \in Players :
              bedOf'[p] # None => bedOf[p] # None /\ bedOf'[p] = bedOf[p] /\ sleeper'[bedOf[p]] = p
         /\ \A p \in Players : bedOf[p] \in beds \ {None} => bedOf'[p] = None
<1>1. sleeper' \in [Beds -> Somebody] /\ bedOf' \in [Players -> Beds \cup {None}]
  BY DEF AwakeIn, HouseInv, HouseTypeOK, Somebody
<1>2. ASSUME NEW p \in Players, bedOf'[p] # None
      PROVE  bedOf[p] # None /\ bedOf'[p] = bedOf[p] /\ sleeper'[bedOf[p]] = p
  <2>1. bedOf'[p] = bedOf[p] /\ ~\E b \in beds : sleeper[b] = p
    BY <1>2 DEF AwakeIn
  <2>2. bedOf[p] \in Beds /\ sleeper[bedOf[p]] = p
    BY <1>2, <2>1 DEF HouseInv, HouseTypeOK, BedsAgree
  <2> QED
    BY <1>2, <2>1, <2>2 DEF AwakeIn
<1>3. ASSUME NEW p \in Players, bedOf[p] \in beds \ {None} PROVE bedOf'[p] = None
  BY <1>3 DEF AwakeIn, HouseInv, BedsAgree
<1> QED
  BY <1>1, <1>2, <1>3

\* A new owner is not in the way of anybody who stays inside.
LEMMA OwnerSet ==
  ASSUME HouseInv, NEW h \in Houses, NEW p \in Somebody, SetOwner(h, p),
         p = None => owner[h] # None, UNCHANGED <<online, kicks, editHouse, bedItem>>,
         deed' \in [Houses -> [maker : Players, partner : Players] \cup {None}]
  PROVE  HouseInv'
<1>1. SavedTypeOK'
  BY DEF SetOwner, HouseInv, SavedTypeOK
<1>2. owner' = [owner EXCEPT ![h] = p]
  BY DEF SetOwner
<1>3. CASE owner[h] \in {None, p}
  <2>1. UNCHANGED <<subOwners, guests, warnings, inHouse, sleeper, bedOf>>
    BY <1>3 DEF SetOwner
  <2>2. HouseTypeOK' /\ BedsAgree'
    BY <1>2, <2>1 DEF HouseInv, HouseTypeOK, BedsAgree
  <2>3. InsideAreInvited'
    BY <1>2, <1>3, <2>1, RosterAssumption
    DEF HouseInv, HouseTypeOK, InsideAreInvited, Invited, AccessLevel
  <2> QED
    BY <1>1, <2>2, <2>3 DEF HouseInv
<1>4. CASE owner[h] \notin {None, p}
  <2>1. /\ Kick(Inside(h)) /\ AwakeIn(BedsToClear(h))
        /\ subOwners' = [subOwners EXCEPT ![h] = {}]
        /\ guests' = [guests EXCEPT ![h] = {}]
        /\ warnings' = [warnings EXCEPT ![h] = 0]
    BY <1>4 DEF SetOwner
  <2>2. inHouse' \in [Players -> Houses \cup {Outside}]
    BY <2>1 DEF Kick, HouseInv, HouseTypeOK
  <2>3. HouseTypeOK'
    BY <1>2, <2>1, <2>2, Awake DEF HouseInv, HouseTypeOK
  <2>4. BedsAgree'
    BY <2>1, Awake DEF HouseInv, BedsAgree
  <2>5. ASSUME NEW q \in online, NEW k \in Houses, inHouse'[q] = k PROVE Invited(k, q)' \/ q \in kicks
    <3>1. k # h /\ inHouse[q] = k
      BY <2>1, <2>5, HouseAssumption DEF Kick, Inside, HouseInv, HouseTypeOK
    <3>2. owner'[k] = owner[k] /\ subOwners'[k] = subOwners[k] /\ guests'[k] = guests[k]
      BY <1>2, <2>1, <3>1 DEF HouseInv, HouseTypeOK
    <3> QED
      BY <3>1, <3>2 DEF HouseInv, InsideAreInvited, Invited, AccessLevel
  <2> QED
    BY <1>1, <2>3, <2>4, <2>5 DEF HouseInv, InsideAreInvited
<1> QED
  BY <1>3, <1>4
-----------------------------------------------------------------------------
\* A list that is replaced kicks everybody it no longer invites.
LEMMA ListSet ==
  ASSUME HouseInv, NEW h \in Houses, NEW list \in AccessLists, NEW names \in SUBSET Players,
         SetAccessList(h, list, names), UNCHANGED <<online, owner, kicks>>
  PROVE  /\ subOwners' \in [Houses -> SUBSET Players] /\ guests' \in [Houses -> SUBSET Players]
         /\ inHouse' \in [Players -> Houses \cup {Outside}]
         /\ InsideAreInvited'
<1>1. /\ subOwners' = [subOwners EXCEPT ![h] = IF list = "subOwners" THEN names ELSE @]
      /\ guests' = [guests EXCEPT ![h] = IF list = "guests" THEN names ELSE @]
      /\ Kick(Inside(h) \ ({owner[h]} \cup names \cup (IF list = "guests" THEN subOwners[h] ELSE guests[h])))
  BY DEF SetAccessList, Uninvited
<1>2. /\ subOwners' \in [Houses -> SUBSET Players] /\ guests' \in [Houses -> SUBSET Players]
      /\ inHouse' \in [Players -> Houses \cup {Outside}]
  BY <1>1 DEF HouseInv, HouseTypeOK, Kick
<1>3. ASSUME NEW q \in online, NEW k \in Houses, inHouse'[q] = k PROVE Invited(k, q)' \/ q \in kicks
  <2>1. inHouse[q] = k /\ q \in Players
    BY <1>1, <1>3, HouseAssumption DEF Kick, HouseInv, HouseTypeOK
  <2>2. CASE k = h
    <3>1. q \in {owner[h]} \cup names \cup (IF list = "guests" THEN subOwners[h] ELSE guests[h])
      BY <1>1, <1>3, <2>1, <2>2, HouseAssumption DEF Kick, Inside
    <3>2. q = owner'[h] \/ q \in subOwners'[h] \/ q \in guests'[h]
      BY <1>1, <3>1 DEF AccessLists, HouseInv, HouseTypeOK
    <3> QED
      BY <2>2, <3>2 DEF Invited, AccessLevel
  <2>3. CASE k # h
    <3>1. owner'[k] = owner[k] /\ subOwners'[k] = subOwners[k] /\ guests'[k] = guests[k]
      BY <1>1, <2>3 DEF HouseInv, HouseTypeOK
    <3> QED
      BY <2>1, <3>1 DEF HouseInv, InsideAreInvited, Invited, AccessLevel
  <2> QED
    BY <2>2, <2>3
<1> QED
  BY <1>2, <1>3 DEF InsideAreInvited

\* Every step of the houses and beds while the players stay keeps their invariant.
LEMMA HouseKept == HouseInv /\ HouseStep /\ UNCHANGED online => HouseInv'
<1> SUFFICES ASSUME HouseInv, HouseStep, UNCHANGED online PROVE HouseInv'
  OBVIOUS
<1> DEFINE lists == <<owner, subOwners, guests, warnings>>
           beds == <<sleeper, bedOf>>
\* The invariants of what a step leaves alone.
<1>a. ASSUME UNCHANGED <<beds, kicks>> PROVE BedsAgree'
  BY <1>a DEF HouseInv, BedsAgree
<1>b. ASSUME UNCHANGED <<lists, kicks, inHouse>> PROVE InsideAreInvited'
  BY <1>b DEF HouseInv, InsideAreInvited, Invited, AccessLevel
<1>1. ASSUME NEW p \in Players, NEW h \in Houses, BuyHouse(p, h) PROVE HouseInv'
  <2>1. SetOwner(h, p) /\ UNCHANGED <<deed, editHouse, bedItem, kicks>>
    BY <1>1 DEF BuyHouse
  <2> QED
    BY <2>1, OwnerSet, RosterAssumption DEF Somebody, HouseInv, HouseTypeOK
<1>2. ASSUME NEW p \in Players, NEW h \in Houses, LeaveHouse(p, h) PROVE HouseInv'
  <2>1. SetOwner(h, None) /\ owner[h] = p /\ UNCHANGED <<deed, editHouse, bedItem, kicks>>
    BY <1>2 DEF LeaveHouse
  <2> QED
    BY <2>1, OwnerSet, RosterAssumption DEF Somebody, HouseInv, HouseTypeOK
<1>3. ASSUME NEW h \in Houses, ExecuteTransfer(h) PROVE HouseInv'
  <2>1. /\ SetOwner(h, deed[h].partner) /\ deed' = [deed EXCEPT ![h] = None]
        /\ UNCHANGED <<editHouse, bedItem, kicks>> /\ deed[h] # None
    BY <1>3 DEF ExecuteTransfer
  <2>2. deed[h].partner \in Players
    BY <2>1 DEF HouseInv, HouseTypeOK
  <2>3. deed' \in [Houses -> [maker : Players, partner : Players] \cup {None}]
    BY <2>1 DEF HouseInv, HouseTypeOK
  <2> QED
    BY <2>1, <2>2, <2>3, OwnerSet, RosterAssumption DEF Somebody
<1>4. ASSUME NEW p \in Players, NEW h \in Houses, WalkIn(p, h) PROVE HouseInv'
  <2>1. inHouse' = [inHouse EXCEPT ![p] = h] /\ Invited(h, p)
        /\ UNCHANGED <<lists, beds, kicks, deed, editHouse, bedItem, saved>>
    BY <1>4 DEF WalkIn
  <2>2. HouseTypeOK' /\ SavedTypeOK'
    BY <2>1 DEF HouseInv, HouseTypeOK, SavedTypeOK
  <2>3. InsideAreInvited'
    BY <2>1 DEF HouseInv, HouseTypeOK, InsideAreInvited, Invited, AccessLevel
  <2> QED
    BY <1>a, <2>1, <2>2, <2>3 DEF HouseInv
<1>5. ASSUME NEW gone, Kick(gone),
             UNCHANGED <<lists, beds, kicks, deed, editHouse, bedItem, saved>>
      PROVE  HouseInv'
  <2>1. HouseTypeOK' /\ SavedTypeOK'
    BY <1>5 DEF Kick, HouseInv, HouseTypeOK, SavedTypeOK
  <2>2. InsideAreInvited'
    BY <1>5, HouseAssumption
    DEF Kick, HouseInv, HouseTypeOK, InsideAreInvited, Invited, AccessLevel
  <2> QED
    BY <1>a, <1>5, <2>1, <2>2 DEF HouseInv
<1>6. ASSUME NEW p \in Players PROVE WalkOut(p) => HouseInv'
  BY <1>5 DEF WalkOut
<1>15. ASSUME NEW p \in Players, NEW q \in Players, NEW h \in Houses
       PROVE  CastKick(p, q, h) => HouseInv'
  BY <1>5 DEF CastKick
<1>7. ASSUME NEW p \in Players, NEW h \in Houses, NEW list \in AccessLists, EditList(p, h, list)
      PROVE  HouseInv'
  <2>1. editHouse' = [editHouse EXCEPT ![p] = [house |-> h, list |-> list]]
        /\ UNCHANGED <<lists, beds, kicks, deed, inHouse, bedItem, saved>>
    BY <1>7 DEF EditList
  <2>2. HouseTypeOK' /\ SavedTypeOK'
    BY <2>1 DEF HouseInv, HouseTypeOK, SavedTypeOK
  <2> QED
    BY <1>a, <1>b, <2>1, <2>2 DEF HouseInv
<1>8. ASSUME NEW p \in Players, NEW names \in SUBSET Players, UpdateHouseWindow(p, names) PROVE HouseInv'
  <2>1. /\ editHouse[p] # None /\ editHouse' = [editHouse EXCEPT ![p] = None]
        /\ \/ SetAccessList(editHouse[p].house, editHouse[p].list, names)
           \/ UNCHANGED <<subOwners, guests, inHouse>>
        /\ UNCHANGED <<owner, warnings, deed, bedItem, beds, kicks, saved>>
    BY <1>8 DEF UpdateHouseWindow
  <2>2. editHouse[p].house \in Houses /\ editHouse[p].list \in AccessLists
    BY <2>1 DEF HouseInv, HouseTypeOK
  <2>3. /\ subOwners' \in [Houses -> SUBSET Players] /\ guests' \in [Houses -> SUBSET Players]
        /\ inHouse' \in [Players -> Houses \cup {Outside}]
        /\ InsideAreInvited'
    <3>1. CASE SetAccessList(editHouse[p].house, editHouse[p].list, names)
      BY <2>1, <2>2, <3>1, ListSet
    <3>2. CASE UNCHANGED <<subOwners, guests, inHouse>>
      BY <1>b, <2>1, <3>2 DEF HouseInv, HouseTypeOK
    <3> QED
      BY <2>1, <3>1, <3>2
  <2>4. HouseTypeOK' /\ SavedTypeOK'
    BY <2>1, <2>3 DEF HouseInv, HouseTypeOK, SavedTypeOK
  <2> QED
    BY <1>a, <2>1, <2>3, <2>4 DEF HouseInv
<1>9. ASSUME NEW p \in Players, NEW b \in Beds, UseBed(p, b) PROVE HouseInv'
  <2>1. /\ UNCHANGED <<lists, deed, inHouse, editHouse, kicks, saved>>
        /\ \/ bedItem' = [bedItem EXCEPT ![p] = b] /\ UNCHANGED beds
           \/ AwakeIn({b}) /\ UNCHANGED bedItem
    BY <1>9 DEF UseBed
  <2>2. BedsAgree' /\ HouseTypeOK'
    <3>1. CASE bedItem' = [bedItem EXCEPT ![p] = b] /\ UNCHANGED beds
      BY <1>a, <2>1, <3>1 DEF HouseInv, HouseTypeOK
    <3>2. CASE AwakeIn({b}) /\ UNCHANGED bedItem
      BY <2>1, <3>2, Awake DEF HouseInv, HouseTypeOK, BedsAgree
    <3> QED
      BY <2>1, <3>1, <3>2
  <2> QED
    BY <1>b, <2>1, <2>2 DEF HouseInv, SavedTypeOK
<1>10. ASSUME NEW p \in Players, GoToSleep(p) PROVE HouseInv'
  <2> DEFINE b == bedItem[p]
  <2>1. /\ b \in Beds /\ sleeper[b] = None /\ p # None /\ HouseOf[b] \in Houses
        /\ sleeper' = [sleeper EXCEPT ![b] = p] /\ bedOf' = [bedOf EXCEPT ![p] = b]
        /\ inHouse' = [inHouse EXCEPT ![p] = HouseOf[b]] /\ kicks' = kicks \cup {p}
        /\ bedItem' = [bedItem EXCEPT ![p] = None]
        /\ UNCHANGED <<lists, deed, editHouse, saved>>
    BY <1>10, RosterAssumption, HouseAssumption DEF GoToSleep, Free, HouseInv, HouseTypeOK
  <2> HIDE DEF b
  <2>2. HouseTypeOK' /\ SavedTypeOK'
    BY <2>1 DEF HouseInv, HouseTypeOK, SavedTypeOK, Somebody
  <2>3. InsideAreInvited'
    BY <2>1 DEF HouseInv, HouseTypeOK, InsideAreInvited, Invited, AccessLevel
  <2>4. BedsAgree'
    <3>1. \A q \in Players \ {p} : bedOf[q] # None => bedOf[q] # b
      BY <2>1, RosterAssumption DEF HouseInv, BedsAgree
    <3> QED
      BY <2>1, <3>1 DEF HouseInv, HouseTypeOK, BedsAgree
  <2> QED
    BY <2>2, <2>3, <2>4 DEF HouseInv
<1>11. ASSUME NEW p \in Players, StayAwake(p) PROVE HouseInv'
  <2>1. /\ bedItem' = [bedItem EXCEPT ![p] = None]
        /\ UNCHANGED <<lists, beds, kicks, deed, inHouse, editHouse, saved>>
    BY <1>11 DEF StayAwake
  <2>2. HouseTypeOK' /\ SavedTypeOK'
    BY <2>1 DEF HouseInv, HouseTypeOK, SavedTypeOK
  <2> QED
    BY <1>a, <1>b, <2>1, <2>2 DEF HouseInv
<1>12. ASSUME NEW h \in Houses, NEW d \in [maker : Players, partner : Players] \cup {None},
              deed' = [deed EXCEPT ![h] = d],
              UNCHANGED <<lists, beds, kicks, inHouse, editHouse, bedItem, saved>>
       PROVE  HouseInv'
  <2>1. deed' \in [Houses -> [maker : Players, partner : Players] \cup {None}]
    BY <1>12 DEF HouseInv, HouseTypeOK
  <2>2. HouseTypeOK' /\ SavedTypeOK'
    BY <1>12, <2>1 DEF HouseInv, HouseTypeOK, SavedTypeOK
  <2> QED
    BY <1>a, <1>b, <1>12, <2>2 DEF HouseInv
<1>13. ASSUME HouseSave PROVE HouseInv'
  <2>1. UNCHANGED <<lists, beds, kicks, deed, inHouse, editHouse, bedItem>>
    BY <1>13 DEF HouseSave
  <2>2. SavedTypeOK'
    BY <1>13 DEF HouseSave, HouseInv, HouseTypeOK, SavedTypeOK
  <2>3. HouseTypeOK'
    BY <2>1 DEF HouseInv, HouseTypeOK
  <2> QED
    BY <1>a, <1>b, <2>1, <2>2, <2>3 DEF HouseInv
<1>14. ASSUME NEW h \in Houses PROVE CloseDeed(h) => HouseInv'
  BY <1>12 DEF CloseDeed
<1>16. ASSUME NEW p \in Players, NEW q \in Players, NEW h \in Houses
       PROVE  StartDeed(p, q, h) => HouseInv'
  <2>1. [maker |-> p, partner |-> q] \in [maker : Players, partner : Players]
    OBVIOUS
  <2> QED
    BY <1>12, <2>1 DEF StartDeed
<1> QED
  <2>1. CASE OwnerNext
    BY <1>1, <1>2, <2>1 DEF OwnerNext
  <2>2. CASE WalkNext
    BY <1>4, <1>6, <2>2 DEF WalkNext
  <2>3. CASE DeedNext
    BY <1>3, <1>14, <1>15, <1>16, <2>3 DEF DeedNext
  <2>4. CASE BedNext
    BY <1>9, <1>10, <1>11, <2>4 DEF BedNext
  <2>5. CASE ListNext(AccessLists)
    BY <1>7, <1>8, <2>5 DEF ListNext
  <2> QED
    BY <1>13, <2>1, <2>2, <2>3, <2>4, <2>5 DEF HouseStep
-----------------------------------------------------------------------------
(* Players come and go, and the server goes down.                          *)

\* Who is back is not in bed, and is where its house lets it be.
LEMMA HouseCame ==
  ASSUME HouseInv, NEW p \in Players, online' = online \cup {p}, HouseLogin(p)
  PROVE  HouseInv'
<1> DEFINE slept == {b \in Beds : bedOf[p] = b}
<1>1. /\ inHouse' = [inHouse EXCEPT ![p] = IF @ # Outside /\ ~Invited(@, p) THEN Outside ELSE @]
      /\ AwakeIn(slept)
      /\ UNCHANGED <<owner, subOwners, guests, warnings, deed, editHouse, bedItem, kicks, saved>>
  BY DEF HouseLogin
<1>2. inHouse' \in [Players -> Houses \cup {Outside}]
  BY <1>1 DEF HouseInv, HouseTypeOK
<1>3. /\ sleeper' \in [Beds -> Somebody] /\ bedOf' \in [Players -> Beds \cup {None}]
      /\ \A q \in Players :
           bedOf'[q] # None => bedOf[q] # None /\ bedOf'[q] = bedOf[q] /\ sleeper'[bedOf[q]] = q
      /\ bedOf[p] \in slept \ {None} => bedOf'[p] = None
  BY <1>1, Awake
<1>4. HouseTypeOK' /\ SavedTypeOK'
  BY <1>1, <1>2, <1>3 DEF HouseInv, HouseTypeOK, SavedTypeOK
<1>5. BedsAgree'
  <2>1. bedOf'[p] = None
    BY <1>3 DEF HouseInv, HouseTypeOK
  <2> QED
    BY <1>1, <1>3, <2>1 DEF HouseInv, BedsAgree
<1>6. InsideAreInvited'
  BY <1>1, HouseAssumption DEF HouseInv, HouseTypeOK, InsideAreInvited, Invited, AccessLevel
<1> QED
  BY <1>4, <1>5, <1>6 DEF HouseInv

\* A log-out, which puts a player who is in a bed to sleep, keeps it.
LEMMA HouseLeft ==
  ASSUME HouseInv, NEW p \in Players, online' = online \ {p}, HouseLogout(p)
  PROVE  HouseInv'
<1>1. /\ deed' = [h \in Houses |->
           IF deed[h] # None /\ p \in {deed[h].maker, deed[h].partner} THEN None ELSE deed[h]]
      /\ editHouse' = [editHouse EXCEPT ![p] = None]
      /\ bedItem' = [bedItem EXCEPT ![p] = None]
      /\ kicks' = kicks \ {p}
      /\ UNCHANGED <<owner, subOwners, guests, warnings, inHouse, sleeper, bedOf, saved>>
  BY DEF HouseLogout
<1>2. deed' \in [Houses -> [maker : Players, partner : Players] \cup {None}]
  BY <1>1 DEF HouseInv, HouseTypeOK
<1>3. HouseTypeOK' /\ SavedTypeOK'
  BY <1>1, <1>2 DEF HouseInv, HouseTypeOK, SavedTypeOK
<1>4. BedsAgree' /\ InsideAreInvited'
  BY <1>1 DEF HouseInv, BedsAgree, InsideAreInvited, Invited, AccessLevel
<1> QED
  BY <1>3, <1>4 DEF HouseInv

\* After a start nobody is in the game, and the map of sleepers has only those the
\* database has put to bed.
LEMMA HouseRestarted ==
  ASSUME HouseInv, NEW warned \in SUBSET Houses, NEW lost \in SUBSET Houses, Restart(warned, lost),
         online' = {}
  PROVE  HouseInv'
<1> DEFINE slept == [b \in Beds |-> IF HouseOf[b] \in lost THEN None ELSE saved.sleeper[b]]
<1>1. /\ saved.owner \in [Houses -> Somebody] /\ saved.sleeper \in [Beds -> Somebody]
      /\ saved.subOwners \in [Houses -> SUBSET Players] /\ saved.guests \in [Houses -> SUBSET Players]
      /\ saved.warnings \in [Houses -> Nat]
  BY DEF HouseInv, SavedTypeOK
<1>2. owner' \in [Houses -> Somebody]
  BY <1>1 DEF Restart, Somebody
<1>3. subOwners' \in [Houses -> SUBSET Players] /\ guests' \in [Houses -> SUBSET Players]
  BY <1>1 DEF Restart
<1>4. warnings' \in [Houses -> Nat]
  BY <1>1 DEF Restart
<1>5. saved' = [saved EXCEPT !.owner = owner'] /\ sleeper' = slept
  BY DEF Restart
<1>6. slept \in [Beds -> Somebody]
  BY <1>1 DEF Somebody
<1>7. SavedTypeOK'
  BY <1>2, <1>5 DEF HouseInv, SavedTypeOK
<1>8. /\ bedOf' \in [Players -> Beds \cup {None}]
      /\ \A p \in Players : bedOf'[p] # None => slept[bedOf'[p]] = p
  BY DEF Restart
<1>9. /\ deed' = NobodyIn(Houses) /\ editHouse' = NobodyIn(Players) /\ bedItem' = NobodyIn(Players)
      /\ kicks' = {} /\ UNCHANGED inHouse
  BY DEF Restart
<1>10. HouseTypeOK'
  BY <1>2, <1>3, <1>4, <1>5, <1>6, <1>8, <1>9 DEF HouseInv, HouseTypeOK, NobodyIn
<1>11. BedsAgree' /\ InsideAreInvited'
  BY <1>5, <1>8 DEF BedsAgree, InsideAreInvited
<1> QED
  BY <1>7, <1>10, <1>11 DEF HouseInv
-----------------------------------------------------------------------------
(* Channels, guilds and deeds: what holds of them.                         *)

Channel == [owner : Players, invites : SUBSET Players, users : SUBSET Players]

\* The private channels: whoever one lists is in the game, and those that listen are
\* invited.
PrivatesInv ==
  /\ privates \in [Slots -> Channel \cup {None}]
  /\ \A c \in Open :
       /\ privates[c].owner \in privates[c].users
       /\ privates[c].users \subseteq privates[c].invites \cup {privates[c].owner}
       /\ privates[c].users \cup privates[c].invites \subseteq online
       /\ \A d \in Open : privates[c].owner = privates[d].owner => c = d

\* The channels of parties and guilds, and the guilds.
GroupsInv ==
  /\ partyUsers \in [Parties -> SUBSET online] /\ guildUsers \in [Guilds -> SUBSET online]
  /\ members \in [Guilds -> SUBSET online]
  /\ \A p \in online : GuildOf[p] # None => GuildOf[p] \in guilds /\ p \in members[GuildOf[p]]

ChatInv == online \subseteq Players /\ PrivatesInv /\ GroupsInv

\* A deed is made out between two that are in the game.
DeedsArePresent == \A h \in Houses : deed[h] # None => {deed[h].maker, deed[h].partner} \subseteq online
-----------------------------------------------------------------------------
(* Channels and guilds.                                                    *)

\* The invariant of the channels says what the run checks.
LEMMA ChatInvAgrees == ChatInv => ChatAgrees /\ \A p \in Players \ online : ~ChatKnows(p)
BY DEF ChatInv, PrivatesInv, GroupsInv, ChatAgrees, ChatKnows, Open

\* No private channel is open when the server starts.
LEMMA ChatStart == ChatInit /\ online \subseteq Players => ChatInv
<1> SUFFICES ASSUME ChatInit, online \subseteq Players PROVE ChatInv
  OBVIOUS
<1> USE ChatAssumption DEF ChatInit
<1>1. PrivatesInv
  BY DEF PrivatesInv, Open
<1>2. \A p \in online : GuildOf[p] # None => GuildOf[p] \in guilds /\ p \in members[GuildOf[p]]
  OBVIOUS
<1> QED
  BY <1>1, <1>2 DEF ChatInv, GroupsInv

\* A channel that is changed, and the others as they were.
LEMMA ChannelSet ==
  ASSUME ChatInv, UNCHANGED online, NEW c \in Slots, NEW ch \in Channel,
         privates' = [privates EXCEPT ![c] = ch],
         ch.owner \in ch.users, ch.users \subseteq ch.invites \cup {ch.owner},
         ch.users \cup ch.invites \subseteq online,
         \A d \in Open : d # c => privates[d].owner # ch.owner
  PROVE  PrivatesInv'
<1>1. privates' \in [Slots -> Channel \cup {None}]
  BY DEF ChatInv, PrivatesInv
<1>2. privates'[c] = ch /\ \A d \in Slots \ {c} : privates'[d] = privates[d]
  BY DEF ChatInv, PrivatesInv
<1> QED
  BY <1>1, <1>2 DEF ChatInv, PrivatesInv, Open

\* An open private channel is the only one of its owner.
LEMMA ChannelOwners ==
  ASSUME ChatInv, NEW c \in Open
  PROVE  /\ privates[c] \in Channel
         /\ \A d \in Open : d # c => privates[d].owner # privates[c].owner
BY DEF ChatInv, PrivatesInv, Open

\* Who is removed from all channels is in none, and its own has ended.
LEMMA RemovedFromAll ==
  ASSUME ChatInv, NEW p \in Players, RemoveFromAll(p), online' \in {online, online \ {p}}
  PROVE  /\ PrivatesInv'
         /\ partyUsers' \in [Parties -> SUBSET online'] /\ guildUsers' \in [Guilds -> SUBSET online']
<1>1. partyUsers' \in [Parties -> SUBSET online'] /\ guildUsers' \in [Guilds -> SUBSET online']
  BY DEF RemoveFromAll, ChatInv, GroupsInv
<1>2. \A c \in Slots : privates'[c] = IF c \notin Open \/ Owns(p, c) THEN None ELSE Excluded(privates[c], p)
  BY DEF RemoveFromAll
<1>3. \A c \in Open : Excluded(privates[c], p) \in Channel
  <2> SUFFICES ASSUME NEW c \in Open PROVE Excluded(privates[c], p) \in Channel
    OBVIOUS
  <2>1. privates[c] \in Channel
    BY ChannelOwners
  <2> QED
    BY <2>1 DEF Excluded, Channel
<1>4. privates' \in [Slots -> Channel \cup {None}]
  BY <1>3 DEF RemoveFromAll
<1>5. \A c \in Slots : privates'[c] # None =>
        c \in Open /\ privates[c] \in Channel /\ privates[c].owner # p /\ privates'[c] = Excluded(privates[c], p)
  BY <1>2 DEF Owns, Open, ChatInv, PrivatesInv
<1>6. \A c \in Slots : privates'[c] # None =>
        /\ c \in Open /\ privates'[c].owner = privates[c].owner /\ privates[c].owner # p
        /\ privates'[c].users = privates[c].users \ {p}
        /\ privates'[c].invites = privates[c].invites \ {p}
  BY <1>5 DEF Excluded, Channel
<1> QED
  BY <1>1, <1>4, <1>6 DEF ChatInv, PrivatesInv, Open

\* Every step of the channels while the players stay keeps their invariant.
LEMMA ChatKept == ChatInv /\ ChatNext /\ UNCHANGED online => ChatInv'
<1> SUFFICES ASSUME ChatInv, ChatNext, UNCHANGED online PROVE ChatInv'
  OBVIOUS
<1>a. ASSUME UNCHANGED privates PROVE PrivatesInv'
  BY <1>a DEF ChatInv, PrivatesInv, Open
<1>b. ASSUME UNCHANGED <<partyUsers, guildUsers, members, guilds>> PROVE GroupsInv'
  BY <1>b DEF ChatInv, GroupsInv
<1>1. ASSUME NEW p \in Players, OpenParty(p) \/ CloseParty(p) PROVE PrivatesInv' /\ GroupsInv'
  BY <1>1, <1>a DEF OpenParty, CloseParty, ChatInv, GroupsInv
<1>2. ASSUME NEW p \in Players, OpenGuild(p) \/ CloseGuild(p) PROVE PrivatesInv' /\ GroupsInv'
  BY <1>2, <1>a DEF OpenGuild, CloseGuild, ChatInv, GroupsInv
<1>3. ASSUME NEW p \in Players, CreatePrivate(p) PROVE PrivatesInv' /\ GroupsInv'
  <2> DEFINE ch == [owner |-> p, invites |-> {}, users |-> {p}]
  <2>1. PICK c \in Slots \ Open : privates' = [privates EXCEPT ![c] = ch]
    BY <1>3 DEF CreatePrivate
  <2>2. p \in online /\ ch \in Channel /\ \A d \in Open : privates[d].owner # p
    BY <1>3 DEF CreatePrivate, OwnsChannel, Owns, Open, Channel
  <2>3. /\ ch.owner \in ch.users /\ ch.users \subseteq ch.invites \cup {ch.owner}
        /\ ch.users \cup ch.invites \subseteq online
        /\ \A d \in Open : d # c => privates[d].owner # ch.owner
    BY <2>2
  <2> HIDE DEF ch
  <2> QED
    BY <1>3, <1>b, <2>1, <2>2, <2>3, ChannelSet DEF CreatePrivate
<1>4. ASSUME NEW p \in Players, NEW q \in Players, NEW c \in Slots, InviteToChannel(p, q, c)
      PROVE  PrivatesInv' /\ GroupsInv'
  <2> DEFINE ch == [privates[c] EXCEPT !.invites = @ \cup {q}]
  <2>1. c \in Open /\ q \in online /\ privates' = [privates EXCEPT ![c] = ch]
    BY <1>4 DEF InviteToChannel, Owns
  <2>2. ch \in Channel /\ \A d \in Open : d # c => privates[d].owner # ch.owner
    BY <2>1, ChannelOwners DEF Channel
  <2>3. /\ ch.owner \in ch.users /\ ch.users \subseteq ch.invites \cup {ch.owner}
        /\ ch.users \cup ch.invites \subseteq online
    BY <2>1, ChannelOwners DEF Channel, ChatInv, PrivatesInv
  <2> HIDE DEF ch
  <2> QED
    BY <1>4, <1>b, <2>1, <2>2, <2>3, ChannelSet DEF InviteToChannel
<1>5. ASSUME NEW p \in Players, NEW q \in Players, NEW c \in Slots, Exclude(p, q, c)
      PROVE  PrivatesInv' /\ GroupsInv'
  <2> DEFINE ch == Excluded(privates[c], q)
  <2>1. c \in Open /\ q # privates[c].owner /\ privates' = [privates EXCEPT ![c] = ch]
    BY <1>5 DEF Exclude, Owns
  <2>2. ch \in Channel /\ \A d \in Open : d # c => privates[d].owner # ch.owner
    BY <2>1, ChannelOwners DEF Channel, Excluded
  <2>3. /\ ch.owner \in ch.users /\ ch.users \subseteq ch.invites \cup {ch.owner}
        /\ ch.users \cup ch.invites \subseteq online
    BY <2>1, ChannelOwners DEF Channel, ChatInv, PrivatesInv, Excluded
  <2> HIDE DEF ch
  <2> QED
    BY <1>5, <1>b, <2>1, <2>2, <2>3, ChannelSet DEF Exclude
<1>6. ASSUME NEW p \in Players, NEW c \in Slots, OpenPrivate(p, c) PROVE PrivatesInv' /\ GroupsInv'
  <2> DEFINE ch == [privates[c] EXCEPT !.users = @ \cup {p}]
  <2>1. c \in Open /\ p \in online /\ p \in privates[c].invites \cup {privates[c].owner}
        /\ privates' = [privates EXCEPT ![c] = ch]
    BY <1>6 DEF OpenPrivate, MayOpen
  <2>2. ch \in Channel /\ \A d \in Open : d # c => privates[d].owner # ch.owner
    BY <2>1, ChannelOwners DEF Channel
  <2>3. /\ ch.owner \in ch.users /\ ch.users \subseteq ch.invites \cup {ch.owner}
        /\ ch.users \cup ch.invites \subseteq online
    BY <2>1, ChannelOwners DEF Channel, ChatInv, PrivatesInv
  <2> HIDE DEF ch
  <2> QED
    BY <1>6, <1>b, <2>1, <2>2, <2>3, ChannelSet DEF OpenPrivate
<1>7. ASSUME NEW p \in Players, NEW c \in Slots, ClosePrivate(p, c) PROVE PrivatesInv' /\ GroupsInv'
  <2>1. CASE Owns(p, c)
    <3>1. privates' = [privates EXCEPT ![c] = None]
      BY <1>7, <2>1 DEF ClosePrivate
    <3>2. PrivatesInv'
      BY <3>1 DEF ChatInv, PrivatesInv, Open
    <3> QED
      BY <1>7, <1>b, <3>2 DEF ClosePrivate
  <2>2. CASE ~Owns(p, c)
    <3> DEFINE ch == [privates[c] EXCEPT !.users = @ \ {p}]
    <3>1. c \in Open /\ p # privates[c].owner /\ privates' = [privates EXCEPT ![c] = ch]
      BY <1>7, <2>2 DEF ClosePrivate, MayOpen, Owns
    <3>2. ch \in Channel /\ \A d \in Open : d # c => privates[d].owner # ch.owner
      BY <3>1, ChannelOwners DEF Channel
    <3>3. /\ ch.owner \in ch.users /\ ch.users \subseteq ch.invites \cup {ch.owner}
          /\ ch.users \cup ch.invites \subseteq online
      BY <3>1, ChannelOwners DEF Channel, ChatInv, PrivatesInv
    <3> HIDE DEF ch
    <3> QED
      BY <1>7, <1>b, <3>1, <3>2, <3>3, ChannelSet DEF ClosePrivate
  <2> QED
    BY <2>1, <2>2
<1>8. ASSUME NEW p \in Players, LoadOffline(p) PROVE PrivatesInv' /\ GroupsInv'
  BY <1>8, <1>a DEF LoadOffline, ChatInv, GroupsInv
<1>9. ASSUME NEW p \in Players, Reconnect(p) PROVE PrivatesInv' /\ GroupsInv'
  BY <1>9, RemovedFromAll DEF Reconnect, ChatInv, GroupsInv
<1> QED
  BY <1>1, <1>2, <1>3, <1>4, <1>5, <1>6, <1>7, <1>8, <1>9 DEF ChatNext, ChatInv

\* A log-in is listed in its guild, and a log-out is taken from every list.
LEMMA ChatCame ==
  ASSUME ChatInv, NEW p \in Players, online' = online \cup {p}, ChatLogin(p)
  PROVE  ChatInv'
<1>1. PrivatesInv'
  BY DEF ChatLogin, ChatInv, PrivatesInv, Open
<1>2. /\ members' = [g \in Guilds |-> IF GuildOf[p] = g THEN members[g] \cup {p} ELSE members[g]]
      /\ guilds' = guilds \cup ({GuildOf[p]} \ {None})
      /\ UNCHANGED <<partyUsers, guildUsers>>
  BY DEF ChatLogin
<1>3. \A q \in online' : GuildOf[q] # None => GuildOf[q] \in guilds' /\ q \in members'[GuildOf[q]]
  BY <1>2, ChatAssumption DEF ChatInv, GroupsInv
<1>4. members' \in [Guilds -> SUBSET online']
  BY <1>2 DEF ChatInv, GroupsInv
<1>5. partyUsers' \in [Parties -> SUBSET online'] /\ guildUsers' \in [Guilds -> SUBSET online']
  BY <1>2 DEF ChatInv, GroupsInv
<1> QED
  BY <1>1, <1>3, <1>4, <1>5 DEF ChatInv, GroupsInv

\* So does a log-out, which leaves all channels and closes the player's own.
LEMMA ChatLeft ==
  ASSUME ChatInv, NEW p \in Players, online' = online \ {p}, ChatLogout(p)
  PROVE  ChatInv'
<1>1. /\ RemoveFromAll(p)
      /\ members' = [g \in Guilds |-> members[g] \ {p}]
      /\ guilds' = {g \in guilds : GuildOf[p] = g => members[g] # {p}}
  BY DEF ChatLogout
<1>2. /\ PrivatesInv'
      /\ partyUsers' \in [Parties -> SUBSET online'] /\ guildUsers' \in [Guilds -> SUBSET online']
  BY <1>1, RemovedFromAll
<1>3. members' \in [Guilds -> SUBSET online']
  BY <1>1 DEF ChatInv, GroupsInv
<1>4. \A q \in online' : GuildOf[q] # None => GuildOf[q] \in guilds' /\ q \in members'[GuildOf[q]]
  BY <1>1, ChatAssumption DEF ChatInv, GroupsInv
<1> QED
  BY <1>2, <1>3, <1>4 DEF ChatInv, GroupsInv

\* So does a restart, which forgets the channels.
LEMMA ChatRestarted == ChatRestart /\ online' = {} => ChatInv'
<1> SUFFICES ASSUME ChatRestart, online' = {} PROVE ChatInv'
  OBVIOUS
<1>1. PrivatesInv'
  BY DEF ChatRestart, PrivatesInv, Open
<1> QED
  BY <1>1 DEF ChatRestart, ChatInv, GroupsInv
-----------------------------------------------------------------------------
(* Deeds.                                                                  *)

\* A deed changes hands only between players in the game.
LEMMA DeedsKept == HouseInv /\ HouseStep /\ UNCHANGED online /\ DeedsArePresent => DeedsArePresent'
<1> SUFFICES ASSUME HouseInv, HouseStep, UNCHANGED online, DeedsArePresent PROVE DeedsArePresent'
  OBVIOUS
<1>1. ASSUME UNCHANGED deed PROVE DeedsArePresent'
  BY <1>1 DEF DeedsArePresent
<1>2. ASSUME NEW h \in Houses, deed' = [deed EXCEPT ![h] = None] PROVE DeedsArePresent'
  BY <1>2 DEF DeedsArePresent, HouseInv, HouseTypeOK
<1>3. ASSUME NEW p \in Players, NEW q \in Players, NEW h \in Houses, StartDeed(p, q, h)
      PROVE  DeedsArePresent'
  <2>1. deed' = [deed EXCEPT ![h] = [maker |-> p, partner |-> q]] /\ {p, q} \subseteq online
    BY <1>3 DEF StartDeed
  <2> QED
    BY <2>1 DEF DeedsArePresent, HouseInv, HouseTypeOK
<1>4. CASE DeedNext
  BY <1>1, <1>2, <1>3, <1>4 DEF DeedNext, CastKick, CloseDeed, ExecuteTransfer
<1>5. CASE OwnerNext \/ WalkNext \/ BedNext \/ HouseSave \/ ListNext(AccessLists)
  BY <1>1, <1>5
  DEF OwnerNext, WalkNext, BedNext, HouseSave, ListNext, BuyHouse, LeaveHouse, WalkIn, WalkOut, UseBed,
      GoToSleep, StayAwake, EditList, UpdateHouseWindow
<1> QED
  BY <1>4, <1>5 DEF HouseStep

\* A log-out ends the player's transfer of a house.
LEMMA DeedsLeft ==
  ASSUME HouseInv, DeedsArePresent, NEW p \in Players, online' = online \ {p}, HouseLogout(p)
  PROVE  DeedsArePresent'
BY DEF HouseLogout, DeedsArePresent, HouseInv, HouseTypeOK
-----------------------------------------------------------------------------
(* The town.                                                               *)

\* Players trade in one scene only, so that a restart, in another, ends no trade.
TradeIdle == scene # "trades" => \A p \in Players : tradePartner[p] = None


\* And there are parties in two others.
PartyIdle ==
  scene \notin {"parties", "chat"} => \A p \in Players : party[p] = None /\ invitations[p] = {}

TownInv ==
  /\ HouseInv /\ DeedsArePresent
  /\ TradeInv /\ TradeIdle
  /\ PartyInv /\ PartyIdle
  /\ ChatInv

\* The invariant holds when the server starts.
LEMMA TownStart == Init => TownInv
<1> SUFFICES ASSUME Init PROVE TownInv
  OBVIOUS
<1>1. online \subseteq Players
  BY DEF Init
<1>2. HouseInv /\ TradeInv /\ PartyInv /\ ChatInv
  BY <1>1, HouseStart, TradeStart, PartyStart, ChatStart DEF Init
<1>3. DeedsArePresent /\ TradeIdle /\ PartyIdle
  BY DEF Init, HouseInit, NobodyIn, TradeInit, PartyInit, DeedsArePresent, TradeIdle, PartyIdle
<1> QED
  BY <1>2, <1>3 DEF TownInv

\* What a step leaves alone is as it was.
LEMMA HouseAsBefore ==
  ASSUME HouseInv, DeedsArePresent, UNCHANGED <<online, houseVars>>
  PROVE  HouseInv' /\ DeedsArePresent'
BY DEF houseVars, HouseInv, HouseTypeOK, SavedTypeOK, InsideAreInvited, Invited, AccessLevel, BedsAgree,
   DeedsArePresent

\* Steps of the other parts keep the invariant of the channels,
LEMMA ChatAsBefore == ASSUME ChatInv, UNCHANGED <<online, chatVars>> PROVE ChatInv'
BY DEF chatVars, ChatInv, PrivatesInv, Open, GroupsInv

\* that of the trades,
LEMMA TradesAsBefore ==
  ASSUME TradeInv, TradeIdle, UNCHANGED <<scene, online, tradeVars>>
  PROVE  TradeInv' /\ TradeIdle' /\ OfferedUntouched
<1>1. TradeInv' /\ OfferedUntouched
  BY TradeAsBefore DEF TradeInv, TradeTypeOK, TradersArePresent
<1> QED
  BY <1>1 DEF TradeIdle, tradeVars

\* and that of the parties.
LEMMA PartiesAsBefore ==
  ASSUME PartyInv, PartyIdle, UNCHANGED <<scene, online, partyVars>>
  PROVE  PartyInv' /\ PartyIdle'
<1>1. PartyInv'
  BY PartyAsBefore DEF PartyInv, PartiesArePresent
<1> QED
  BY <1>1 DEF PartyIdle, partyVars

\* Every step of the server keeps the invariant, and no offered item is touched.
LEMMA TownStep == TownInv /\ [Next]_townVars => TownInv' /\ OfferedUntouched
<1> SUFFICES ASSUME TownInv, [Next]_townVars PROVE TownInv' /\ OfferedUntouched
  OBVIOUS
<1> USE DEF TownInv
<1>1. ASSUME UNCHANGED <<scene, online, partyVars, tradeVars, chatVars, houseVars>>
      PROVE  TownInv' /\ OfferedUntouched
  BY <1>1, HouseAsBefore, ChatAsBefore, TradesAsBefore, PartiesAsBefore
<1>2. CASE InScene("trades") /\ TradeNext /\ UNCHANGED <<partyVars, chatVars, houseVars>>
  <2>1. TradeInv' /\ OfferedUntouched
    BY <1>2, TradeKept DEF InScene
  <2>2. TradeIdle'
    BY <1>2 DEF InScene, TradeIdle
  <2> QED
    BY <1>2, <2>1, <2>2, HouseAsBefore, ChatAsBefore, PartiesAsBefore DEF InScene
<1>3. CASE /\ InScene("parties") \/ InScene("chat")
           /\ PartyNext /\ UNCHANGED <<chatVars, tradeVars, houseVars>>
  <2>1. PartyIdle' /\ UNCHANGED <<scene, online>>
    BY <1>3 DEF InScene, PartyIdle
  <2> QED
    BY <1>3, <2>1, PartyKept, HouseAsBefore, ChatAsBefore, TradesAsBefore
<1>4. CASE InScene("chat") /\ ChatNext /\ UNCHANGED <<partyVars, tradeVars, houseVars>>
  BY <1>4, ChatKept, HouseAsBefore, TradesAsBefore, PartiesAsBefore DEF InScene
<1>5. CASE HouseScene /\ UNCHANGED <<partyVars, tradeVars, chatVars>>
  <2>1. ASSUME NEW lists \in SUBSET AccessLists, ListNext(lists) PROVE ListNext(AccessLists)
    BY <2>1 DEF ListNext
  <2>2. HouseStep /\ UNCHANGED <<scene, online>>
    BY <1>5, <2>1 DEF HouseScene, InScene, HouseStep, AccessLists
  <2> QED
    BY <1>5, <2>2, HouseKept, DeedsKept, ChatAsBefore, TradesAsBefore, PartiesAsBefore
<1>6. CASE RestartScene /\ UNCHANGED <<partyVars, tradeVars>>
  <2>1. /\ scene \in {"restarts", "listsSaved"} /\ online' = {} /\ ChatRestart /\ UNCHANGED scene
        /\ \E warned, lost \in SUBSET Houses : Restart(warned, lost)
    BY <1>6 DEF RestartScene
  <2>2. HouseInv'
    BY <2>1, HouseRestarted
  <2>3. DeedsArePresent'
    BY <2>1 DEF Restart, NobodyIn, DeedsArePresent
  <2>4. \A p \in Players : tradePartner[p] = None
    BY <2>1 DEF TradeIdle
  <2>5. TradeInv' /\ OfferedUntouched /\ TradeIdle'
    BY <1>6, <2>1, <2>4, TradeAsBefore DEF TradeIdle, tradeVars
  <2>6. \A p \in Players : party[p] = None /\ invitations[p] = {}
    BY <2>1 DEF PartyIdle
  <2>7. PartyInv' /\ PartyIdle'
    BY <1>6, <2>1, <2>6, PartyAsBefore DEF PartyIdle, partyVars
  <2> QED
    BY <2>1, <2>2, <2>3, <2>5, <2>7, ChatRestarted
<1>7. ASSUME NEW p \in Players, Logout(p) PROVE TownInv' /\ OfferedUntouched
  <2>1. /\ online' = online \ {p} /\ TradeLogout(p) /\ PartyLogout(p) /\ ChatLogout(p) /\ HouseLogout(p)
        /\ UNCHANGED <<scene, parent, place>>
    BY <1>7 DEF Logout, Leaves
  <2>2. HouseInv' /\ DeedsArePresent' /\ ChatInv' /\ TradeInv' /\ OfferedUntouched
    BY <2>1, HouseLeft, DeedsLeft, ChatLeft, TradeLeft
  <2>3. /\ PartyInv'
        /\ \A q \in Players : party'[q] \in {party[q], None} /\ invitations'[q] \subseteq invitations[q]
    BY <2>1, PartyLeft
  <2>4. TradeIdle'
    BY <2>1 DEF TradeIdle, TradeLogout, trades
  <2>5. PartyIdle'
    BY <2>1, <2>3 DEF PartyIdle
  <2> QED
    BY <2>2, <2>3, <2>4, <2>5
<1>8. ASSUME NEW p \in Players, Login(p) PROVE TownInv' /\ OfferedUntouched
  <2>1. /\ online' = online \cup {p} /\ ChatLogin(p) /\ HouseLogin(p)
        /\ UNCHANGED <<scene, partyVars, tradeVars>>
    BY <1>8 DEF Login, Enters
  <2>2. HouseInv' /\ ChatInv'
    BY <2>1, HouseCame, ChatCame
  <2>3. DeedsArePresent'
    BY <2>1 DEF HouseLogin, DeedsArePresent
  <2>4. TradeInv' /\ OfferedUntouched /\ TradeIdle'
    BY <2>1, TradeAsBefore DEF TradeInv, TradeTypeOK, TradersArePresent, TradeIdle, tradeVars
  <2>5. PartyInv' /\ PartyIdle'
    BY <2>1, PartyAsBefore DEF PartyInv, PartiesArePresent, PartyIdle, partyVars
  <2> QED
    BY <2>2, <2>3, <2>4, <2>5
<1> QED
  BY <1>1, <1>2, <1>3, <1>4, <1>5, <1>6, <1>7, <1>8 DEF Next, InScene, townVars

\* Whatever the players do and however they log in and out (Player::onCreatureDisappear,
\* Game::removeCreature), the parts of the town agree with each other and with who is
\* in the game.
THEOREM TownInvariant == Spec => []TownInv
BY TownStart, TownStep, PTL DEF Spec

\* Whoever sleeps in a bed is the one the bed says, whoever of the two was loaded,
\* woken, kicked or saved when (bed.cpp, iologindata.cpp).
THEOREM SleepersInTheirBeds == Spec => []BedsAgree
<1>1. TownInv => BedsAgree
  BY DEF TownInv, HouseInv
<1> QED
  BY <1>1, TownInvariant, PTL

\* Nobody is in a house that does not let it in (House::setOwner, setAccessList).
THEOREM GuestsAreInvited == Spec => []InsideAreInvited
<1>1. TownInv => InsideAreInvited
  BY DEF TownInv, HouseInv
<1> QED
  BY <1>1, TownInvariant, PTL

\* The two sides of a trade know of one another, and what they offer is locked, in
\* reach and in nothing else that is offered (game.cpp: player*Trade, internalCloseTrade).
THEOREM TradesAgree == Spec => []TradeAgrees
<1>1. TownInv => TradeAgrees
  BY TradeInvAgrees DEF TownInv
<1> QED
  BY <1>1, TownInvariant, PTL

\* What one has offered stays as the other has seen it, until the trade ends.
THEOREM OffersStand == Spec => OfferStands
<1>1. TownInv /\ [Next]_townVars => [OfferedUntouched]_townVars
  BY TownStep
<1> QED
  BY <1>1, TownInvariant, PTL DEF Spec, OfferStands

\* Private channels have the listeners their owner invites, and a member of a guild
\* points to a Guild that knows of it (chat.cpp, guild.cpp).
THEOREM ChannelsAgree == Spec => []ChatAgrees
<1>1. TownInv => ChatAgrees
  BY ChatInvAgrees DEF TownInv
<1> QED
  BY <1>1, TownInvariant, PTL

\* A player points to a party exactly when the party has it, once; it lists an invitation
\* exactly when the party does; and a party that nobody else is in has disbanded
\* (party.cpp, player.cpp: clearPartyInvitations).
THEOREM PartiesAgree == Spec => []PartyAgrees
<1>1. TownInv => PartyAgrees
  BY PartyInvAgrees DEF TownInv
<1> QED
  BY <1>1, TownInvariant, PTL

\* Who has left the game is out of every party, channel, guild, trade and deed
\* (Player::onRemoveCreature).
THEOREM NobodyMeetsTheGone == Spec => []NobodyRefersToTheGone
<1>1. TownInv => NobodyRefersToTheGone
  <2> SUFFICES ASSUME TownInv, NEW p \in Players \ online
               PROVE  /\ ~PartyKnows(p) /\ ~ChatKnows(p)
                      /\ \A q \in Players : tradePartner[q] # p
                      /\ \A i \in Items : tradeItems[i] # p
                      /\ \A h \in Houses : deed[h] # None => p \notin {deed[h].maker, deed[h].partner}
    BY DEF NobodyRefersToTheGone
  <2>1. ~PartyKnows(p) /\ ~ChatKnows(p)
    BY PartyInvAgrees, ChatInvAgrees DEF TownInv
  <2>2. \A q \in Players : tradePartner[q] # p
    BY TradeConstants DEF TownInv, TradeInv, Sides, TradersArePresent, TradeTypeOK
  <2>3. \A i \in Items : tradeItems[i] # p
    BY TradeConstants DEF TownInv, TradeInv, Sides, TradersArePresent
  <2>4. \A h \in Houses : deed[h] # None => p \notin {deed[h].maker, deed[h].partner}
    BY DEF TownInv, DeedsArePresent
  <2> QED
    BY <2>1, <2>2, <2>3, <2>4
<1> QED
  BY <1>1, TownInvariant, PTL
-----------------------------------------------------------------------------
(* The market.                                                             *)

\* Players deal in one scene only, so that a restart, in another, loses nothing.
MarketIdle == scene # "market" => \A p \in online : live[p] = stored[p]

LedgerInv == MarketInv /\ MarketIdle

\* Every step of the server keeps the accounts.
LEMMA LedgerStep == LedgerInv /\ [Next]_townVars => LedgerInv'
<1> SUFFICES ASSUME LedgerInv, [Next]_townVars PROVE LedgerInv'
  OBVIOUS
<1> USE DEF LedgerInv
<1>1. CASE UNCHANGED <<scene, online, marketVars>>
  <2>1. MarketTypeOK'
    BY <1>1 DEF MarketInv, MarketTypeOK, marketVars, Purses
  <2>2. \A p \in Players : Belongings(p)' = Belongings(p)
    BY <1>1 DEF marketVars, Belongings
  <2>3. MarketInv'
    BY <1>1, <2>1, <2>2, SameAccounts DEF marketVars
  <2> QED
    BY <1>1, <2>3 DEF MarketIdle, marketVars
<1>2. CASE InScene("market") /\ MarketNext
  BY <1>2, MarketKept DEF InScene, MarketIdle
<1>3. CASE RestartScene /\ UNCHANGED marketVars
  <2>1. online' = {} /\ \A p \in online : live[p] = stored[p]
    BY <1>3 DEF RestartScene, MarketIdle
  <2> QED
    BY <1>3, <2>1, MarketRestarted DEF MarketIdle
<1>4. ASSUME NEW p \in Players, Logout(p) PROVE LedgerInv'
  <2>1. p \in online /\ online' = online \ {p} /\ MarketLogout(p) /\ UNCHANGED scene
    BY <1>4 DEF Logout, Leaves
  <2>2. MarketIdle'
    BY <2>1 DEF MarketIdle, MarketLogout, MarketInv, MarketTypeOK, Purses, PurseStates
  <2> QED
    BY <2>1, <2>2, MarketLeft
<1>5. ASSUME NEW p \in Players, Login(p) PROVE LedgerInv'
  <2>1. p \notin online /\ online' = online \cup {p} /\ MarketLogin(p) /\ UNCHANGED scene
    BY <1>5 DEF Login, Enters
  <2>2. MarketIdle'
    BY <2>1 DEF MarketIdle, MarketLogin, MarketInv, MarketTypeOK, Purses, PurseStates
  <2> QED
    BY <2>1, <2>2, MarketCame
<1>6. HouseScene => UNCHANGED <<scene, online>>
  BY DEF HouseScene, InScene
<1> QED
  BY <1>1, <1>2, <1>3, <1>4, <1>5, <1>6 DEF Next, InScene, townVars

\* In whatever order players offer, accept, cancel, log in and out, and old offers are
\* looked for and paid back, no gold and no goods are lost or doubled, but for what
\* IOMarket::processExpiredOffers pays for an offer that shrank since it was read.
THEOREM NothingIsLost == Spec => []Accounted
<1>1. Init => LedgerInv
  <2>1. Init => online \subseteq Players /\ MarketInit
    BY DEF Init
  <2>2. MarketInit => MarketIdle
    BY DEF MarketInit, MarketIdle
  <2> QED
    BY <2>1, <2>2, MarketStart DEF LedgerInv
<1>2. LedgerInv => Accounted
  BY DEF LedgerInv, MarketInv
<1> QED
  BY <1>1, <1>2, LedgerStep, PTL DEF Spec
-----------------------------------------------------------------------------
(* Items that decay.                                                       *)

Things == [kind : Kinds \cup {NoItem}, placed : BOOLEAN, duration : Int, decaying : BOOLEAN,
           refs : Int, age : Int, left : Int]
Stores == [items : [Objects -> Things], toDecay : [Objects -> Nat], toRelease : [Objects -> Nat]]

\* A reference for the place an item is in.
Place(it) == IF it.placed THEN 1 ELSE 0

\* Kinds that decay, when they are in their place.
Lasting(k) == k # NoItem /\ DecayTo[k] # Never /\ DecayTime[k] > 0

\* Each item has a reference for its place, for each time it is in toDecayItems or
\* ToReleaseItems, and for each of the lists that are held elsewhere.
Counts(S, held) ==
  /\ S \in Stores
  /\ \A i \in Objects :
       /\ S.items[i].refs = Place(S.items[i]) + S.toDecay[i] + S.toRelease[i] + held[i]
       /\ S.items[i].kind = NoItem => S.items[i] = Unmade

\* The mark of a thing can be trusted when it is in so many lists: also that of one that
\* keeps its time, because it decays on when it is used again.
Trusted(it, lists) ==
  it.decaying /\ it.placed /\ (Lasting(it.kind) \/ it.kind \in StopTime) => lists > 0

Marks(S, held) ==
  \A i \in Objects : Trusted(S.items[i], S.toDecay[i] + held[i]) /\ S.toDecay[i] + held[i] <= MaxListed

Lists == [Objects -> Nat]

\* Things stay things, in a list or measured anew.
LEMMA ThingsAre ==
  \A x \in Things :
    /\ Decaying(x) \in Things /\ Decaying(x).refs = x.refs + 1 /\ Decaying(x).kind = x.kind
    /\ Decaying(x).placed = x.placed
    /\ Measured(x) \in Things /\ Measured(x).refs = x.refs /\ Measured(x).kind = x.kind
    /\ Measured(x).placed = x.placed /\ Measured(x).decaying = x.decaying
<1> SUFFICES ASSUME NEW x \in Things
             PROVE  /\ Decaying(x) \in Things /\ Decaying(x).refs = x.refs + 1
                    /\ Decaying(x).kind = x.kind /\ Decaying(x).placed = x.placed
                    /\ Measured(x) \in Things /\ Measured(x).refs = x.refs /\ Measured(x).kind = x.kind
                    /\ Measured(x).placed = x.placed /\ Measured(x).decaying = x.decaying
  OBVIOUS
<1>1. Decaying(x) \in Things
  <2>1. \A n \in Int, b \in BOOLEAN : [x EXCEPT !.refs = n, !.decaying = b] \in Things
    BY DEF Things
  <2>2. x.refs + 1 \in Int
    BY DEF Things
  <2> QED
    BY <2>1, <2>2 DEF Decaying
<1>2. Measured(x) \in Things
  <2> DEFINE zero == 0
  <2>1. \A a, l \in Int : [x EXCEPT !.age = a, !.left = l] \in Things
    BY DEF Things
  <2>2. x.duration \in Int /\ zero \in Int
    BY DEF Things
  <2> HIDE DEF zero
  <2>3. [x EXCEPT !.age = zero, !.left = x.duration] \in Things
    BY <2>1, <2>2
  <2> QED
    BY <2>3 DEF Measured, zero
<1>3. Decaying(x).refs = x.refs + 1 /\ Decaying(x).kind = x.kind /\ Decaying(x).placed = x.placed
  BY DEF Decaying, Things
<1>4. /\ Measured(x).refs = x.refs /\ Measured(x).kind = x.kind
      /\ Measured(x).placed = x.placed /\ Measured(x).decaying = x.decaying
  BY DEF Measured, Things
<1> QED
  BY <1>1, <1>2, <1>3, <1>4

\* Stores stay stores.
LEMMA StoreWith ==
  \A S \in Stores, i \in Objects, x \in Things :
    /\ [S EXCEPT !.items[i] = x] \in Stores
    /\ \A d \in [Objects -> Nat] : [S EXCEPT !.items[i] = x, !.toDecay = d] \in Stores
    /\ \A r \in [Objects -> Nat] : [S EXCEPT !.items[i] = x, !.toRelease = r] \in Stores
BY DEF Stores

\* Whatever has references is an item.
LEMMA ReferredIsMade ==
  ASSUME NEW S, NEW held \in Lists, Counts(S, held)
  PROVE  \A i \in Objects :
           /\ S.items[i].placed \/ held[i] > 0 => S.items[i].kind \in Kinds
           /\ Unused(S, i) => S.items[i] = Unmade /\ S.toDecay[i] = 0 /\ S.toRelease[i] = 0 /\ held[i] = 0
<1> SUFFICES ASSUME NEW i \in Objects
             PROVE  /\ S.items[i].placed \/ held[i] > 0 => S.items[i].kind \in Kinds
                    /\ Unused(S, i) =>
                         S.items[i] = Unmade /\ S.toDecay[i] = 0 /\ S.toRelease[i] = 0 /\ held[i] = 0
  OBVIOUS
<1>1. /\ S.items[i] \in Things /\ S.toDecay[i] \in Nat /\ S.toRelease[i] \in Nat /\ held[i] \in Nat
      /\ S.items[i].refs = Place(S.items[i]) + S.toDecay[i] + S.toRelease[i] + held[i]
      /\ S.items[i].kind = NoItem => S.items[i] = Unmade
  BY DEF Counts, Stores, Lists
<1>2. S.items[i].kind = NoItem => S.items[i].refs = 0 /\ S.items[i].placed = FALSE
  BY <1>1 DEF Unmade
<1>3. S.items[i].kind = NoItem => S.toDecay[i] = 0 /\ S.toRelease[i] = 0 /\ held[i] = 0
  BY <1>1, <1>2 DEF Place
<1>4. S.items[i].kind \in Kinds \cup {NoItem}
  BY <1>1 DEF Things
<1> QED
  BY <1>1, <1>2, <1>3, <1>4 DEF Unused

\* Taking an item away gives its reference to the next clean-up.
LEMMA RemovedCounts ==
  ASSUME NEW S, NEW held \in Lists, Counts(S, held), NEW i \in Objects, S.items[i].placed
  PROVE  Counts(InternalRemoveItem(S, i), held)
<1> DEFINE T == InternalRemoveItem(S, i)
<1>0. S \in Stores /\ S.items[i] \in Things /\ S.items[i].kind # NoItem
  BY ReferredIsMade DEF Counts, Stores, Unmade
<1> DEFINE it == [S.items[i] EXCEPT !.placed = FALSE]
<1>a. /\ it \in Things /\ it.refs = S.items[i].refs /\ ~it.placed /\ it.kind = S.items[i].kind
  BY <1>0 DEF Things
<1>b. /\ T.items = [S.items EXCEPT ![i] = it] /\ T.toDecay = S.toDecay
      /\ T.toRelease = [S.toRelease EXCEPT ![i] = @ + 1]
  BY <1>0 DEF InternalRemoveItem, Release, Stores
<1>c. T \in Stores
  <2>1. T = [S EXCEPT !.items[i] = it, !.toRelease = [S.toRelease EXCEPT ![i] = @ + 1]]
    BY <1>0 DEF InternalRemoveItem, Release, Stores
  <2>2. [S.toRelease EXCEPT ![i] = @ + 1] \in [Objects -> Nat]
    BY <1>0 DEF Stores
  <2> HIDE DEF T, it
  <2> QED
    BY <1>0, <1>a, <2>1, <2>2, StoreWith
<1> HIDE DEF T, it
<1>1. /\ T \in Stores /\ T.items[i] = it /\ T.toDecay = S.toDecay
      /\ T.toRelease[i] = S.toRelease[i] + 1
      /\ \A k \in Objects \ {i} : T.items[k] = S.items[k] /\ T.toRelease[k] = S.toRelease[k]
  BY <1>0, <1>a, <1>b, <1>c DEF Stores
<1>2. ASSUME NEW k \in Objects
      PROVE  /\ T.items[k].refs = Place(T.items[k]) + T.toDecay[k] + T.toRelease[k] + held[k]
             /\ T.items[k].kind = NoItem => T.items[k] = Unmade
  <2>1. /\ S.items[k].refs = Place(S.items[k]) + S.toDecay[k] + S.toRelease[k] + held[k]
        /\ S.items[k].kind = NoItem => S.items[k] = Unmade
        /\ S.toDecay[k] \in Nat /\ S.toRelease[k] \in Nat /\ held[k] \in Nat
    BY DEF Counts, Stores, Lists
  <2>2. CASE k = i
    BY <1>0, <1>a, <1>1, <2>1, <2>2 DEF Place
  <2>3. CASE k # i
    BY <1>1, <2>1, <2>3
  <2> QED
    BY <2>2, <2>3
<1>3. Counts(T, held)
  BY <1>1, <1>2 DEF Counts
<1> QED
  BY <1>3 DEF T

\* An item that starts to decay is in one list more, and has a reference for it.
LEMMA StartedCounts ==
  ASSUME NEW S, NEW held \in Lists, Counts(S, held), NEW i \in Objects
  PROVE  /\ Counts(StartDecay(S, i), held)
         /\ \A k \in Objects \ {i} :
              /\ StartDecay(S, i).items[k] = S.items[k]
              /\ StartDecay(S, i).toDecay[k] = S.toDecay[k]
         /\ StartDecay(S, i).items[i].kind = S.items[i].kind
         /\ StartDecay(S, i).items[i].placed = S.items[i].placed
         /\ \/ StartDecay(S, i) = S /\ (CanDecay(S.items[i]) => S.items[i].decaying)
            \/ /\ StartDecay(S, i).toDecay[i] = S.toDecay[i] + 1
               /\ CanDecay(S.items[i])
<1> DEFINE T == StartDecay(S, i)
           it == Decaying(S.items[i])
<1>0. S \in Stores /\ S.items[i] \in Things
  BY DEF Counts, Stores
<1>1. CASE ~CanDecay(S.items[i]) \/ S.items[i].decaying
  BY <1>1 DEF StartDecay
<1>2. CASE CanDecay(S.items[i]) /\ ~S.items[i].decaying
  <2>1. /\ it \in Things /\ it.refs = S.items[i].refs + 1 /\ it.kind = S.items[i].kind
        /\ it.placed = S.items[i].placed
    BY <1>0, ThingsAre
  <2>a. T = [S EXCEPT !.items[i] = it, !.toDecay[i] = @ + 1]
    BY <1>2 DEF StartDecay
  <2> HIDE DEF T, it
  <2>b. /\ T.items = [S.items EXCEPT ![i] = it] /\ T.toDecay = [S.toDecay EXCEPT ![i] = @ + 1]
        /\ T.toRelease = S.toRelease
        /\ T \in Stores
    <3>1. T = [S EXCEPT !.items[i] = it, !.toDecay = [S.toDecay EXCEPT ![i] = @ + 1]]
      BY <1>0, <2>a DEF Stores
    <3>2. [S.toDecay EXCEPT ![i] = @ + 1] \in [Objects -> Nat]
      BY <1>0 DEF Stores
    <3>3. T \in Stores
      BY <1>0, <2>1, <3>1, <3>2, StoreWith
    <3> QED
      BY <1>0, <2>a, <3>3 DEF Stores
  <2>2. /\ T \in Stores /\ T.items[i] = it /\ T.toDecay[i] = S.toDecay[i] + 1 /\ T.toRelease = S.toRelease
        /\ \A k \in Objects \ {i} : T.items[k] = S.items[k] /\ T.toDecay[k] = S.toDecay[k]
    BY <1>0, <2>1, <2>b DEF Stores
  <2>3. S.items[i].kind # NoItem
    BY <1>2 DEF CanDecay
  <2>4. ASSUME NEW k \in Objects
        PROVE  /\ T.items[k].refs = Place(T.items[k]) + T.toDecay[k] + T.toRelease[k] + held[k]
               /\ T.items[k].kind = NoItem => T.items[k] = Unmade
    <3>1. /\ S.items[k].refs = Place(S.items[k]) + S.toDecay[k] + S.toRelease[k] + held[k]
          /\ S.items[k].kind = NoItem => S.items[k] = Unmade
          /\ S.toDecay[k] \in Nat /\ S.toRelease[k] \in Nat /\ held[k] \in Nat
      BY DEF Counts, Stores, Lists
    <3>2. CASE k = i
      BY <2>1, <2>2, <2>3, <3>1, <3>2 DEF Place
    <3>3. CASE k # i
      BY <2>2, <3>1, <3>3
    <3> QED
      BY <3>2, <3>3
  <2>5. Counts(T, held)
    BY <2>2, <2>4 DEF Counts
  <2> QED
    BY <1>2, <2>1, <2>2, <2>5 DEF T
<1> QED
  BY <1>1, <1>2

\* What is measured is not counted.
LEMMA RestartedCounts ==
  ASSUME NEW S, NEW held \in Lists, Counts(S, held), NEW i \in Objects, S.items[i].kind # NoItem
  PROVE  /\ Counts(Restarted(S, i), held)
         /\ Restarted(S, i).toDecay = S.toDecay
         /\ \A k \in Objects : /\ Restarted(S, i).items[k].kind = S.items[k].kind
                               /\ Restarted(S, i).items[k].placed = S.items[k].placed
                               /\ Restarted(S, i).items[k].decaying = S.items[k].decaying
<1> DEFINE T == Restarted(S, i)
           it == Measured(S.items[i])
<1>0. S \in Stores /\ S.items[i] \in Things
  BY DEF Counts, Stores
<1>1. /\ it \in Things /\ it.refs = S.items[i].refs /\ it.kind = S.items[i].kind
      /\ it.placed = S.items[i].placed /\ it.decaying = S.items[i].decaying
  BY <1>0, ThingsAre
<1>a. /\ T.items = [S.items EXCEPT ![i] = it] /\ T.toDecay = S.toDecay /\ T.toRelease = S.toRelease
      /\ T \in Stores
  <2>1. T = [S EXCEPT !.items[i] = it]
    BY DEF Restarted
  <2> HIDE DEF it, T
  <2>2. T \in Stores
    BY <1>0, <1>1, <2>1, StoreWith
  <2> QED
    BY <1>0, <2>1, <2>2 DEF Stores
<1> HIDE DEF T, it
<1>2. /\ T \in Stores /\ T.items[i] = it /\ T.toDecay = S.toDecay /\ T.toRelease = S.toRelease
      /\ \A k \in Objects \ {i} : T.items[k] = S.items[k]
  BY <1>0, <1>1, <1>a DEF Stores
<1>3. ASSUME NEW k \in Objects
      PROVE  /\ T.items[k].refs = Place(T.items[k]) + T.toDecay[k] + T.toRelease[k] + held[k]
             /\ T.items[k].kind = NoItem => T.items[k] = Unmade
  BY <1>1, <1>2 DEF Counts, Place
<1>4. Counts(T, held)
  BY <1>2, <1>3 DEF Counts
<1>5. \A k \in Objects : /\ T.items[k].kind = S.items[k].kind /\ T.items[k].placed = S.items[k].placed
                         /\ T.items[k].decaying = S.items[k].decaying
  BY <1>1, <1>2
<1> QED
  BY <1>2, <1>4, <1>5 DEF T

\* An item of another kind in its place.
LEMMA PutCounts ==
  ASSUME NEW S, NEW held \in Lists, Counts(S, held), NEW i \in Objects, NEW x \in Things,
         x.kind # NoItem, x.refs - Place(x) = S.items[i].refs - Place(S.items[i])
  PROVE  LET T == [S EXCEPT !.items[i] = x]
         IN  /\ Counts(T, held) /\ T.items[i] = x /\ T.toDecay = S.toDecay
             /\ \A k \in Objects \ {i} : T.items[k] = S.items[k]
<1> DEFINE T == [S EXCEPT !.items[i] = x]
<1>0. S \in Stores
  BY DEF Counts
<1>1. T \in Stores
  BY <1>0, StoreWith
<1>2. /\ T.items[i] = x /\ T.toDecay = S.toDecay /\ T.toRelease = S.toRelease
      /\ \A k \in Objects \ {i} : T.items[k] = S.items[k]
  BY <1>0 DEF Stores
<1> HIDE DEF T
<1>3. ASSUME NEW k \in Objects
      PROVE  /\ T.items[k].refs = Place(T.items[k]) + T.toDecay[k] + T.toRelease[k] + held[k]
             /\ T.items[k].kind = NoItem => T.items[k] = Unmade
  <2>1. /\ S.items[k].refs = Place(S.items[k]) + S.toDecay[k] + S.toRelease[k] + held[k]
        /\ S.items[k].kind = NoItem => S.items[k] = Unmade
        /\ S.toDecay[k] \in Nat /\ S.toRelease[k] \in Nat /\ held[k] \in Nat
    BY DEF Counts, Stores, Lists
  <2>2. CASE k = i
    <3>1. Place(x) \in Int /\ x.refs \in Int /\ Place(S.items[i]) \in Int /\ S.items[i].refs \in Int
      BY <1>0 DEF Place, Things, Stores
    <3>2. /\ S.items[i].refs = Place(S.items[i]) + S.toDecay[i] + S.toRelease[i] + held[i]
          /\ S.toDecay[i] \in Int /\ S.toRelease[i] \in Int /\ held[i] \in Int
      BY <2>1, <2>2
    <3>3. x.refs = Place(x) + S.toDecay[i] + S.toRelease[i] + held[i]
      BY <3>1, <3>2
    <3> QED
      BY <1>2, <2>2, <3>3
  <2>3. CASE k # i
    BY <1>2, <2>1, <2>3
  <2> QED
    BY <2>2, <2>3
<1>4. Counts(T, held)
  BY <1>1, <1>3 DEF Counts
<1> QED
  BY <1>2, <1>4 DEF T

\* What setID makes of a thing: only one that keeps its time takes its mark to a kind
\* that decays.
LEMMA SetIDIs ==
  ASSUME NEW x \in Things, NEW k \in Kinds
  PROVE  /\ SetID(x, k) \in Things /\ SetID(x, k).kind = k
         /\ SetID(x, k).refs = x.refs /\ SetID(x, k).placed = x.placed
         /\ SetID(x, k).decaying => x.decaying /\ (DecayTime[k] > 0 => x.kind \in StopTime)
<1> DEFINE plain == DecayTime[k] = 0 /\ k \notin StopTime /\ DecayTo[k] = Never
           fresh == DecayTime[k] > 0 /\ (x.kind \notin StopTime \/ x.duration = -1)
           d == x.decaying /\ ~plain /\ ~fresh
           n == IF plain THEN -1 ELSE IF fresh THEN DecayTime[k] ELSE x.duration
<1>1. SetID(x, k) = [x EXCEPT !.kind = k, !.decaying = d, !.duration = n]
  BY DEF SetID
<1>2. d \in BOOLEAN /\ n \in Int
  BY DecayAssumption DEF Things
<1>3. d => x.decaying /\ (DecayTime[k] > 0 => x.kind \in StopTime)
  BY Zenon DEF Things
<1> HIDE DEF d, n
<1>4. SetID(x, k) \in Things
  <2>1. \A b \in BOOLEAN, m \in Int : [x EXCEPT !.kind = k, !.decaying = b, !.duration = m] \in Things
    BY DEF Things
  <2> QED
    BY <1>1, <1>2, <2>1
<1>5. /\ SetID(x, k).kind = k /\ SetID(x, k).refs = x.refs /\ SetID(x, k).placed = x.placed
      /\ SetID(x, k).decaying = d
  BY <1>1 DEF Things
<1> QED
  BY <1>3, <1>4, <1>5

\* A new thing.
LEMMA NewIs ==
  ASSUME NEW k \in Kinds
  PROVE  /\ New(k) \in Things /\ New(k).kind = k /\ New(k).placed /\ New(k).refs = 1
         /\ ~New(k).decaying
<1>1. Unmade \in Things
  BY DEF Unmade, Things
<1>2. \A m \in Int : [Unmade EXCEPT !.kind = k, !.placed = TRUE, !.refs = 1, !.duration = m] \in Things
  <2> DEFINE one == 1
             yes == TRUE
  <2>1. \A x \in Things, b \in BOOLEAN, r, m \in Int :
          [x EXCEPT !.kind = k, !.placed = b, !.refs = r, !.duration = m] \in Things
    BY DEF Things
  <2>2. one \in Int /\ yes \in BOOLEAN
    OBVIOUS
  <2> HIDE DEF one, yes
  <2>3. \A m \in Int : [Unmade EXCEPT !.kind = k, !.placed = yes, !.refs = one, !.duration = m] \in Things
    BY <1>1, <2>1, <2>2
  <2> QED
    BY <2>3 DEF one, yes
<1>3. (IF DecayTime[k] > 0 THEN DecayTime[k] ELSE -1) \in Int
  BY DecayAssumption
<1>4. New(k) \in Things
  BY <1>2, <1>3 DEF New
<1>5. New(k).kind = k /\ New(k).placed /\ New(k).refs = 1 /\ ~New(k).decaying
  BY DEF New, Unmade
<1> QED
  BY <1>4, <1>5

\* An item that is transformed, or another that takes its place, has the references it
\* should; it can be trusted unless it was marked and kept its time.
LEMMA TransformCounts ==
  ASSUME NEW S, NEW held \in Lists, Counts(S, held), NEW i \in Objects, S.items[i].placed,
         NEW k \in Kinds, NEW j \in Objects, Class[k] # Class[S.items[i].kind] => Unused(S, j)
  PROVE  LET T == Transform(S, i, k, j)
             n == IF Class[k] = Class[S.items[i].kind] THEN i ELSE j
         IN  /\ Counts(T, held)
             /\ \A o \in Objects \ {n} : T.toDecay[o] = S.toDecay[o]
             /\ \A o \in Objects \ {i, n} :
                  /\ T.items[o].kind = S.items[o].kind /\ T.items[o].placed = S.items[o].placed
                  /\ T.items[o].decaying = S.items[o].decaying
             /\ n # i => ~T.items[i].placed
             /\ T.items[n].kind = k /\ T.items[i].kind # NoItem
             /\ T.toDecay[n] \in {S.toDecay[n], S.toDecay[n] + 1}
             /\ Lasting(k) /\ T.toDecay[n] = S.toDecay[n] =>
                  n = i /\ S.items[i].decaying /\ S.items[i].kind \in StopTime
             /\ T.toDecay[n] = S.toDecay[n] /\ T.items[n].decaying => n = i /\ S.items[i].decaying
<1> DEFINE same == Class[k] = Class[S.items[i].kind]
           n == IF same THEN i ELSE j
           R == IF same THEN [S EXCEPT !.items[i] = SetID(@, k)]
                        ELSE InternalRemoveItem([S EXCEPT !.items[j] = New(k)], i)
           Q == StartDecay(R, n)
           T == Transform(S, i, k, j)
<1>0. S \in Stores /\ S.items[i] \in Things /\ S.items[i].kind \in Kinds
  BY ReferredIsMade DEF Counts, Stores
<1>a. k # NoItem
  BY DecayAssumption
<1>1. T = Restarted(Q, n)
  BY DEF Transform
<1>2. /\ Counts(R, held) /\ R.toDecay = S.toDecay /\ R.items[n].kind = k /\ R.items[n].placed
      /\ R.items[n].decaying => same /\ S.items[i].decaying /\ (DecayTime[k] > 0 => S.items[i].kind \in StopTime)
      /\ \A o \in Objects \ {i, n} : R.items[o] = S.items[o]
      /\ n # i => ~R.items[i].placed /\ R.items[i].kind = S.items[i].kind
      /\ n \in Objects
  <2>1. CASE same
    <3> DEFINE x == SetID(S.items[i], k)
    <3>1. /\ x \in Things /\ x.kind = k /\ x.refs = S.items[i].refs /\ x.placed = S.items[i].placed
          /\ x.decaying => S.items[i].decaying /\ (DecayTime[k] > 0 => S.items[i].kind \in StopTime)
      BY <1>0, SetIDIs
    <3>2. R = [S EXCEPT !.items[i] = x] /\ n = i
      BY <2>1
    <3> HIDE DEF R, x
    <3>3. x.kind # NoItem /\ x.refs - Place(x) = S.items[i].refs - Place(S.items[i])
      BY <1>a, <3>1 DEF Place
    <3>4. /\ Counts(R, held) /\ R.items[i] = x /\ R.toDecay = S.toDecay
          /\ \A o \in Objects \ {i} : R.items[o] = S.items[o]
      BY <3>1, <3>2, <3>3, PutCounts
    <3> QED
      BY <2>1, <3>1, <3>2, <3>4
  <2>2. CASE ~same
    <3> DEFINE P == [S EXCEPT !.items[j] = New(k)]
    <3>1. Unused(S, j) /\ S.items[j] = Unmade /\ j # i /\ n = j /\ R = InternalRemoveItem(P, i)
      <4>1. Unused(S, j) /\ n = j /\ R = InternalRemoveItem(P, i)
        BY <2>2
      <4>2. S.items[j] = Unmade
        BY <4>1, ReferredIsMade
      <4> QED
        BY <4>1, <4>2 DEF Unmade
    <3>2. New(k) \in Things /\ New(k).kind = k /\ New(k).placed /\ New(k).refs = 1 /\ ~New(k).decaying
      BY NewIs
    <3>3. New(k).kind # NoItem /\ New(k).refs - Place(New(k)) = S.items[j].refs - Place(S.items[j])
      BY <1>a, <3>1, <3>2 DEF Place, Unmade
    <3>4. /\ Counts(P, held) /\ P.items[j] = New(k) /\ P.toDecay = S.toDecay
          /\ \A o \in Objects \ {j} : P.items[o] = S.items[o]
      BY <3>2, <3>3, PutCounts
    <3> HIDE DEF P, R
    <3>5. P.items[i].placed
      BY <3>1, <3>4
    <3>6. Counts(R, held)
      BY <3>1, <3>4, <3>5, RemovedCounts
    <3>7. /\ R.toDecay = P.toDecay /\ \A o \in Objects \ {i} : R.items[o] = P.items[o]
          /\ ~R.items[i].placed /\ R.items[i].kind = P.items[i].kind
      <4>1. P \in Stores /\ P.items[i] \in Things
        BY <3>4 DEF Counts, Stores
      <4> QED
        BY <3>1, <4>1 DEF InternalRemoveItem, Release, Stores, Things
    <3> QED
      BY <2>2, <3>1, <3>2, <3>4, <3>6, <3>7
  <2> QED
    BY <2>1, <2>2
<1> HIDE DEF R, n, T
<1>3. /\ Counts(Q, held)
      /\ \A o \in Objects \ {n} : Q.items[o] = R.items[o] /\ Q.toDecay[o] = R.toDecay[o]
      /\ Q.items[n].kind = R.items[n].kind /\ Q.items[n].placed = R.items[n].placed
      /\ \/ Q = R /\ (CanDecay(R.items[n]) => R.items[n].decaying)
         \/ Q.toDecay[n] = R.toDecay[n] + 1
  <2>1. Counts(R, held) /\ n \in Objects
    BY <1>2
  <2> HIDE DEF Q
  <2>2. /\ Counts(StartDecay(R, n), held)
        /\ \A o \in Objects \ {n} : /\ StartDecay(R, n).items[o] = R.items[o]
                                    /\ StartDecay(R, n).toDecay[o] = R.toDecay[o]
        /\ StartDecay(R, n).items[n].kind = R.items[n].kind
        /\ StartDecay(R, n).items[n].placed = R.items[n].placed
        /\ \/ StartDecay(R, n) = R /\ (CanDecay(R.items[n]) => R.items[n].decaying)
           \/ StartDecay(R, n).toDecay[n] = R.toDecay[n] + 1 /\ CanDecay(R.items[n])
    BY <2>1, StartedCounts
  <2> QED
    BY <2>2 DEF Q
<1> HIDE DEF Q
<1>4. /\ Counts(T, held) /\ T.toDecay = Q.toDecay
      /\ \A o \in Objects : /\ T.items[o].kind = Q.items[o].kind /\ T.items[o].placed = Q.items[o].placed
                            /\ T.items[o].decaying = Q.items[o].decaying
  BY <1>1, <1>2, <1>3, <1>a, RestartedCounts
<1>5. Lasting(k) => CanDecay(R.items[n])
  BY <1>2 DEF Lasting, CanDecay
<1>6. S.toDecay[n] \in Nat
  BY <1>0, <1>2 DEF Stores
<1>7. /\ T.toDecay[n] \in {S.toDecay[n], S.toDecay[n] + 1}
      /\ T.toDecay[n] = S.toDecay[n] => Q = R /\ (CanDecay(R.items[n]) => R.items[n].decaying)
  BY <1>2, <1>3, <1>4, <1>6
<1>8. Lasting(k) /\ T.toDecay[n] = S.toDecay[n] =>
        n = i /\ S.items[i].decaying /\ S.items[i].kind \in StopTime
  BY <1>2, <1>5, <1>7 DEF Lasting, n
<1>9. T.toDecay[n] = S.toDecay[n] /\ T.items[n].decaying => n = i /\ S.items[i].decaying
  BY <1>2, <1>4, <1>7 DEF n
<1>10. /\ \A o \in Objects \ {n} : T.toDecay[o] = S.toDecay[o]
       /\ \A o \in Objects \ {i, n} :
            /\ T.items[o].kind = S.items[o].kind /\ T.items[o].placed = S.items[o].placed
            /\ T.items[o].decaying = S.items[o].decaying
       /\ n # i => ~T.items[i].placed
       /\ T.items[n].kind = k /\ T.items[i].kind # NoItem
  BY <1>0, <1>2, <1>3, <1>4, <1>a, DecayAssumption
<1> QED
  BY <1>4, <1>7, <1>8, <1>9, <1>10 DEF n, T

\* What is in a store stays in it.
Keeps(S, T) == T \in Stores /\ \A o \in Objects : S.items[o].kind # NoItem => T.items[o].kind # NoItem

\* None of the handlers frees an item: that is what clean-ups are for.
LEMMA Kept ==
  \A S \in Stores, i \in Objects :
    /\ Keeps(S, S) /\ Keeps(S, Release(S, i)) /\ Keeps(S, InternalRemoveItem(S, i))
    /\ Keeps(S, StartDecay(S, i)) /\ Keeps(S, Restarted(S, i))
    /\ \A x \in Things : x.kind # NoItem \/ x.kind = S.items[i].kind => Keeps(S, [S EXCEPT !.items[i] = x])
<1> SUFFICES ASSUME NEW S \in Stores, NEW i \in Objects
             PROVE  /\ Keeps(S, S) /\ Keeps(S, Release(S, i)) /\ Keeps(S, InternalRemoveItem(S, i))
                    /\ Keeps(S, StartDecay(S, i)) /\ Keeps(S, Restarted(S, i))
                    /\ \A x \in Things : x.kind # NoItem \/ x.kind = S.items[i].kind =>
                                           Keeps(S, [S EXCEPT !.items[i] = x])
  OBVIOUS
<1>0. S.items[i] \in Things
  BY DEF Stores
<1>1. Keeps(S, S)
  BY DEF Keeps
<1>2. ASSUME NEW T \in Stores PROVE Release(T, i) \in Stores /\ Release(T, i).items = T.items
  BY DEF Release, Stores
<1>3. ASSUME NEW x \in Things, x.kind # NoItem \/ x.kind = S.items[i].kind
      PROVE  Keeps(S, [S EXCEPT !.items[i] = x])
  <2> DEFINE T == [S EXCEPT !.items[i] = x]
  <2>1. T \in Stores
    BY StoreWith
  <2>2. T.items = [S.items EXCEPT ![i] = x]
    BY DEF Stores
  <2> HIDE DEF T
  <2>3. \A o \in Objects : S.items[o].kind # NoItem => T.items[o].kind # NoItem
    BY <1>3, <2>2 DEF Stores
  <2>4. Keeps(S, T)
    BY <2>1, <2>3 DEF Keeps
  <2> QED
    BY <2>4 DEF T
<1>4. Keeps(S, InternalRemoveItem(S, i))
  <2> DEFINE x == [S.items[i] EXCEPT !.placed = FALSE]
             P == [S EXCEPT !.items[i] = x]
  <2>1. x \in Things /\ x.kind = S.items[i].kind
    BY <1>0 DEF Things
  <2>2. InternalRemoveItem(S, i) = Release(P, i)
    BY DEF InternalRemoveItem
  <2> HIDE DEF x
  <2>3. Keeps(S, P)
    BY <1>3, <2>1
  <2> HIDE DEF P
  <2> QED
    BY <1>2, <2>2, <2>3 DEF Keeps
<1>5. Keeps(S, StartDecay(S, i))
  <2> DEFINE x == Decaying(S.items[i])
             T == [S EXCEPT !.items[i] = x, !.toDecay[i] = @ + 1]
  <2>1. x \in Things /\ x.kind = S.items[i].kind
    BY <1>0, ThingsAre
  <2>2. StartDecay(S, i) \in {S, T}
    BY DEF StartDecay
  <2> HIDE DEF x
  <2>3. Keeps(S, T)
    <3>1. T \in Stores
      <4>1. T = [S EXCEPT !.items[i] = x, !.toDecay = [S.toDecay EXCEPT ![i] = @ + 1]]
        BY DEF Stores
      <4>2. [S.toDecay EXCEPT ![i] = @ + 1] \in [Objects -> Nat]
        BY DEF Stores
      <4> HIDE DEF T
      <4> QED
        BY <2>1, <4>1, <4>2, StoreWith
    <3>2. T.items = [S.items EXCEPT ![i] = x]
      BY DEF Stores
    <3> QED
      BY <2>1, <3>1, <3>2 DEF Keeps, Stores
  <2> HIDE DEF T
  <2> QED
    BY <1>1, <2>2, <2>3
<1>6. Keeps(S, Restarted(S, i))
  <2> DEFINE x == Measured(S.items[i])
  <2>1. x \in Things /\ x.kind = S.items[i].kind /\ Restarted(S, i) = [S EXCEPT !.items[i] = x]
    BY <1>0, ThingsAre DEF Restarted
  <2> HIDE DEF x
  <2> QED
    BY <1>3, <2>1
<1>7. Keeps(S, Release(S, i))
  BY <1>2 DEF Keeps
<1> QED
  BY <1>1, <1>3, <1>4, <1>5, <1>6, <1>7

\* Also when an item is transformed,
LEMMA TransformKeeps ==
  ASSUME NEW S \in Stores, NEW i \in Objects, NEW k \in Kinds, NEW j \in Objects
  PROVE  Keeps(S, Transform(S, i, k, j))
<1> DEFINE same == Class[k] = Class[S.items[i].kind]
           n == IF same THEN i ELSE j
           R == IF same THEN [S EXCEPT !.items[i] = SetID(@, k)]
                        ELSE InternalRemoveItem([S EXCEPT !.items[j] = New(k)], i)
<1>1. Transform(S, i, k, j) = Restarted(StartDecay(R, n), n) /\ n \in Objects
  BY DEF Transform
<1>a. k # NoItem /\ S.items[i] \in Things
  BY DecayAssumption DEF Stores
<1>2. Keeps(S, R)
  <2>1. CASE same
    <3> DEFINE x == SetID(S.items[i], k)
    <3>1. x \in Things /\ x.kind = k /\ R = [S EXCEPT !.items[i] = x]
      BY <1>a, <2>1, SetIDIs
    <3> HIDE DEF R, x
    <3> QED
      BY <1>a, <3>1, Kept
  <2>2. CASE ~same
    <3> DEFINE P == [S EXCEPT !.items[j] = New(k)]
    <3>1. Keeps(S, P)
      BY <1>a, NewIs, Kept
    <3>2. R = InternalRemoveItem(P, i)
      BY <2>2
    <3> HIDE DEF P, R
    <3>3. Keeps(P, InternalRemoveItem(P, i))
      BY <3>1, Kept DEF Keeps
    <3> QED
      BY <3>1, <3>2, <3>3 DEF Keeps
  <2> QED
    BY <2>1, <2>2
<1> HIDE DEF R, n
<1> DEFINE Q == StartDecay(R, n)
<1>3. Keeps(R, Q)
  BY <1>1, <1>2, Kept DEF Keeps
<1> HIDE DEF Q
<1>4. Keeps(Q, Restarted(Q, n))
  BY <1>1, <1>3, Kept DEF Keeps
<1> QED
  BY <1>1, <1>2, <1>3, <1>4 DEF Keeps, Q

\* or visited, wherever what it turns into is made.
LEMMA VisitKeeps ==
  ASSUME NEW S \in Stores, NEW i \in Objects, NEW j \in Objects
  PROVE  Keeps(S, Visit(S, i, j).store) /\ Visit(S, i, j).stays \in {0, 1}
<1> DEFINE it == S.items[i]
           left == IF it.duration < Buckets THEN 0 ELSE it.duration - Buckets
           y == [it EXCEPT !.duration = left]
           z == [it EXCEPT !.decaying = FALSE]
           spent == [S EXCEPT !.items[i] = y]
           D == DecayItem(spent, i, j)
<1>1. it \in Things
  BY DEF Stores
<1>2. left \in Int
  BY <1>1 DEF Things, Buckets
<1>3. y \in Things /\ y.kind = it.kind /\ z \in Things /\ z.kind = it.kind
  <2> HIDE DEF left, it
  <2> QED
    BY <1>1, <1>2 DEF Things
<1>4. Visit(S, i, j) =
        IF ~CanDecay(it)
        THEN [store |-> Release([S EXCEPT !.items[i] = z], i), stays |-> 0]
        ELSE IF Ends(left) THEN [store |-> Release(D, i), stays |-> 0]
        ELSE [store |-> spent, stays |-> 1]
  BY DEF Visit
<1> HIDE DEF y, z, left, it
<1>5. Keeps(S, spent) /\ Keeps(S, [S EXCEPT !.items[i] = z])
  BY <1>3, Kept DEF it
<1>6. spent.items[i] = y
  BY DEF Stores
<1> HIDE DEF spent
<1>7. CanDecay(it) => Keeps(spent, D)
  <2> SUFFICES ASSUME CanDecay(it) PROVE Keeps(spent, D)
    OBVIOUS
  <2>1. it.kind \in Kinds /\ DecayTo[it.kind] \in Kinds \cup {NoItem}
    BY <1>1, DecayAssumption DEF CanDecay, Things
  <2>2. spent \in Stores
    BY <1>5 DEF Keeps
  <2>3. CASE DecayTo[it.kind] = NoItem
    BY <1>3, <1>6, <2>2, <2>3, Kept DEF DecayItem
  <2>4. CASE DecayTo[it.kind] # NoItem
    BY <1>3, <1>6, <2>1, <2>2, <2>4, TransformKeeps DEF DecayItem
  <2> QED
    BY <2>3, <2>4
<1> HIDE DEF D
<1>8. ASSUME NEW T, Keeps(S, T) PROVE Keeps(S, Release(T, i))
  <2>1. Keeps(T, Release(T, i))
    BY <1>8, Kept DEF Keeps
  <2> QED
    BY <1>8, <2>1 DEF Keeps
<1>9. CanDecay(it) => Keeps(S, D)
  BY <1>5, <1>7 DEF Keeps
<1>10. CASE ~CanDecay(it)
  BY <1>4, <1>5, <1>8, <1>10
<1>11. CASE CanDecay(it) /\ Ends(left)
  BY <1>4, <1>8, <1>9, <1>11
<1>12. CASE CanDecay(it) /\ ~Ends(left)
  BY <1>4, <1>5, <1>12
<1> QED
  BY <1>10, <1>11, <1>12

\* A release takes the place of a list.
LEMMA ReleaseCounts ==
  ASSUME NEW S, NEW held \in Lists, Counts(S, held), NEW i \in Objects, held[i] > 0,
         NEW less \in Lists, less[i] = held[i] - 1, \A k \in Objects \ {i} : less[k] = held[k]
  PROVE  Counts(Release(S, i), less)
<1> DEFINE T == Release(S, i)
<1>0. S \in Stores
  BY DEF Counts
<1>1. /\ T \in Stores /\ T.items = S.items /\ T.toDecay = S.toDecay
      /\ T.toRelease = [S.toRelease EXCEPT ![i] = @ + 1]
  BY <1>0 DEF Release, Stores
<1> HIDE DEF T
<1>2. ASSUME NEW k \in Objects
      PROVE  /\ T.items[k].refs = Place(T.items[k]) + T.toDecay[k] + T.toRelease[k] + less[k]
             /\ T.items[k].kind = NoItem => T.items[k] = Unmade
  <2>1. /\ S.items[k].refs = Place(S.items[k]) + S.toDecay[k] + S.toRelease[k] + held[k]
        /\ S.items[k].kind = NoItem => S.items[k] = Unmade
        /\ S.toDecay[k] \in Nat /\ S.toRelease[k] \in Nat /\ held[k] \in Nat
        /\ Place(S.items[k]) \in Nat
    BY DEF Counts, Stores, Lists, Place
  <2>2. T.toRelease[k] = IF k = i THEN S.toRelease[k] + 1 ELSE S.toRelease[k]
    BY <1>0, <1>1 DEF Stores
  <2> QED
    BY <1>1, <2>1, <2>2
<1>3. Counts(T, less)
  BY <1>1, <1>2 DEF Counts
<1> QED
  BY <1>3 DEF T

Agree(S, held) == Counts(S, held) /\ Marks(S, held)

\* A visit of an item that the lists held elsewhere have leaves every count right, when
\* there is an address for what it turns into.
LEMMA VisitSound ==
  ASSUME NEW S, NEW held \in Lists, Agree(S, held), NEW i \in Objects, held[i] > 0,
         NEW j \in Objects, Unused(S, j),
         NEW next \in Lists, next[i] = held[i] - 1 + Visit(S, i, j).stays,
         \A k \in Objects \ {i} : next[k] = held[k]
  PROVE  Agree(Visit(S, i, j).store, next)
<1> DEFINE it == S.items[i]
           left == IF it.duration < Buckets THEN 0 ELSE it.duration - Buckets
           y == [it EXCEPT !.duration = left]
           z == [it EXCEPT !.decaying = FALSE]
           spent == [S EXCEPT !.items[i] = y]
           D == DecayItem(spent, i, j)
           v == Visit(S, i, j)
<1>0. /\ Counts(S, held) /\ Marks(S, held) /\ S \in Stores /\ it \in Things /\ it.kind \in Kinds
      /\ i # j /\ S.items[j] = Unmade
  BY ReferredIsMade DEF Agree, Counts, Stores, Unused
<1>1. ~CanDecay(it) => v = [store |-> Release([S EXCEPT !.items[i] = z], i), stays |-> 0]
  BY DEF Visit
<1>2. CanDecay(it) /\ Ends(left) => v = [store |-> Release(D, i), stays |-> 0]
  BY DEF Visit
<1>3. CanDecay(it) /\ ~Ends(left) => v = [store |-> spent, stays |-> 1]
  BY DEF Visit
<1>4. left \in Int
  BY <1>0 DEF Things, Buckets
<1>5. /\ y \in Things /\ y.kind = it.kind /\ y.placed = it.placed /\ y.refs = it.refs /\ y.decaying = it.decaying
      /\ z \in Things /\ z.kind = it.kind /\ z.placed = it.placed /\ z.refs = it.refs /\ ~z.decaying
  <2> HIDE DEF left, it
  <2> QED
    BY <1>0, <1>4 DEF Things
<1>6. it.kind # NoItem
  BY <1>0, DecayAssumption
<1> HIDE DEF y, z, left, it, v
<1>7. /\ Counts(spent, held) /\ spent.items[i] = y /\ spent.toDecay = S.toDecay
      /\ \A k \in Objects \ {i} : spent.items[k] = S.items[k]
  BY <1>0, <1>5, <1>6, PutCounts DEF it, Place
<1> HIDE DEF spent, D
<1>8. \A k \in Objects : S.toDecay[k] \in Nat /\ held[k] \in Nat /\ next[k] \in Nat
  BY <1>0 DEF Stores, Lists
<1>9. CASE ~CanDecay(it)
  <2> DEFINE P == [S EXCEPT !.items[i] = z]
  <2>1. /\ Counts(P, held) /\ P.items[i] = z /\ P.toDecay = S.toDecay
        /\ \A k \in Objects \ {i} : P.items[k] = S.items[k]
    BY <1>0, <1>5, <1>6, PutCounts DEF it, Place
  <2>2. v.store = Release(P, i) /\ v.stays = 0
    BY <1>1, <1>9
  <2> HIDE DEF P
  <2>3. next[i] = held[i] - 1
    BY <1>8, <2>2 DEF v
  <2>4. Counts(Release(P, i), next)
    BY <2>1, <2>3, ReleaseCounts
  <2>5. Release(P, i).items = P.items /\ Release(P, i).toDecay = P.toDecay
    BY <2>1 DEF Release, Counts, Stores
  <2>6. ASSUME NEW k \in Objects
        PROVE  Trusted(P.items[k], P.toDecay[k] + next[k]) /\ P.toDecay[k] + next[k] <= MaxListed
    <3>1. Trusted(S.items[k], S.toDecay[k] + held[k]) /\ S.toDecay[k] + held[k] <= MaxListed
      BY <1>0 DEF Marks
    <3>2. CASE k = i
      <4>1. P.toDecay[k] + next[k] <= MaxListed
        BY <1>8, <2>1, <2>3, <3>1, <3>2, DecayAssumption
      <4>2. Trusted(P.items[k], P.toDecay[k] + next[k])
        BY <1>5, <2>1, <3>2 DEF Trusted
      <4> QED
        BY <4>1, <4>2
    <3>3. CASE k # i
      BY <2>1, <3>1, <3>3
    <3> QED
      BY <3>2, <3>3
  <2>7. Marks(Release(P, i), next)
    BY <2>5, <2>6 DEF Marks
  <2> QED
    BY <2>2, <2>4, <2>7 DEF v, Agree
<1>10. CASE CanDecay(it) /\ ~Ends(left)
  <2>1. v.store = spent /\ v.stays = 1
    BY <1>3, <1>10
  <2>2. next = held
    BY <1>8, <2>1 DEF v, Lists
  <2>3. Marks(spent, next)
    BY <1>0, <1>5, <1>7, <2>2 DEF Marks, Trusted, it
  <2> QED
    BY <1>7, <2>1, <2>2, <2>3 DEF v, Agree
<1>11. CASE CanDecay(it) /\ Ends(left)
  <2> DEFINE k == DecayTo[it.kind]
  <2>1. v.store = Release(D, i) /\ v.stays = 0
    BY <1>2, <1>11
  <2>2. next[i] = held[i] - 1
    BY <1>8, <2>1 DEF v
  <2>3. /\ it.placed /\ k \in Kinds \cup {NoItem} /\ it.kind \notin StopTime /\ k \notin StopTime
    BY <1>0, <1>11, DecayAssumption, KindsAssumption DEF CanDecay
  <2>4. D = IF k = NoItem THEN InternalRemoveItem(spent, i) ELSE Transform(spent, i, k, j)
    BY <1>5, <1>7 DEF D, DecayItem
  <2> HIDE DEF k
  <2>5. /\ Counts(D, held)
        /\ \A o \in Objects : Trusted(D.items[o], D.toDecay[o] + next[o]) /\ D.toDecay[o] + next[o] <= MaxListed
    <3>1. \A o \in Objects : Trusted(S.items[o], S.toDecay[o] + held[o]) /\ S.toDecay[o] + held[o] <= MaxListed
      BY <1>0 DEF Marks
    <3>2. CASE k = NoItem
      <4>1. Counts(D, held)
        BY <1>5, <1>7, <2>3, <2>4, <3>2, RemovedCounts
      <4>2. /\ D.toDecay = S.toDecay /\ ~D.items[i].placed
            /\ \A o \in Objects \ {i} : D.items[o] = S.items[o]
        <5>1. spent \in Stores /\ D = InternalRemoveItem(spent, i) /\ spent.items[i] \in Things
          BY <1>5, <1>7, <2>4, <3>2 DEF Counts
        <5>2. /\ D.toDecay = spent.toDecay /\ ~D.items[i].placed
              /\ \A o \in Objects \ {i} : D.items[o] = spent.items[o]
          BY <5>1 DEF InternalRemoveItem, Release, Stores, Things
        <5> QED
          BY <1>7, <5>2
      <4>3. ASSUME NEW o \in Objects
            PROVE  Trusted(D.items[o], D.toDecay[o] + next[o]) /\ D.toDecay[o] + next[o] <= MaxListed
        <5>1. CASE o = i
          <6>1. D.toDecay[o] + next[o] <= MaxListed
            BY <1>8, <2>2, <3>1, <4>2, <5>1, DecayAssumption
          <6> QED
            BY <4>2, <5>1, <6>1 DEF Trusted
        <5>2. CASE o # i
          BY <3>1, <4>2, <5>2
        <5> QED
          BY <5>1, <5>2
      <4> QED
        BY <4>1, <4>3
    <3>3. CASE k # NoItem
      <4> DEFINE n == IF Class[k] = Class[spent.items[i].kind] THEN i ELSE j
      <4>1. /\ k \in Kinds /\ spent.items[i].placed /\ Unused(spent, j)
        BY <1>0, <1>5, <1>7, <2>3, <3>3 DEF Unused
      <4>2. /\ Counts(D, held)
            /\ \A o \in Objects \ {n} : D.toDecay[o] = spent.toDecay[o]
            /\ \A o \in Objects \ {i, n} :
                  /\ D.items[o].kind = spent.items[o].kind /\ D.items[o].placed = spent.items[o].placed
                  /\ D.items[o].decaying = spent.items[o].decaying
            /\ n # i => ~D.items[i].placed
            /\ D.items[n].kind = k
            /\ D.toDecay[n] \in {spent.toDecay[n], spent.toDecay[n] + 1}
            /\ Lasting(k) /\ D.toDecay[n] = spent.toDecay[n] => spent.items[i].kind \in StopTime
        <5>1. D = Transform(spent, i, k, j)
          BY <2>4, <3>3
        <5> QED
          BY <1>7, <4>1, <5>1, TransformCounts
      <4>3. n \in {i, j}
        OBVIOUS
      <4> HIDE DEF n
      <4>4. held[j] = 0 /\ S.toDecay[j] = 0
        BY <1>0, ReferredIsMade
      <4>5. next[j] = held[j]
        BY <1>0
      <4>6. Lasting(k) => D.toDecay[n] = S.toDecay[n] + 1
        BY <1>5, <1>7, <2>3, <4>2
      <4>7. ASSUME NEW o \in Objects
            PROVE  Trusted(D.items[o], D.toDecay[o] + next[o]) /\ D.toDecay[o] + next[o] <= MaxListed
        <5>1. CASE o = n
          <6>1. D.toDecay[o] \in {S.toDecay[o], S.toDecay[o] + 1}
            BY <1>7, <4>2, <5>1
          <6>2. CASE n = i
            <7>1. D.toDecay[o] + next[o] <= MaxListed
              BY <1>8, <2>2, <3>1, <5>1, <6>1, <6>2, DecayAssumption
            <7>2. Lasting(k) => D.toDecay[o] + next[o] > 0
              BY <1>8, <4>6, <5>1
            <7> QED
              BY <2>3, <4>2, <5>1, <7>1, <7>2 DEF Trusted
          <6>3. CASE n = j
            <7>1. D.toDecay[o] + next[o] <= MaxListed
              BY <1>8, <4>4, <4>5, <5>1, <6>1, <6>3, DecayAssumption
            <7>2. Lasting(k) => D.toDecay[o] + next[o] > 0
              BY <1>8, <4>6, <5>1
            <7> QED
              BY <2>3, <4>2, <5>1, <7>1, <7>2 DEF Trusted
          <6> QED
            BY <4>3, <6>2, <6>3
        <5>2. CASE o # n /\ o = i
          <6>1. D.toDecay[o] = S.toDecay[o] /\ ~D.items[o].placed
            BY <1>7, <4>2, <5>2
          <6>2. D.toDecay[o] + next[o] <= MaxListed
            BY <1>8, <2>2, <3>1, <5>2, <6>1, DecayAssumption
          <6> QED
            BY <6>1, <6>2 DEF Trusted
        <5>3. CASE o # n /\ o # i
          <6>1. /\ D.toDecay[o] = S.toDecay[o] /\ next[o] = held[o] /\ D.items[o].kind = S.items[o].kind
                /\ D.items[o].placed = S.items[o].placed /\ D.items[o].decaying = S.items[o].decaying
            BY <1>7, <4>2, <5>3
          <6> QED
            BY <3>1, <6>1 DEF Trusted
        <5> QED
          BY <5>1, <5>2, <5>3
      <4> QED
        BY <4>2, <4>7
    <3> QED
      BY <3>2, <3>3
  <2>6. Counts(Release(D, i), next)
    BY <2>2, <2>5, ReleaseCounts
  <2>7. Release(D, i).items = D.items /\ Release(D, i).toDecay = D.toDecay
    BY <2>5 DEF Release, Counts, Stores
  <2>8. Marks(Release(D, i), next)
    BY <2>5, <2>7 DEF Marks
  <2> QED
    BY <2>1, <2>6, <2>8 DEF v, Agree
<1> QED
  BY <1>9, <1>10, <1>11

\* There is a spare address, if there is one.
LEMMA SpareIs ==
  ASSUME NEW S, Objects # {}
  PROVE  Spare(S) \in Objects /\ (Made(S) # Objects => Unused(S, Spare(S)))
<1>1. \E j \in Objects : Made(S) # Objects => Unused(S, j)
  BY DEF Made, Unused
<1> QED
  BY <1>1 DEF Spare

\* What checkDecay accumulates.
Visited == [store : Stores, kept : Lists]

\* One entry more: nothing is lost from the store, and the entry stays or goes.
LEMMA VisitNextIs ==
  ASSUME NEW e \in Objects \X Nat, NEW a \in Visited
  PROVE  LET v == Visit(a.store, e[1], Spare(a.store))
         IN  /\ VisitNext(e, a) \in Visited /\ Keeps(a.store, VisitNext(e, a).store)
             /\ VisitNext(e, a).store = v.store /\ v.stays \in {0, 1}
             /\ VisitNext(e, a).kept[e[1]] = a.kept[e[1]] + v.stays
             /\ \A k \in Objects \ {e[1]} : VisitNext(e, a).kept[k] = a.kept[k]
<1> DEFINE j == Spare(a.store)
           v == Visit(a.store, e[1], j)
           kept == [a.kept EXCEPT ![e[1]] = @ + v.stays]
<1>1. e[1] \in Objects /\ a.store \in Stores /\ a.kept \in Lists
  BY DEF Visited
<1>2. j \in Objects
  BY <1>1, SpareIs
<1> HIDE DEF j
<1>3. Keeps(a.store, v.store) /\ v.stays \in {0, 1}
  BY <1>1, <1>2, VisitKeeps
<1>4. VisitNext(e, a) = [store |-> v.store, kept |-> kept]
  BY DEF VisitNext, j
<1> HIDE DEF v
<1>5. /\ kept \in Lists /\ kept[e[1]] = a.kept[e[1]] + v.stays
      /\ \A k \in Objects \ {e[1]} : kept[k] = a.kept[k]
  <2>1. \A k \in Objects : a.kept[k] \in Nat
    BY <1>1 DEF Lists
  <2>2. a.kept[e[1]] + v.stays \in Nat
    BY <1>1, <1>3, <2>1
  <2> QED
    BY <1>1, <2>2 DEF Lists
<1> HIDE DEF kept
<1>6. VisitNext(e, a) \in Visited
  BY <1>3, <1>4, <1>5 DEF Visited, Keeps
<1> QED
  BY <1>3, <1>4, <1>5, <1>6 DEF v, j

\* The entries of an item among some entries.
Copies(es, i) == {n \in 1..MaxListed : <<i, n>> \in es}

\* Taking an entry away takes it from its item's.
LEMMA CopiesAre ==
  ASSUME NEW es, NEW i \in Objects
  PROVE  /\ Cardinality(Copies(es, i)) \in Nat
         /\ \A e \in es : e \in Objects \X (1..MaxListed) =>
              Cardinality(Copies(es \ {e}, i)) = Cardinality(Copies(es, i)) - (IF e[1] = i THEN 1 ELSE 0)
<1>1. \A fs : IsFiniteSet(Copies(fs, i)) /\ Cardinality(Copies(fs, i)) \in Nat
  <2> SUFFICES ASSUME NEW fs PROVE IsFiniteSet(Copies(fs, i)) /\ Cardinality(Copies(fs, i)) \in Nat
    OBVIOUS
  <2>1. IsFiniteSet(1..MaxListed) /\ Copies(fs, i) \in SUBSET (1..MaxListed)
    BY DecayAssumption, FS_Interval DEF Copies
  <2> QED
    BY <2>1, FS_Subset, FS_CardinalityType
<1>2. ASSUME NEW e \in es, e \in Objects \X (1..MaxListed)
      PROVE  Cardinality(Copies(es \ {e}, i)) = Cardinality(Copies(es, i)) - (IF e[1] = i THEN 1 ELSE 0)
  <2>1. CASE e[1] = i
    <3>1. e = <<i, e[2]>> /\ e[2] \in 1..MaxListed
      BY <1>2, <2>1
    <3>2. Copies(es \ {e}, i) = Copies(es, i) \ {e[2]} /\ e[2] \in Copies(es, i)
      BY <1>2, <3>1 DEF Copies
    <3>3. Cardinality(Copies(es, i) \ {e[2]}) = Cardinality(Copies(es, i)) - 1
      <4> DEFINE cs == Copies(es, i)
                 n == e[2]
      <4>1. IsFiniteSet(cs) /\ n \in cs
        BY <1>1, <3>2
      <4> HIDE DEF cs, n
      <4>2. Cardinality(cs \ {n}) = Cardinality(cs) - 1
        BY <4>1, FS_RemoveElement
      <4> QED
        BY <4>2 DEF cs, n
    <3> QED
      BY <2>1, <3>2, <3>3
  <2>2. CASE e[1] # i
    <3>1. Copies(es \ {e}, i) = Copies(es, i)
      BY <2>2 DEF Copies
    <3> QED
      BY <1>1, <2>2, <3>1
  <2> QED
    BY <2>1, <2>2
<1> QED
  BY <1>1, <1>2

\* A bucket has as many entries of an item as it is in it.
LEMMA EntriesAre ==
  ASSUME NEW i \in Objects, decayItems[NextBucket] \in Lists, decayItems[NextBucket][i] <= MaxListed
  PROVE  Cardinality(Copies(Entries, i)) = decayItems[NextBucket][i]
<1> DEFINE d == decayItems[NextBucket][i]
<1>1. d \in Nat
  BY DEF Lists
<1>2. Copies(Entries, i) = 1..d
  BY <1>1, DecayAssumption DEF Copies, Entries
<1> HIDE DEF d
<1>3. Cardinality(1..d) = d
  BY <1>1, FS_Interval
<1> QED
  BY <1>2, <1>3 DEF d

\* One entry more of a bucket, whose others are still to come, keeps the counts sound.
LEMMA NextVisitSound ==
  ASSUME NEW e \in Objects \X Nat, NEW a \in Visited, NEW held \in Lists, NEW next \in Lists,
         Agree(a.store, held), Made(a.store) # Objects, held[e[1]] > 0,
         \A k \in Objects :
           next[k] = held[k] + (VisitNext(e, a).kept[k] - a.kept[k]) - (IF e[1] = k THEN 1 ELSE 0)
  PROVE  Agree(VisitNext(e, a).store, next)
<1> DEFINE i == e[1]
           j == Spare(a.store)
           v == Visit(a.store, i, j)
<1>1. i \in Objects /\ a.kept \in Lists
  BY DEF Visited
<1>2. j \in Objects /\ Unused(a.store, j)
  BY <1>1, SpareIs
<1>3. /\ VisitNext(e, a).store = v.store /\ v.stays \in {0, 1}
      /\ VisitNext(e, a).kept[i] = a.kept[i] + v.stays
      /\ \A k \in Objects \ {i} : VisitNext(e, a).kept[k] = a.kept[k]
  BY VisitNextIs
<1> HIDE DEF j
<1>4. \A k \in Objects : a.kept[k] \in Int /\ held[k] \in Int
  BY <1>1 DEF Lists
<1>5. next[i] = held[i] - 1 + v.stays
  <2> HIDE DEF v
  <2> QED
    BY <1>1, <1>3, <1>4
<1>6. \A k \in Objects \ {i} : next[k] = held[k]
  <2> HIDE DEF v
  <2> QED
    BY <1>1, <1>3, <1>4
<1>7. Agree(v.store, next)
  <2> HIDE DEF i
  <2>1. held[i] > 0
    BY DEF i
  <2> QED
    BY <1>1, <1>2, <1>5, <1>6, <2>1, VisitSound
<1> QED
  BY <1>3, <1>7

\* After a round of visits, all the entries of the bucket are accounted for: an item is
\* in the lists as often as it was, without those and with the ones that stay.
LEMMA RoundSound ==
  ASSUME NEW held \in Lists, Agree(Aged, held),
         decayItems[NextBucket] \in Lists, \A i \in Objects : decayItems[NextBucket][i] <= held[i],
         NEW end, end = FoldSet(VisitNext, [store |-> Aged, kept |-> Zero], Entries),
         Made(end.store) # Objects
  PROVE  /\ end \in Visited
         /\ Agree(end.store, [i \in Objects |-> held[i] - decayItems[NextBucket][i] + end.kept[i]])
<1> DEFINE D == Entries
           V == Visited
           base == [store |-> Aged, kept |-> Zero]
           op == [e \in D |-> [a \in V |-> VisitNext(e, a)]]
           d == decayItems[NextBucket]
<1>0. /\ D \in SUBSET (Objects \X (1..MaxListed)) /\ D \in SUBSET (Objects \X Nat) /\ IsFiniteSet(D)
  <2>1. D \in SUBSET (Objects \X (1..MaxListed))
    BY DEF Entries
  <2>2. IsFiniteSet(Objects \X (1..MaxListed))
    <3> DEFINE m == 1..MaxListed
    <3>1. IsFiniteSet(Objects) /\ IsFiniteSet(m)
      BY DecayAssumption, FS_Interval
    <3> HIDE DEF m
    <3>2. IsFiniteSet(Objects \X m)
      BY <3>1, FS_Product
    <3> QED
      BY <3>2 DEF m
  <2>3. IsFiniteSet(D)
    <3> HIDE DEF D
    <3> QED
      BY <2>1, <2>2, FS_Subset
  <2>4. 1..MaxListed \subseteq Nat
    BY DecayAssumption
  <2> HIDE DEF D
  <2> QED
    BY <2>1, <2>3, <2>4
<1>1. base \in V
  BY DEF Agree, Counts, Visited, Lists, Zero
<1>2. \A e \in D, a \in V : VisitNext(e, a) \in V /\ Keeps(a.store, VisitNext(e, a).store)
  <2> HIDE DEF D
  <2> QED
    BY <1>0, VisitNextIs
<1>a. \A i \in Objects : Cardinality(Copies(D, i)) = d[i] /\ d[i] \in Nat /\ held[i] \in Nat
  <2> SUFFICES ASSUME NEW i \in Objects
               PROVE  Cardinality(Copies(D, i)) = d[i] /\ d[i] \in Nat /\ held[i] \in Nat
    OBVIOUS
  <2>1. d[i] \in Nat /\ held[i] \in Nat /\ Aged.toDecay[i] \in Nat
    BY DEF Lists, Agree, Counts, Stores
  <2>2. Aged.toDecay[i] + held[i] <= MaxListed
    BY DEF Agree, Marks
  <2>3. d[i] <= held[i]
    OBVIOUS
  <2>4. d[i] <= MaxListed
    <3> HIDE DEF d
    <3> QED
      BY <2>1, <2>2, <2>3, DecayAssumption
  <2> QED
    BY <2>1, <2>4, EntriesAre
<1> HIDE DEF D, V, base
<1>3. op \in [D -> [V -> V]]
  BY <1>2
<1> DEFINE Body(h, T) == IF T = {} THEN base ELSE VisitNext(First(T), h[T \ {First(T)}])
<1>4. \E h : h = [T \in SUBSET D |-> Body(h, T)] /\ \A T \in SUBSET D : h[T] \in V
  <2>1. PICK g \in [SUBSET D -> V] : IsFold(g, D, base, op)
    <3> HIDE DEF op
    <3> QED
      BY <1>0, <1>1, <1>3, FoldExists
  <2>2. ASSUME NEW T \in SUBSET D PROVE g[T] = Body(g, T)
    <3>1. CASE T = {}
      BY <2>1, <3>1 DEF IsFold
    <3>2. CASE T # {}
      <4>1. First(T) \in T
        BY <3>2 DEF First
      <4>2. g[T \ {First(T)}] \in V /\ First(T) \in D
        BY <4>1
      <4>3. g[T] = op[First(T)][g[T \ {First(T)}]]
        <5> HIDE DEF op
        <5> QED
          BY <2>1, <3>2 DEF IsFold
      <4> QED
        BY <3>2, <4>2, <4>3
    <3> QED
      BY <3>1, <3>2
  <2>3. g = [T \in SUBSET D |-> Body(g, T)]
    <3> HIDE DEF Body
    <3> QED
      BY <2>2
  <2> QED
    BY <2>3
<1> DEFINE h == CHOOSE h : h = [T \in SUBSET D |-> Body(h, T)]
<1>5. h = [T \in SUBSET D |-> Body(h, T)]
  <2> HIDE DEF Body
  <2> QED
    BY <1>4
<1>6. end = h[D]
  BY DEF FoldSet, MapThenFoldSet, First, D, base
<1> HIDE DEF h, op
<1> DEFINE Owed(T) == [i \in Objects |-> held[i] - d[i] + h[T].kept[i] + Cardinality(Copies(D \ T, i))]
           Full(T) == Made(h[T].store) = Objects
           Right(T) == h[T] \in V /\ (Full(T) \/ (Owed(T) \in Lists /\ Agree(h[T].store, Owed(T))))
<1> HIDE DEF d
<1>7. Right({})
  <2>1. h[{}] = base
    BY <1>5
  <2>2. base.store = Aged /\ \A i \in Objects : base.kept[i] = 0
    BY DEF base, Zero
  <2>3. \A i \in Objects : held[i] - d[i] + h[{}].kept[i] + Cardinality(Copies(D \ {}, i)) = held[i]
    <3>1. D \ {} = D
      OBVIOUS
    <3> QED
      BY <1>a, <2>1, <2>2, <3>1
  <2>4. Owed({}) = held
    BY <2>3 DEF Lists
  <2> HIDE DEF Owed
  <2> QED
    BY <1>1, <2>1, <2>2, <2>4
<1>8. ASSUME NEW T \in SUBSET D, T # {}, Right(T \ {First(T)}) PROVE Right(T)
  <2> DEFINE c == First(T)
             U == T \ {c}
  <2>1. c \in T /\ c \in D /\ U \in SUBSET D
    BY <1>8 DEF First
  <2>2. h[T] = VisitNext(c, h[U])
    BY <1>5, <1>8
  <2>3. h[U] \in V /\ (Full(U) \/ (Owed(U) \in Lists /\ Agree(h[U].store, Owed(U))))
    BY <1>8
  <2>4. c \in Objects \X Nat /\ c \in Objects \X (1..MaxListed)
    <3> HIDE DEF c
    <3> QED
      BY <1>0, <2>1
  <2>a. D \ T = (D \ U) \ {c} /\ c \in D \ U
    <3> HIDE DEF c
    <3> QED
      BY <2>1
  <2> HIDE DEF c, U, Owed, Full
  <2>5. h[T] \in V /\ Keeps(h[U].store, h[T].store)
    BY <1>2, <2>1, <2>2, <2>3
  <2>6. CASE Full(U)
    <3>1. Full(T)
      BY <2>5, <2>6 DEF Full, Made, Keeps
    <3>2. h[T] \in V
      BY <2>5
    <3> QED
      BY <3>1, <3>2 DEF Full
  <2>7. CASE ~Full(U)
    <3> DEFINE v == Visit(h[U].store, c[1], Spare(h[U].store))
    <3>1. /\ v.stays \in {0, 1} /\ h[T].kept[c[1]] = h[U].kept[c[1]] + v.stays
          /\ \A k \in Objects \ {c[1]} : h[T].kept[k] = h[U].kept[k]
      BY <2>2, <2>3, <2>4, VisitNextIs DEF V
    <3> HIDE DEF v
    <3>2. c[1] \in Objects
      BY <2>4
    <3>3. \A k \in Objects :
            /\ Cardinality(Copies(D \ U, k)) \in Nat /\ Cardinality(Copies(D \ T, k)) \in Nat
            /\ Cardinality(Copies(D \ T, k)) = Cardinality(Copies(D \ U, k)) - (IF c[1] = k THEN 1 ELSE 0)
      <4> DEFINE es == D \ U
      <4>1. c \in es /\ D \ T = es \ {c}
        BY <2>a
      <4> HIDE DEF es
      <4>2. \A k \in Objects :
              /\ Cardinality(Copies(es, k)) \in Nat /\ Cardinality(Copies(D \ T, k)) \in Nat
              /\ Cardinality(Copies(es \ {c}, k)) = Cardinality(Copies(es, k)) - (IF c[1] = k THEN 1 ELSE 0)
        BY <2>4, <4>1, CopiesAre
      <4> QED
        BY <4>1, <4>2 DEF es
    <3>4. \A k \in Objects : h[U].kept[k] \in Nat /\ h[T].kept[k] \in Nat
      BY <2>3, <2>5 DEF V, Visited, Lists
    <3>5. \A k \in Objects :
            /\ Owed(T)[k] \in Nat /\ d[k] <= held[k]
            /\ Owed(T)[k] = Owed(U)[k] + (h[T].kept[k] - h[U].kept[k]) - (IF c[1] = k THEN 1 ELSE 0)
      <4> SUFFICES ASSUME NEW k \in Objects
                   PROVE  /\ Owed(T)[k] \in Nat /\ d[k] <= held[k]
                          /\ Owed(T)[k] = Owed(U)[k] + (h[T].kept[k] - h[U].kept[k])
                                          - (IF c[1] = k THEN 1 ELSE 0)
        OBVIOUS
      <4>1. /\ Owed(T)[k] = held[k] - d[k] + h[T].kept[k] + Cardinality(Copies(D \ T, k))
            /\ Owed(U)[k] = held[k] - d[k] + h[U].kept[k] + Cardinality(Copies(D \ U, k))
        BY DEF Owed
      <4>2. d[k] <= held[k] /\ d[k] \in Nat /\ held[k] \in Nat
        BY <1>a DEF d
      <4> DEFINE x == IF c[1] = k THEN 1 ELSE 0
                 p == Cardinality(Copies(D \ T, k))
                 q == Cardinality(Copies(D \ U, k))
      <4>3. x \in {0, 1} /\ p \in Nat /\ q \in Nat /\ p = q - x
        BY <3>3
      <4> HIDE DEF x, p, q
      <4>4. /\ held[k] - d[k] + h[T].kept[k] + p \in Nat
            /\ held[k] - d[k] + h[T].kept[k] + p
                 = held[k] - d[k] + h[U].kept[k] + q + (h[T].kept[k] - h[U].kept[k]) - x
        BY <3>4, <4>2, <4>3
      <4> QED
        BY <4>1, <4>2, <4>4 DEF x, p, q
    <3>6. Owed(T) \in Lists
      BY <3>5 DEF Owed, Lists
    <3>7. Owed(U) \in Lists /\ Agree(h[U].store, Owed(U)) /\ Made(h[U].store) # Objects
      BY <2>3, <2>7 DEF Full
    <3>8. Owed(U)[c[1]] > 0
      <4> DEFINE k == c[1]
      <4>1. Owed(U)[k] = held[k] - d[k] + h[U].kept[k] + Cardinality(Copies(D \ U, k))
        BY <3>2 DEF Owed
      <4>2. d[k] <= held[k] /\ d[k] \in Nat /\ held[k] \in Nat /\ h[U].kept[k] \in Nat
        BY <1>a, <3>2, <3>4, <3>5
      <4>3. Cardinality(Copies(D \ U, k)) \in Nat /\ Cardinality(Copies(D \ U, k)) - 1 \in Nat
        BY <3>2, <3>3
      <4> HIDE DEF k
      <4>4. Owed(U)[k] > 0
        BY <4>1, <4>2, <4>3
      <4> QED
        BY <4>4 DEF k
    <3>9. Agree(h[T].store, Owed(T))
      <4> DEFINE a == h[U]
                 was == Owed(U)
                 next == Owed(T)
      <4>1. /\ a \in Visited /\ was \in Lists /\ next \in Lists /\ Agree(a.store, was)
            /\ Made(a.store) # Objects /\ was[c[1]] > 0
        BY <2>3, <3>6, <3>7, <3>8 DEF V
      <4>2. \A k \in Objects :
              next[k] = was[k] + (VisitNext(c, a).kept[k] - a.kept[k]) - (IF c[1] = k THEN 1 ELSE 0)
        BY <2>2, <3>5
      <4> HIDE DEF a, was, next
      <4>3. Agree(VisitNext(c, a).store, next)
        BY <2>4, <4>1, <4>2, NextVisitSound
      <4> QED
        BY <2>2, <4>3 DEF a, next
    <3> QED
      BY <2>5, <3>6, <3>9
  <2> QED
    BY <2>6, <2>7
<1> HIDE DEF Right
<1>9. Right(D)
  <2> DEFINE F == {T \in SUBSET D : Right(T)}
  <2>1. ASSUME NEW T \in SUBSET D, \A U \in SUBSET T : U # T => U \in F PROVE T \in F
    <3>1. CASE T = {}
      BY <1>7, <3>1
    <3>2. CASE T # {}
      <4>1. First(T) \in T
        BY <3>2 DEF First
      <4>2. T \ {First(T)} \in SUBSET T /\ T \ {First(T)} # T
        BY <4>1
      <4>3. Right(T \ {First(T)})
        BY <2>1, <4>2
      <4> QED
        BY <1>8, <3>2, <4>3
    <3> QED
      BY <3>1, <3>2
  <2> HIDE DEF F
  <2>2. \A T \in SUBSET D : T \in F
    BY <1>0, <2>1, SetInduction
  <2>3. D \in F
    BY <2>2
  <2> QED
    BY <2>3 DEF F
<1>10. end \in V /\ Agree(end.store, Owed(D))
  BY <1>6, <1>9 DEF Right
<1>11. Owed(D) = [i \in Objects |-> held[i] - d[i] + end.kept[i]]
  <2>1. \A i \in Objects : Cardinality(Copies(D \ D, i)) = 0
    <3>1. \A i \in Objects : Copies(D \ D, i) = {}
      BY DEF Copies
    <3> QED
      BY <3>1, FS_EmptySet
  <2>2. \A i \in Objects : held[i] - d[i] + end.kept[i] \in Int
    BY <1>a, <1>10 DEF V, Visited, Lists
  <2>3. \A i \in Objects : held[i] - d[i] + h[D].kept[i] + Cardinality(Copies(D \ D, i))
                            = held[i] - d[i] + end.kept[i]
    <3> SUFFICES ASSUME NEW i \in Objects
                 PROVE  held[i] - d[i] + h[D].kept[i] + Cardinality(Copies(D \ D, i))
                          = held[i] - d[i] + end.kept[i]
      OBVIOUS
    <3> DEFINE n == held[i] - d[i] + end.kept[i]
    <3>1. n \in Int /\ Cardinality(Copies(D \ D, i)) = 0
      BY <2>1, <2>2
    <3>2. n + Cardinality(Copies(D \ D, i)) = n
      <4> HIDE DEF n
      <4> QED
        BY <3>1
    <3> QED
      BY <1>6, <3>2
  <2> QED
    BY <2>3
<1> HIDE DEF Owed
<1> QED
  BY <1>10, <1>11 DEF V, d

\* How often the buckets hold each item.
Held == [i \in Objects |-> InBuckets(i)]

DecayInv ==
  /\ decayItems \in [0..Buckets-1 -> Lists] /\ lastBucket \in 0..Buckets-1
  /\ Agree(Store, Held)

\* The lists hold numbers, which clean-ups and visits add up.
LEMMA HeldIsNat ==
  ASSUME NEW lists \in [0..Buckets-1 -> Lists]
  PROVE  \A i \in Objects : /\ lists[0][i] \in Nat /\ lists[1][i] \in Nat
                            /\ lists[2][i] \in Nat /\ lists[3][i] \in Nat
BY DEF Buckets, Lists

\* At the start there is nothing to count.
LEMMA DecayStart == DecayInit => DecayInv
<1> SUFFICES ASSUME DecayInit PROVE DecayInv
  OBVIOUS
<1>1. /\ Zero \in Lists /\ decayItems \in [0..Buckets-1 -> Lists] /\ lastBucket \in 0..Buckets-1
      /\ \A i \in Objects : Zero[i] = 0 /\ Held[i] = 0
  BY DEF DecayInit, Zero, Lists, Buckets, Held, InBuckets
<1>2. Unmade \in Things
  BY DEF Unmade, Things
<1>3. /\ Store.items \in [Objects -> Things] /\ Store.toDecay = Zero /\ Store.toRelease = Zero
      /\ \A i \in Objects : Store.items[i] = Unmade
  BY <1>2 DEF DecayInit, Store
<1>4. Store \in Stores
  BY <1>1, <1>3 DEF Store, Stores, Lists
<1>5. Unmade.refs = 0 /\ Place(Unmade) = 0 /\ ~Unmade.decaying
  BY DEF Unmade, Place
<1>6. \A i \in Objects : Store.items[i].refs = Place(Store.items[i]) + Store.toDecay[i] + Store.toRelease[i] + Held[i]
  BY <1>1, <1>3, <1>5
<1>7. Counts(Store, Held)
  BY <1>3, <1>4, <1>6 DEF Counts
<1>8. Marks(Store, Held)
  BY <1>1, <1>3, <1>5, DecayAssumption DEF Marks, Trusted
<1> QED
  BY <1>1, <1>7, <1>8 DEF DecayInv, Agree

\* Things are as they were when a tick has passed.
LEMMA AgedSound == DecayInv => Agree(Aged, Held)
<1> SUFFICES ASSUME DecayInv PROVE Agree(Aged, Held)
  OBVIOUS
<1> DEFINE Older(x) == [x EXCEPT !.age = @ + 1]
<1>0. Store \in Stores /\ Counts(Store, Held) /\ Marks(Store, Held) /\ items \in [Objects -> Things]
  BY DEF DecayInv, Agree, Counts, Stores, Store
<1>1. \A x \in Things : /\ Older(x) \in Things /\ Older(x).kind = x.kind /\ Older(x).placed = x.placed
                        /\ Older(x).refs = x.refs /\ Older(x).decaying = x.decaying
  <2> SUFFICES ASSUME NEW x \in Things
               PROVE  /\ Older(x) \in Things /\ Older(x).kind = x.kind /\ Older(x).placed = x.placed
                      /\ Older(x).refs = x.refs /\ Older(x).decaying = x.decaying
    OBVIOUS
  <2>1. \A n \in Int : [x EXCEPT !.age = n] \in Things
    BY DEF Things
  <2>2. x.age + 1 \in Int
    BY DEF Things
  <2>3. Older(x) \in Things
    BY <2>1, <2>2
  <2>4. /\ Older(x).kind = x.kind /\ Older(x).placed = x.placed
        /\ Older(x).refs = x.refs /\ Older(x).decaying = x.decaying
    BY DEF Things
  <2> QED
    BY <2>3, <2>4
<1>2. /\ Aged.toDecay = Store.toDecay /\ Aged.toRelease = Store.toRelease
      /\ Aged.items = [i \in Objects |-> IF Listed(i) > 0 /\ CanDecay(items[i]) THEN Older(items[i]) ELSE items[i]]
      /\ Aged = [items |-> Aged.items, toDecay |-> Store.toDecay, toRelease |-> Store.toRelease]
  BY DEF Aged, Store
<1> HIDE DEF Older
<1>3. ASSUME NEW i \in Objects
      PROVE  /\ Aged.items[i] \in Things
             /\ Aged.items[i].kind = Store.items[i].kind /\ Aged.items[i].placed = Store.items[i].placed
             /\ Aged.items[i].refs = Store.items[i].refs /\ Aged.items[i].decaying = Store.items[i].decaying
             /\ Store.items[i].kind = NoItem => Aged.items[i] = Store.items[i]
  <2>1. Store.items[i] = items[i] /\ items[i] \in Things
    BY <1>0 DEF Store
  <2>2. Aged.items[i] = items[i] \/ (Aged.items[i] = Older(items[i]) /\ CanDecay(items[i]))
    BY <1>2
  <2>3. CanDecay(items[i]) => items[i].kind # NoItem
    BY DEF CanDecay
  <2> QED
    BY <1>1, <2>1, <2>2, <2>3
<1>4. Aged \in Stores
  <2>1. Aged.items \in [Objects -> Things]
    BY <1>2, <1>3
  <2>2. Store.toDecay \in [Objects -> Nat] /\ Store.toRelease \in [Objects -> Nat]
    BY <1>0 DEF Stores
  <2> QED
    BY <1>2, <2>1, <2>2 DEF Stores
<1>5. Counts(Aged, Held)
  BY <1>0, <1>2, <1>3, <1>4 DEF Counts, Place
<1>6. Marks(Aged, Held)
  BY <1>0, <1>2, <1>3 DEF Marks, Trusted
<1> QED
  BY <1>5, <1>6 DEF Agree

\* A clean-up gives each item up that had as many references as releases, and puts what
\* is in toDecayItems into the buckets.
LEMMA CleanedUp ==
  ASSUME NEW S, NEW lists \in [0..Buckets-1 -> Lists], NEW last \in 0..Buckets-1, lastBucket' = last,
         NEW held \in Lists, Agree(S, held), Cleanup(S, lists, last),
         \A i \in Objects : held[i] = lists[0][i] + lists[1][i] + lists[2][i] + lists[3][i]
  PROVE  DecayInv'
<1>0. Counts(S, held) /\ Marks(S, held) /\ S \in Stores
  BY DEF Agree, Counts
<1>1. \A i \in Objects : /\ S.items[i] \in Things /\ S.toDecay[i] \in Nat /\ S.toRelease[i] \in Nat /\ held[i] \in Nat
                         /\ i \notin Made(S) => S.items[i] = Unmade /\ S.toDecay[i] = 0 /\ S.toRelease[i] = 0 /\ held[i] = 0
  <2> SUFFICES ASSUME NEW i \in Objects
               PROVE  /\ S.items[i] \in Things /\ S.toDecay[i] \in Nat /\ S.toRelease[i] \in Nat /\ held[i] \in Nat
                      /\ i \notin Made(S) =>
                           S.items[i] = Unmade /\ S.toDecay[i] = 0 /\ S.toRelease[i] = 0 /\ held[i] = 0
    OBVIOUS
  <2>1. S.items[i] \in Things /\ S.toDecay[i] \in Nat /\ S.toRelease[i] \in Nat
    BY <1>0 DEF Stores
  <2>2. held[i] \in Nat
    BY DEF Lists
  <2>3. i \notin Made(S) => Unused(S, i)
    BY DEF Made, Unused
  <2>4. Unused(S, i) => S.items[i] = Unmade /\ S.toDecay[i] = 0 /\ S.toRelease[i] = 0 /\ held[i] = 0
    BY <1>0, ReferredIsMade
  <2> QED
    BY <2>1, <2>2, <2>3, <2>4
<1> DEFINE More(i, b) == IF i \in Made(S) /\ Bucket(S.items[i], last) = b THEN S.toDecay[i] ELSE 0
<1>2. \A i \in Objects, b \in 0..Buckets-1 : More(i, b) \in Nat
  BY <1>1
<1>3. \A i \in Objects : More(i, 0) + More(i, 1) + More(i, 2) + More(i, 3) = S.toDecay[i]
  <2> SUFFICES ASSUME NEW i \in Objects
               PROVE  More(i, 0) + More(i, 1) + More(i, 2) + More(i, 3) = S.toDecay[i]
    OBVIOUS
  <2>1. Bucket(S.items[i], last) \in {0, 1, 2, 3}
    BY DEF Bucket, Buckets
  <2> DEFINE b == Bucket(S.items[i], last)
             n == S.toDecay[i]
  <2>2. n \in Nat /\ b \in {0, 1, 2, 3} /\ (i \notin Made(S) => n = 0)
    BY <1>1, <2>1
  <2> HIDE DEF b, n
  <2>3. /\ More(i, 0) = IF i \in Made(S) /\ b = 0 THEN n ELSE 0
        /\ More(i, 1) = IF i \in Made(S) /\ b = 1 THEN n ELSE 0
        /\ More(i, 2) = IF i \in Made(S) /\ b = 2 THEN n ELSE 0
        /\ More(i, 3) = IF i \in Made(S) /\ b = 3 THEN n ELSE 0
    BY DEF b, n
  <2> HIDE DEF More
  <2>4. More(i, 0) + More(i, 1) + More(i, 2) + More(i, 3) = n
    BY <2>2, <2>3
  <2> QED
    BY <2>4 DEF n
<1>4. /\ decayItems' = [b \in 0..Buckets-1 |-> [i \in Objects |-> lists[b][i] + More(i, b)]]
      /\ items' = [i \in Objects |-> IF i \in Made(S) THEN Unref(S.items[i], S.toRelease[i]) ELSE Unmade]
      /\ toDecay' = Zero /\ toRelease' = Zero
  BY DEF Cleanup
<1> HIDE DEF More
<1>5. decayItems' \in [0..Buckets-1 -> Lists]
  <2>1. \A b \in 0..Buckets-1, i \in Objects : lists[b][i] + More(i, b) \in Nat
    BY <1>2 DEF Lists
  <2> QED
    BY <1>4, <2>1 DEF Lists
<1>6. \A i \in Objects : Held'[i] = held[i] + S.toDecay[i]
  <2> SUFFICES ASSUME NEW i \in Objects PROVE Held'[i] = held[i] + S.toDecay[i]
    OBVIOUS
  <2>1. Held'[i] = decayItems'[0][i] + decayItems'[1][i] + decayItems'[2][i] + decayItems'[3][i]
    BY DEF Held, InBuckets
  <2>2. \A b \in 0..Buckets-1 : decayItems'[b][i] = lists[b][i] + More(i, b)
    BY <1>4
  <2>3. 0 \in 0..Buckets-1 /\ 1 \in 0..Buckets-1 /\ 2 \in 0..Buckets-1 /\ 3 \in 0..Buckets-1
    BY DEF Buckets
  <2>4. /\ lists[0][i] \in Nat /\ lists[1][i] \in Nat /\ lists[2][i] \in Nat /\ lists[3][i] \in Nat
        /\ More(i, 0) \in Nat /\ More(i, 1) \in Nat /\ More(i, 2) \in Nat /\ More(i, 3) \in Nat
    BY <1>2, <2>3, HeldIsNat
  <2>5. /\ held[i] = lists[0][i] + lists[1][i] + lists[2][i] + lists[3][i]
        /\ More(i, 0) + More(i, 1) + More(i, 2) + More(i, 3) = S.toDecay[i]
    BY <1>3
  <2>6. Held'[i] = (lists[0][i] + More(i, 0)) + (lists[1][i] + More(i, 1))
                   + (lists[2][i] + More(i, 2)) + (lists[3][i] + More(i, 3))
    BY <2>1, <2>2, <2>3
  <2> DEFINE p0 == lists[0][i]
             p1 == lists[1][i]
             p2 == lists[2][i]
             p3 == lists[3][i]
             q0 == More(i, 0)
             q1 == More(i, 1)
             q2 == More(i, 2)
             q3 == More(i, 3)
             n == S.toDecay[i]
  <2>7. /\ p0 \in Nat /\ p1 \in Nat /\ p2 \in Nat /\ p3 \in Nat
        /\ q0 \in Nat /\ q1 \in Nat /\ q2 \in Nat /\ q3 \in Nat
        /\ held[i] = p0 + p1 + p2 + p3 /\ n = q0 + q1 + q2 + q3
        /\ Held'[i] = (p0 + q0) + (p1 + q1) + (p2 + q2) + (p3 + q3)
    BY <2>4, <2>5, <2>6
  <2> HIDE DEF p0, p1, p2, p3, q0, q1, q2, q3, n
  <2>8. Held'[i] = held[i] + n
    BY <2>7
  <2> QED
    BY <2>8 DEF n
<1>7. ASSUME NEW i \in Objects
      PROVE  /\ items'[i] \in Things
             /\ items'[i].refs = Place(items'[i]) + Held'[i]
             /\ items'[i].kind = NoItem => items'[i] = Unmade
             /\ Trusted(items'[i], Held'[i]) /\ Held'[i] <= MaxListed
  <2> DEFINE x == S.items[i]
             r == S.toRelease[i]
  <2>0. Unmade \in Things /\ Unmade.refs = 0 /\ Place(Unmade) = 0 /\ ~Unmade.decaying
    BY DEF Unmade, Things, Place
  <2>1. /\ x \in Things /\ r \in Nat /\ S.toDecay[i] \in Nat /\ held[i] \in Nat
        /\ x.refs = Place(x) + S.toDecay[i] + r + held[i] /\ x.refs \in Int /\ Place(x) \in {0, 1}
        /\ Trusted(x, S.toDecay[i] + held[i]) /\ S.toDecay[i] + held[i] <= MaxListed
        /\ i \notin Made(S) => S.toDecay[i] = 0 /\ held[i] = 0
    BY <1>0, <1>1 DEF Counts, Marks, Things, Place
  <2>2. Held'[i] = S.toDecay[i] + held[i]
    BY <1>6, <2>1
  <2>3. items'[i] = IF i \in Made(S) /\ x.refs # r THEN [x EXCEPT !.refs = @ - r] ELSE Unmade
    BY <1>4 DEF Unref
  <2>4. i \in Made(S) => x.kind # NoItem
    BY DEF Made
  <2>5. CASE i \in Made(S) /\ x.refs # r
    <3> DEFINE y == [x EXCEPT !.refs = @ - r]
    <3>1. /\ y \in Things /\ y.refs = x.refs - r /\ y.kind = x.kind /\ y.placed = x.placed
          /\ y.decaying = x.decaying
      <4>1. \A n \in Int : [x EXCEPT !.refs = n] \in Things
        BY <2>1 DEF Things
      <4>2. x.refs - r \in Int
        BY <2>1
      <4>3. y \in Things
        <5> HIDE DEF x, r
        <5> QED
          BY <4>1, <4>2
      <4> HIDE DEF x, r
      <4>4. y.refs = x.refs - r /\ y.kind = x.kind /\ y.placed = x.placed /\ y.decaying = x.decaying
        BY <2>1 DEF Things
      <4> QED
        BY <4>3, <4>4
    <3>2. items'[i] = y
      BY <2>3, <2>5
    <3> HIDE DEF x, y, r
    <3>3. Place(y) = Place(x)
      BY <3>1 DEF Place
    <3>4. y.refs = Place(y) + Held'[i]
      BY <2>1, <2>2, <3>1, <3>3
    <3>5. Trusted(y, Held'[i])
      BY <2>1, <2>2, <3>1 DEF Trusted
    <3> QED
      BY <2>1, <2>2, <2>4, <2>5, <3>1, <3>2, <3>4, <3>5
  <2>6. CASE ~(i \in Made(S) /\ x.refs # r)
    <3>1. items'[i] = Unmade
      BY <2>3, <2>6
    <3> HIDE DEF x, r
    <3>2. x.refs = r => S.toDecay[i] = 0 /\ held[i] = 0
      <4> DEFINE all == x.refs
                 placed == Place(x)
                 n == S.toDecay[i]
                 m == held[i]
      <4>1. all = placed + n + r + m /\ placed \in {0, 1} /\ n \in Nat /\ r \in Nat /\ m \in Nat
        BY <2>1
      <4> HIDE DEF all, placed, n, m
      <4>2. all = r => n = 0 /\ m = 0
        BY <4>1
      <4> QED
        BY <4>2 DEF all, n, m
    <3>3. Held'[i] = 0
      BY <2>1, <2>2, <2>6, <3>2
    <3>4. Held'[i] <= MaxListed
      BY <3>3, DecayAssumption
    <3>5. Trusted(Unmade, Held'[i])
      BY <2>0 DEF Trusted
    <3> QED
      BY <2>0, <3>1, <3>3, <3>4, <3>5
  <2> QED
    BY <2>5, <2>6
<1>8. items' \in [Objects -> Things]
  <2>1. items' = [i \in Objects |-> items'[i]]
    BY <1>4
  <2> QED
    BY <1>7, <2>1
<1>9. Store' \in Stores /\ Store'.items = items' /\ Store'.toDecay = Zero /\ Store'.toRelease = Zero
  BY <1>4, <1>8 DEF Store, Stores, Zero
<1>10. \A i \in Objects : Zero[i] = 0 /\ Held'[i] \in Nat
  BY <1>1, <1>6 DEF Zero
<1>11. Counts(Store', Held')
  <2> SUFFICES ASSUME NEW i \in Objects
               PROVE  /\ Store'.items[i].refs
                           = Place(Store'.items[i]) + Store'.toDecay[i] + Store'.toRelease[i] + Held'[i]
                      /\ Store'.items[i].kind = NoItem => Store'.items[i] = Unmade
    BY <1>9 DEF Counts
  <2>1. Place(items'[i]) \in {0, 1}
    BY DEF Place
  <2> QED
    BY <1>7, <1>9, <1>10, <2>1
<1>12. Marks(Store', Held')
  BY <1>7, <1>9, <1>10 DEF Marks
<1>13. Agree(Store, Held)'
  BY <1>11, <1>12 DEF Agree
<1> QED
  BY <1>5, <1>13 DEF DecayInv

\* What is in the store next.
LEMMA StoredNext ==
  ASSUME NEW S \in Stores, StoreIs(S), UNCHANGED <<decayItems, lastBucket>>, Agree(S, Held),
         DecayInv
  PROVE  DecayInv'
<1>1. Store' = S
  BY DEF StoreIs, Store, Stores
<1>2. Held' = Held
  BY DEF Held, InBuckets
<1>3. Agree(Store, Held)'
  BY <1>1, <1>2
<1> QED
  BY <1>3 DEF DecayInv

\* What is known of the store and the lists.
LEMMA InvIs ==
  ASSUME DecayInv
  PROVE  /\ Held \in Lists /\ Store \in Stores /\ Counts(Store, Held) /\ Marks(Store, Held)
         /\ decayItems \in [0..Buckets-1 -> Lists] /\ lastBucket \in 0..Buckets-1
         /\ \A i \in Objects : /\ Held[i] = decayItems[0][i] + decayItems[1][i] + decayItems[2][i] + decayItems[3][i]
                               /\ Held[i] \in Nat /\ Store.toDecay[i] \in Nat /\ Store.items[i] = items[i]
                               /\ Listed(i) = Store.toDecay[i] + Held[i]
<1>1. /\ Store \in Stores /\ Counts(Store, Held) /\ Marks(Store, Held)
      /\ decayItems \in [0..Buckets-1 -> Lists] /\ lastBucket \in 0..Buckets-1
  BY DEF DecayInv, Agree, Counts
<1>2. \A i \in Objects : /\ Held[i] = decayItems[0][i] + decayItems[1][i] + decayItems[2][i] + decayItems[3][i]
                         /\ Listed(i) = toDecay[i] + Held[i] /\ InBuckets(i) = Held[i]
  BY DEF Held, InBuckets, Listed
<1>3. \A i \in Objects : Held[i] \in Nat
  <2> SUFFICES ASSUME NEW i \in Objects PROVE Held[i] \in Nat
    OBVIOUS
  <2>1. /\ decayItems[0][i] \in Nat /\ decayItems[1][i] \in Nat
        /\ decayItems[2][i] \in Nat /\ decayItems[3][i] \in Nat
    BY <1>1, HeldIsNat
  <2> QED
    BY <1>2, <2>1
<1>4. Held \in Lists
  <2>1. Held = [i \in Objects |-> Held[i]]
    BY DEF Held
  <2> QED
    BY <1>3, <2>1 DEF Lists
<1>5. Store.toDecay = toDecay /\ Store.items = items
  BY DEF Store
<1>6. \A i \in Objects : Store.toDecay[i] \in Nat
  BY <1>1 DEF Stores
<1> QED
  BY <1>1, <1>2, <1>3, <1>4, <1>5, <1>6

\* An item that is made has one reference, or a second one when it begins to decay.
LEMMA CreateKeeps ==
  ASSUME DecayInv, NEW i \in Objects, NEW k \in Kinds, NEW d \in Int, Create(i, k, d)
  PROVE  DecayInv'
<1> DEFINE x == [New(k) EXCEPT !.duration = d]
           P == [Store EXCEPT !.items[i] = x]
           Q == StartDecay(P, i)
           T == Restarted(Q, i)
<1>0. /\ Unused(Store, i) /\ StoreIs(T) /\ UNCHANGED <<decayItems, lastBucket>>
  BY DEF Create
<1>1. /\ x \in Things /\ x.kind = k /\ x.placed /\ x.refs = 1 /\ ~x.decaying /\ k # NoItem
  <2>1. /\ New(k) \in Things /\ New(k).kind = k /\ New(k).placed /\ New(k).refs = 1 /\ ~New(k).decaying
    BY NewIs
  <2> DEFINE n == New(k)
  <2> HIDE DEF n
  <2>2. /\ n \in Things => [n EXCEPT !.duration = d] \in Things
    BY DEF Things
  <2>3. n \in Things => /\ [n EXCEPT !.duration = d].kind = n.kind /\ [n EXCEPT !.duration = d].placed = n.placed
                        /\ [n EXCEPT !.duration = d].refs = n.refs
                        /\ [n EXCEPT !.duration = d].decaying = n.decaying
    BY DEF Things
  <2> QED
    BY <2>1, <2>2, <2>3, DecayAssumption DEF n
<1>2. /\ Store.items[i] = Unmade /\ Store.toDecay[i] = 0 /\ Held[i] = 0
  BY <1>0, InvIs, ReferredIsMade
<1> HIDE DEF x
<1>3. /\ Counts(P, Held) /\ P.items[i] = x /\ P.toDecay = Store.toDecay
      /\ \A o \in Objects \ {i} : P.items[o] = Store.items[o]
  <2>1. x.refs - Place(x) = Store.items[i].refs - Place(Store.items[i])
    BY <1>1, <1>2 DEF Place, Unmade
  <2> QED
    BY <1>1, <2>1, InvIs, PutCounts
<1> HIDE DEF P
<1>4. /\ Counts(Q, Held)
      /\ \A o \in Objects \ {i} : Q.items[o] = P.items[o] /\ Q.toDecay[o] = P.toDecay[o]
      /\ Q.items[i].kind = k
      /\ Q = P \/ Q.toDecay[i] = P.toDecay[i] + 1
  <2>1. Held \in Lists
    BY InvIs
  <2> QED
    BY <1>1, <1>3, <2>1, StartedCounts
<1> HIDE DEF Q
<1>5. /\ Counts(T, Held) /\ T.toDecay = Q.toDecay
      /\ \A o \in Objects : /\ T.items[o].kind = Q.items[o].kind /\ T.items[o].placed = Q.items[o].placed
                            /\ T.items[o].decaying = Q.items[o].decaying
  <2>1. Held \in Lists /\ Q.items[i].kind # NoItem
    BY <1>1, <1>4, InvIs
  <2> QED
    BY <1>4, <2>1, RestartedCounts
<1> HIDE DEF T
<1>6. ASSUME NEW o \in Objects
      PROVE  Trusted(T.items[o], T.toDecay[o] + Held[o]) /\ T.toDecay[o] + Held[o] <= MaxListed
  <2>1. CASE o = i
    <3>1. Q = P => ~T.items[i].decaying /\ T.toDecay[i] = 0
      BY <1>1, <1>2, <1>3, <1>5
    <3>2. Q # P => T.toDecay[i] = 1
      BY <1>2, <1>3, <1>4, <1>5
    <3> QED
      BY <1>2, <2>1, <3>1, <3>2, DecayAssumption DEF Trusted
  <2>2. CASE o # i
    <3>1. /\ T.toDecay[o] = Store.toDecay[o] /\ T.items[o].kind = Store.items[o].kind
          /\ T.items[o].placed = Store.items[o].placed /\ T.items[o].decaying = Store.items[o].decaying
      BY <1>3, <1>4, <1>5, <2>2
    <3>2. Trusted(Store.items[o], Store.toDecay[o] + Held[o]) /\ Store.toDecay[o] + Held[o] <= MaxListed
      BY InvIs DEF Marks
    <3> QED
      BY <3>1, <3>2 DEF Trusted
  <2> QED
    BY <2>1, <2>2
<1>7. Agree(T, Held) /\ T \in Stores
  BY <1>5, <1>6 DEF Agree, Marks, Counts
<1> QED
  BY <1>0, <1>7, StoredNext

\* An item that is used is as often in the lists, or once more.
LEMMA UseKeeps ==
  ASSUME DecayInv, NEW i \in Objects, Use(i)
  PROVE  DecayInv'
<1> DEFINE it == Store.items[i]
           k == UsedTo[it.kind]
           T == Transform(Store, i, k, i)
<1>0. /\ it.placed /\ k # Never /\ Store.toDecay[i] + Held[i] < MaxListed /\ StoreIs(T)
      /\ UNCHANGED <<decayItems, lastBucket>>
  BY InvIs DEF Use
<1>1. it.kind \in Kinds /\ k \in Kinds
  <2>1. it.kind \in Kinds
    BY <1>0, InvIs, ReferredIsMade
  <2> HIDE DEF it
  <2> QED
    BY <1>0, <2>1, DecayAssumption
<1>2. Class[k] = Class[it.kind] /\ (k \in StopTime => Lasting(it.kind))
  <2> HIDE DEF it
  <2> QED
    BY <1>0, <1>1, KindsAssumption, DecayAssumption DEF Lasting
<1> HIDE DEF k
<1>3. /\ Counts(T, Held)
      /\ \A o \in Objects \ {i} : T.toDecay[o] = Store.toDecay[o]
      /\ \A o \in Objects \ {i} :
           /\ T.items[o].kind = Store.items[o].kind /\ T.items[o].placed = Store.items[o].placed
           /\ T.items[o].decaying = Store.items[o].decaying
      /\ T.items[i].kind = k
      /\ T.toDecay[i] \in {Store.toDecay[i], Store.toDecay[i] + 1}
      /\ Lasting(k) /\ T.toDecay[i] = Store.toDecay[i] => it.decaying /\ it.kind \in StopTime
      /\ T.toDecay[i] = Store.toDecay[i] /\ T.items[i].decaying => it.decaying
  <2>1. Counts(Store, Held) /\ Held \in Lists
    BY InvIs
  <2>2. Store.items[i].placed /\ Class[k] = Class[Store.items[i].kind]
    BY <1>0, <1>2
  <2>3. /\ Counts(T, Held)
        /\ \A o \in Objects \ {i} : T.toDecay[o] = Store.toDecay[o]
        /\ \A o \in Objects \ {i} :
             /\ T.items[o].kind = Store.items[o].kind /\ T.items[o].placed = Store.items[o].placed
             /\ T.items[o].decaying = Store.items[o].decaying
        /\ T.items[i].kind = k
        /\ T.toDecay[i] \in {Store.toDecay[i], Store.toDecay[i] + 1}
        /\ Lasting(k) /\ T.toDecay[i] = Store.toDecay[i] =>
             Store.items[i].decaying /\ Store.items[i].kind \in StopTime
        /\ T.toDecay[i] = Store.toDecay[i] /\ T.items[i].decaying => Store.items[i].decaying
    BY <1>1, <2>1, <2>2, TransformCounts
  <2> QED
    BY <2>3
<1> HIDE DEF T
<1>4. ASSUME NEW o \in Objects
      PROVE  Trusted(T.items[o], T.toDecay[o] + Held[o]) /\ T.toDecay[o] + Held[o] <= MaxListed
  <2>1. Trusted(Store.items[o], Store.toDecay[o] + Held[o]) /\ Store.toDecay[o] + Held[o] <= MaxListed
    BY InvIs DEF Marks
  <2>2. CASE o = i
    <3>1. Store.toDecay[i] \in Nat /\ Held[i] \in Nat
      BY InvIs
    <3>2. T.toDecay[i] + Held[i] <= MaxListed
      BY <1>0, <1>3, <3>1, DecayAssumption
    <3>3. CASE T.toDecay[i] = Store.toDecay[i] + 1
      <4>1. T.toDecay[i] + Held[i] > 0
        BY <3>1, <3>3
      <4> QED
        BY <2>2, <3>2, <4>1 DEF Trusted
    <3>4. CASE T.toDecay[i] = Store.toDecay[i]
      <4>1. T.items[i].decaying /\ (Lasting(k) \/ k \in StopTime) =>
              it.decaying /\ (Lasting(it.kind) \/ it.kind \in StopTime)
        BY <1>2, <1>3, <3>4
      <4>2. T.items[i].decaying /\ (Lasting(k) \/ k \in StopTime) => Store.toDecay[i] + Held[i] > 0
        BY <1>0, <2>1, <2>2, <4>1 DEF Trusted
      <4> QED
        BY <1>3, <2>2, <3>2, <3>4, <4>2 DEF Trusted
    <3> QED
      BY <1>3, <3>3, <3>4
  <2>3. CASE o # i
    BY <1>3, <2>1, <2>3 DEF Trusted
  <2> QED
    BY <2>2, <2>3
<1>5. Agree(T, Held) /\ T \in Stores
  BY <1>3, <1>4 DEF Agree, Marks, Counts
<1> QED
  BY <1>0, <1>5, StoredNext

\* An item that is taken away stays in the lists until they are visited.
LEMMA TakeAwayKeeps ==
  ASSUME DecayInv, NEW i \in Objects, TakeAway(i)
  PROVE  DecayInv'
<1> DEFINE T == InternalRemoveItem(Store, i)
<1>1. Store.items[i].placed /\ StoreIs(T) /\ UNCHANGED <<decayItems, lastBucket>>
  BY InvIs DEF TakeAway
<1>2. Counts(T, Held)
  BY <1>1, InvIs, RemovedCounts
<1>3. Store \in Stores /\ Store.items[i] \in Things /\ Marks(Store, Held)
  BY InvIs DEF Stores
<1>4. /\ T.toDecay = Store.toDecay /\ ~T.items[i].placed
      /\ \A o \in Objects \ {i} : T.items[o] = Store.items[o]
  BY <1>3 DEF InternalRemoveItem, Release, Stores, Things
<1> HIDE DEF T
<1>5. Agree(T, Held) /\ T \in Stores
  BY <1>2, <1>3, <1>4 DEF Agree, Marks, Trusted, Counts
<1> QED
  BY <1>1, <1>5, StoredNext

\* The buckets are visited in turn.
LEMMA CheckDecayKeeps == DecayInv /\ CheckDecay => DecayInv'
<1> SUFFICES ASSUME DecayInv, CheckDecay PROVE DecayInv'
  OBVIOUS
<1> DEFINE b == NextBucket
           d == decayItems[b]
           end == FoldSet(VisitNext, [store |-> Aged, kept |-> Zero], Entries)
           lists == [decayItems EXCEPT ![b] = end.kept]
           held == [i \in Objects |-> Held[i] - d[i] + end.kept[i]]
<1>1. Made(end.store) # Objects /\ lastBucket' = b /\ Cleanup(end.store, lists, b)
  BY DEF CheckDecay
<1>2. b \in 0..Buckets-1
  BY InvIs DEF NextBucket, Buckets
<1>3. d \in Lists /\ \A i \in Objects : d[i] \in Nat /\ d[i] <= Held[i]
  <2>1. d \in Lists
    BY <1>2, InvIs
  <2> SUFFICES ASSUME NEW i \in Objects PROVE d[i] \in Nat /\ d[i] <= Held[i]
    BY <2>1
  <2>2. /\ decayItems[0][i] \in Nat /\ decayItems[1][i] \in Nat
        /\ decayItems[2][i] \in Nat /\ decayItems[3][i] \in Nat
    BY InvIs, HeldIsNat
  <2>3. Held[i] = decayItems[0][i] + decayItems[1][i] + decayItems[2][i] + decayItems[3][i]
    BY InvIs
  <2>4. b \in {0, 1, 2, 3}
    BY <1>2 DEF Buckets
  <2> QED
    BY <2>2, <2>3, <2>4
<1>4. end \in Visited /\ Agree(end.store, held)
  <2> DEFINE last == end
  <2>1. last = FoldSet(VisitNext, [store |-> Aged, kept |-> Zero], Entries)
    OBVIOUS
  <2>2. Agree(Aged, Held) /\ Held \in Lists
    BY AgedSound, InvIs
  <2>3. decayItems[NextBucket] \in Lists /\ \A i \in Objects : decayItems[NextBucket][i] <= Held[i]
    BY <1>3
  <2>4. Made(last.store) # Objects
    BY <1>1
  <2> HIDE DEF last
  <2>5. /\ last \in Visited
        /\ Agree(last.store, [i \in Objects |-> Held[i] - decayItems[NextBucket][i] + last.kept[i]])
    BY <2>1, <2>2, <2>3, <2>4, RoundSound
  <2> QED
    BY <2>5 DEF last
<1> HIDE DEF end
<1>5. end.kept \in Lists /\ \A i \in Objects : end.kept[i] \in Nat
  BY <1>4 DEF Visited, Lists
<1>6. lists \in [0..Buckets-1 -> Lists]
  BY <1>2, <1>5, InvIs
<1>7. \A i \in Objects : held[i] \in Nat
  <2> SUFFICES ASSUME NEW i \in Objects PROVE Held[i] - d[i] + end.kept[i] \in Nat
    OBVIOUS
  <2>1. Held[i] \in Nat /\ d[i] \in Nat /\ d[i] <= Held[i] /\ end.kept[i] \in Nat
    BY <1>3, <1>5, InvIs
  <2> HIDE DEF d
  <2> QED
    BY <2>1
<1>8. held \in Lists
  BY <1>7 DEF Lists
<1>9. \A i \in Objects : held[i] = lists[0][i] + lists[1][i] + lists[2][i] + lists[3][i]
  <2> SUFFICES ASSUME NEW i \in Objects
               PROVE  Held[i] - d[i] + end.kept[i] = lists[0][i] + lists[1][i] + lists[2][i] + lists[3][i]
    OBVIOUS
  <2>1. /\ decayItems[0][i] \in Nat /\ decayItems[1][i] \in Nat
        /\ decayItems[2][i] \in Nat /\ decayItems[3][i] \in Nat
    BY InvIs, HeldIsNat
  <2>2. Held[i] = decayItems[0][i] + decayItems[1][i] + decayItems[2][i] + decayItems[3][i]
    BY InvIs
  <2>3. \A c \in {0, 1, 2, 3} : lists[c] = IF c = b THEN end.kept ELSE decayItems[c]
    BY InvIs DEF Buckets
  <2>4. b \in {0, 1, 2, 3} /\ d[i] = decayItems[b][i] /\ end.kept[i] \in Nat
    BY <1>2, <1>5 DEF Buckets
  <2> HIDE DEF lists, b, d
  <2>5. CASE b = 0
    BY <2>1, <2>2, <2>3, <2>4, <2>5
  <2>6. CASE b = 1
    BY <2>1, <2>2, <2>3, <2>4, <2>6
  <2>7. CASE b = 2
    BY <2>1, <2>2, <2>3, <2>4, <2>7
  <2>8. CASE b = 3
    BY <2>1, <2>2, <2>3, <2>4, <2>8
  <2> QED
    BY <2>4, <2>5, <2>6, <2>7, <2>8
<1> HIDE DEF b, lists, held
<1> QED
  BY <1>1, <1>2, <1>4, <1>6, <1>8, <1>9, CleanedUp

\* Every step of what decays keeps the counts.
LEMMA DecayKept == DecayInv /\ DecayNext => DecayInv'
<1> SUFFICES ASSUME DecayInv, DecayNext PROVE DecayInv'
  OBVIOUS
<1>1. ASSUME NEW i \in Objects, NEW k \in Kinds, NEW d \in -1..DecayTime[k], Create(i, k, d)
      PROVE  DecayInv'
  BY <1>1, DecayAssumption, CreateKeeps
<1>2. ASSUME NEW i \in Objects, Use(i) PROVE DecayInv'
  BY <1>2, UseKeeps
<1>3. ASSUME NEW i \in Objects, TakeAway(i) PROVE DecayInv'
  BY <1>3, TakeAwayKeeps
<1>4. ASSUME CleanupBetween PROVE DecayInv'
  <2> DEFINE S == Store
             held == Held
             lists == decayItems
             last == lastBucket
  <2>1. /\ lists \in [0..Buckets-1 -> Lists] /\ last \in 0..Buckets-1 /\ lastBucket' = last
        /\ held \in Lists /\ Agree(S, held) /\ Cleanup(S, lists, last)
        /\ \A i \in Objects : held[i] = lists[0][i] + lists[1][i] + lists[2][i] + lists[3][i]
    BY <1>4, InvIs DEF CleanupBetween, Agree
  <2> HIDE DEF S, held, lists, last
  <2> QED
    BY <2>1, CleanedUp
<1>5. ASSUME CheckDecay PROVE DecayInv'
  BY <1>5, CheckDecayKeeps
<1> QED
  BY <1>1, <1>2, <1>3, <1>4, <1>5 DEF DecayNext

\* Nothing else touches what decays.
LEMMA DecayStep == DecayInv /\ [Next]_townVars => DecayInv'
<1> SUFFICES ASSUME DecayInv, [Next]_townVars PROVE DecayInv'
  OBVIOUS
<1>1. DecayNext \/ UNCHANGED decayVars
  BY DEF Next, townVars, Logout, Login
<1>2. ASSUME UNCHANGED decayVars PROVE DecayInv'
  <2>1. Store' = Store /\ Held' = Held /\ UNCHANGED <<decayItems, lastBucket>>
    BY <1>2 DEF decayVars, Store, Held, InBuckets
  <2> QED
    BY <2>1 DEF DecayInv
<1> QED
  BY <1>1, <1>2, DecayKept

\* However an item is used, worn, taken off or taken away while it decays, it has a
\* reference for each place it is in and for each list, and is freed with the last; and
\* what is marked as decaying is in a list, for any items and kinds (game.cpp:4395-4470).
THEOREM ItemsAreCounted == Spec => []ItemsCounted
<1>1. DecayInv => ItemsCounted
  <2> SUFFICES ASSUME DecayInv, NEW i \in Objects
               PROVE  /\ items[i].refs = (IF items[i].placed THEN 1 ELSE 0) + Listed(i) + toRelease[i]
                      /\ items[i].decaying /\ CanDecay(items[i]) => Listed(i) > 0
    BY DEF ItemsCounted
  <2>1. /\ items[i].refs = Place(items[i]) + toDecay[i] + toRelease[i] + Held[i]
        /\ toDecay[i] \in Nat /\ toRelease[i] \in Nat /\ Held[i] \in Nat
        /\ Listed(i) = toDecay[i] + Held[i] /\ Trusted(items[i], toDecay[i] + Held[i])
    BY InvIs DEF Counts, Marks, Store, Stores
  <2>2. CanDecay(items[i]) => items[i].placed /\ Lasting(items[i].kind)
    BY DEF CanDecay, Lasting
  <2> QED
    BY <2>1, <2>2 DEF Place, Trusted
<1>2. Init => DecayInv
  BY DecayStart DEF Init
<1> QED
  BY <1>1, <1>2, DecayStep, PTL DEF Spec
=============================================================================
