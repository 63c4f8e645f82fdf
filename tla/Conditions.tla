----------------------------- MODULE Conditions -----------------------------
(***************************************************************************)
(* The conditions of a player (condition.cpp, creature.cpp), what it wears *)
(* (movement.cpp, Player::updateAbilityConditions) and the mount it rides: *)
(* they all add to the same sums, the speed and the skills, and must take  *)
(* from them what they gave, whatever has been done to them in between.    *)
(*                                                                         *)
(* A condition has a type, an id (combat, default, or the slot of the item *)
(* it comes from), a subId and a value.  Durations are abstracted to       *)
(* whether it lasts for ever (ticks = -1) and whether its end time is      *)
(* still to come (live): between the end time and the next visit by        *)
(* checkCreatures a condition is there and does not count.                 *)
(*                                                                         *)
(* The handlers are functions from a character to a character.             *)
(***************************************************************************)
EXTENDS Integers, SequencesExt

CONSTANTS
  Gear,       \* items that can be worn
  Gives,      \* what each gives: slot, speed, skill, immune, hides, heals; strong: only
              \* the strong wear it; on, off: what it turns into, put on or taken off
  Mounts,     \* mounts by number, and their speed
  MountSpeed,
  Bare,       \* nothing worn
  MaxDelayed, \* bound: delayed additions and removals
  MaxLeaks    \* bound: items that turn as they are taken off, in one session

VARIABLE char

\* Condition ids below the slots.
Default == -1
Combat == 0
Slots == 1..10

\* 0 is no mount, and what is given can be added up.  What an item turns into is worn
\* in the same slot, and when it is put on, turns no further (items.xml).
ConditionsAssumption ==
  /\ Bare \notin Gear /\ 0 \notin Mounts /\ MountSpeed \in [Mounts -> Int]
  /\ \A g \in Gear : /\ Gives[g].slot \in Slots
                     /\ Gives[g].speed \in Int /\ Gives[g].skill \in Int
                     /\ \A k \in {Gives[g].on, Gives[g].off} \ {Bare} :
                          k \in Gear /\ Gives[k].slot = Gives[g].slot
                     /\ Gives[g].on # Bare => Gives[g].off = Bare /\ Gives[Gives[g].on].on = Bare

\* Nobody sees the player.
Nothing == [look |-> 0, mount |-> 0]
Plain(look) == [look |-> look, mount |-> 0]

\* What items gave and nothing took away: no part of the player, but what came of it.
NothingLeft == [times |-> 0, speed |-> 0, skill |-> 0, immune |-> {}, conds |-> {}]

\* A player as loadPlayer makes it: keep is what the database has of it.
Fresh(keep) ==
  [keep EXCEPT !.conds = <<>>, !.speed = 0, !.skill = 0, !.defends = TRUE, !.suppressed = {},
               !.enabled = {}, !.outfit = Plain(@.look), !.current = Plain(keep.outfit.look),
               !.shown = Plain(keep.outfit.look), !.wasMounted = FALSE, !.delayed = <<>>,
               !.left = NothingLeft, !.refused = FALSE]

Newcomer ==
  Fresh([online |-> FALSE, conds |-> <<>>, speed |-> 0, skill |-> 0, defends |-> TRUE,
         suppressed |-> {}, worn |-> [s \in Slots |-> Bare], enabled |-> {}, strong |-> TRUE,
         outfit |-> Plain(1), current |-> Plain(1), shown |-> Plain(1), mount |-> 0,
         tamed |-> Mounts, wasMounted |-> FALSE, zone |-> FALSE, delayed |-> <<>>,
         stored |-> <<>>, left |-> NothingLeft, refused |-> FALSE])

Key(d) == <<d.type, d.id, d.sub>>
Has(c, t) == \E i \in DOMAIN c.conds : c.conds[i].type = t
\* Creature::hasCondition.  No item suppresses the types that are asked for here.
Feels(c, t) ==
  \E i \in DOMAIN c.conds : c.conds[i].type = t /\ c.conds[i].sub = 0 /\ c.conds[i].live
Invisible(c) == Has(c, "invisible")
Mounted(c) == c.outfit.mount # 0
-----------------------------------------------------------------------------
(* What a condition does when it starts, ends and is renewed.              *)

\* Game::internalCreatureChangeOutfit
Dress(c, o) ==
  [c EXCEPT !.current = o, !.shown = IF Invisible(c) THEN @ ELSE o, !.refused = FALSE]

Start(c, d) ==
  CASE d.type \in {"haste", "paralyze"} -> [c EXCEPT !.speed = @ + d.val]
    [] d.type = "attributes" -> [c EXCEPT !.skill = @ + d.val, !.defends = ~d.noDefense]
    [] d.type = "invisible"  -> [c EXCEPT !.shown = Nothing]
    [] d.type = "outfit"     -> Dress(c, Plain(d.val))
    [] OTHER                 -> c

\* Mutant: one that ends makes the player visible, whatever else hides it.
End_seen(c, d) ==
  CASE d.type \in {"haste", "paralyze"} -> [c EXCEPT !.speed = @ - d.val]
    [] d.type = "attributes" -> [c EXCEPT !.skill = @ - d.val, !.defends = @ \/ d.noDefense]
    [] d.type = "invisible"  -> [c EXCEPT !.shown = c.current]
    [] d.type = "outfit"     -> Dress(c, c.outfit)
    [] OTHER                 -> c

\* d is no longer among the conditions of c.
End(c, d) ==
  CASE d.type \in {"haste", "paralyze"} -> [c EXCEPT !.speed = @ - d.val]
    [] d.type = "attributes" -> [c EXCEPT !.skill = @ - d.val, !.defends = @ \/ d.noDefense]
    [] d.type = "invisible"  -> [c EXCEPT !.shown = IF Invisible(c) THEN @ ELSE c.current]
    [] d.type = "outfit"     -> Dress(c, c.outfit)
    [] OTHER                 -> c

\* setTicks counts from now, also when the ticks are -1: a condition that is
\* renewed for ever stays and does not count.
Renewed(old, d) == [d EXCEPT !.live = ~d.forever]

\* Condition::updateCondition; longer: the old one ends later than d would.
Updates(old, d, longer) == ~(old.forever /\ ~d.forever) /\ ~(~d.forever /\ old.live /\ longer)

\* Mutant: the attributes it gave are not taken back.
Renew_twice(c, i, d, longer) ==
  LET old == c.conds[i]
      new == [c EXCEPT !.conds[i] = Renewed(old, d)]
  IN IF d.type \in {"haste", "paralyze"}
     THEN IF old.forever /\ ~d.forever THEN c ELSE [new EXCEPT !.speed = @ + d.val - old.val]
     ELSE IF ~Updates(old, d, longer) THEN c
     ELSE CASE d.type = "attributes" -> [new EXCEPT !.skill = @ + d.val]
            [] d.type = "outfit"     -> Dress(new, Plain(d.val))
            [] OTHER                 -> new

\* addCondition of the condition that is there.  Attributes end and begin again, but
\* the defence that the end gives back is not taken away again.
Renew(c, i, d, longer) ==
  LET old == c.conds[i]
      new == [c EXCEPT !.conds[i] = Renewed(old, d)]
  IN IF d.type \in {"haste", "paralyze"}
     THEN IF old.forever /\ ~d.forever THEN c ELSE [new EXCEPT !.speed = @ + d.val - old.val]
     ELSE IF ~Updates(old, d, longer) THEN c
     ELSE CASE d.type = "attributes" -> [End(new, old) EXCEPT !.skill = @ + d.val]
            [] d.type = "outfit"     -> Dress(new, Plain(d.val))
            [] OTHER                 -> new

EndOne(c, d) == End([c EXCEPT !.conds = RemoveFirst(@, d)], d)
OfType(c, type) == {d \in ToSet(c.conds) : d.type = type}

\* Those of D end, in the order of the list.
EndAll(c, D) ==
  LET q == c.conds
      ended[n \in 0..Len(q)] ==
        IF n = 0 THEN c ELSE IF q[n] \in D THEN EndOne(ended[n - 1], q[n]) ELSE ended[n - 1]
  IN ended[Len(q)]

\* removeCondition.  Paralysis that holds a step (walking) is removed after it.
RemoveEach(c, type, D, walking) ==
  IF type = "paralyze" /\ walking /\ D # {}
  THEN [c EXCEPT !.delayed = Append(@, [what |-> "remove"])]
  ELSE EndAll(c, D)
RemoveType(c, type, walking) == RemoveEach(c, type, OfType(c, type), walking)

\* Player::dismount
Dismount(c) ==
  [c EXCEPT !.outfit.mount = 0, !.speed = @ - IF c.mount = 0 THEN 0 ELSE MountSpeed[c.mount]]

\* Player::onAddCondition
OnAdd(c, type, walking) ==
  CASE type = "paralyze" /\ Feels(c, "haste")    -> RemoveType(c, "haste", walking)
    [] type = "haste"    /\ Feels(c, "paralyze") -> RemoveType(c, "paralyze", walking)
    [] type = "outfit"   /\ Mounted(c)           -> Dismount(c)
    [] OTHER                                     -> c

\* Creature::addCondition
Added(c, d, walking, longer) ==
  LET there == {i \in DOMAIN c.conds : Key(c.conds[i]) = Key(d)}
  IN IF there # {} THEN Renew(c, CHOOSE i \in there : TRUE, d, longer)
     ELSE OnAdd([Start(c, d) EXCEPT !.conds = Append(@, d)], d.type, walking)

AddCondition(c, d, walking, longer) ==
  IF d.type = "haste" /\ Feels(c, "paralyze") /\ walking
  THEN [c EXCEPT !.delayed = Append(@, [what |-> "add", cond |-> d])]
  ELSE Added(c, d, walking, longer)
-----------------------------------------------------------------------------
(* What is worn.                                                           *)

Ability(type, slot) ==
  [type |-> type, id |-> slot, sub |-> 0, forever |-> TRUE, live |-> TRUE, val |-> 0,
   noDefense |-> FALSE]

FromItem(c, on, type, slot) ==
  IF on THEN AddCondition(c, Ability(type, slot), FALSE, FALSE)
        ELSE RemoveEach(c, type, {d \in OfType(c, type) : d.id = slot}, FALSE)

UpdateAbilityConditions(c, item, on) ==
  LET g == Gives[item]
      sign == IF on THEN 1 ELSE -1
      counted == [c EXCEPT
        !.enabled = IF on THEN @ \cup {g.slot} ELSE @ \ {g.slot},
        !.skill = @ + sign * g.skill,
        !.speed = @ + sign * g.speed,
        !.suppressed = IF on THEN @ \cup g.immune ELSE @ \ g.immune]
      hidden == IF g.hides THEN FromItem(counted, on, "invisible", g.slot) ELSE counted
  IN IF g.heals THEN FromItem(hidden, on, "regeneration", g.slot) ELSE hidden

\* The conditions that an item gives, by type and slot.
GivenBy(item) ==
  {<<type, Gives[item].slot>> : type \in {t \in {"invisible", "regeneration"} :
                                  IF t = "invisible" THEN Gives[item].hides ELSE Gives[item].heals}}

\* DeEquipItem takes away what an item gives that is no longer worn.  One that has turned
\* into another kind first (as) keeps what it gave, and what the other gives is taken away.
Left(c, item, as) ==
  LET g == Gives[item]
      h == Gives[as]
  IN [times |-> c.left.times + (IF as = item THEN 0 ELSE 1),
      speed |-> c.left.speed + g.speed - h.speed, skill |-> c.left.skill + g.skill - h.skill,
      immune |-> (c.left.immune \cup g.immune) \ h.immune,
      conds |-> (c.left.conds \cup GivenBy(item)) \ GivenBy(as)]
DeEquipItem(c, item, as) ==
  IF Gives[item].slot \notin c.enabled THEN c
  ELSE UpdateAbilityConditions([c EXCEPT !.left = Left(c, item, as)], as, FALSE)

\* Whether the player may wear it: EquipItem as a check, and then for good.  What turns
\* into another kind then is taken off and put on by transformItem.
MayWear(c, item) == Gives[item].slot \in c.enabled \/ ~Gives[item].strong \/ c.strong
PutInto(c, item, kind) ==
  [DeEquipItem(UpdateAbilityConditions(c, item, TRUE), item, item)
     EXCEPT !.worn[Gives[item].slot] = kind]
EquipItem(c, item) ==
  LET kind == Gives[item].on
      turned == PutInto(c, item, kind)
  IN IF Gives[item].slot \in c.enabled \/ ~MayWear(c, item) THEN c
     ELSE IF kind = Bare THEN UpdateAbilityConditions(c, item, TRUE)
     ELSE IF MayWear(turned, kind) THEN UpdateAbilityConditions(turned, kind, TRUE) ELSE turned
-----------------------------------------------------------------------------
(* Tasks.                                                                  *)

Becomes(c) == char.online /\ char' = c
Roomy == Len(char.delayed) < MaxDelayed

\* A spell, a field, a potion or a script adds a condition.
Cast(d) ==
  Roomy /\ \E walking, longer \in BOOLEAN : Becomes(AddCondition(char, d, walking, longer))

\* Game::forceAddCondition and forceRemoveCondition, which ends every paralysis.
DelayedRuns(i) ==
  LET event == char.delayed[i]
      rest == [char EXCEPT !.delayed = RemoveAt(@, i)]
  IN \/ event.what = "add" /\ \E walking, longer \in BOOLEAN :
          Becomes(Added(rest, event.cond, walking, longer))
     \/ event.what = "remove" /\ Becomes(EndAll(rest, OfType(rest, "paralyze")))

\* The end time of a condition passes; checkCreatures visits the player.
Expire(i) ==
  char.conds[i].live /\ ~char.conds[i].forever /\ Becomes([char EXCEPT !.conds[i].live = FALSE])
ExecuteConditions == Becomes(EndAll(char, {d \in ToSet(char.conds) : ~d.live /\ ~d.forever}))

\* removeCombatCondition of a player, of what is not from an item: one that may not
\* act yet is rid of the condition when it may.
RemoveOne(c, d, walking) == RemoveEach(c, d.type, {d}, walking)
Shortened(d) == [d EXCEPT !.forever = FALSE, !.live = TRUE]
Dispelled(c, d, busy, walking) ==
  IF d.id > Combat THEN c
  ELSE IF busy
  THEN [c EXCEPT !.conds = [i \in DOMAIN @ |-> IF @[i] = d THEN Shortened(d) ELSE @[i]]]
  ELSE RemoveOne(c, d, walking)
AllDispelled(c, type, busy, walking) ==
  LET q == c.conds
      done[n \in 0..Len(q)] ==
        IF n = 0 THEN c
        ELSE IF q[n].type = type THEN Dispelled(done[n - 1], q[n], busy, walking) ELSE done[n - 1]
  IN done[Len(q)]
Dispel(type) ==
  /\ Roomy /\ Has(char, type)
  /\ \E busy, walking \in BOOLEAN : Becomes(AllDispelled(char, type, busy, walking))

\* creature:removeCondition of a script that names one, as those of the movements.
Lift(i) ==
  Roomy /\ char.conds[i].id <= Combat
  /\ \E walking \in BOOLEAN : Becomes(RemoveOne(char, char.conds[i], walking))

\* postAddNotification and postRemoveNotification of what is worn.  What is moved turns
\* as it is taken off, what is destroyed does not (transformItem); a charge that is used
\* does both, and no kind with charges turns.
PutOn(item) ==
  /\ char.worn[Gives[item].slot] = Bare /\ MayWear(char, item)
  /\ Becomes(EquipItem([char EXCEPT !.worn[Gives[item].slot] = item], item))
TakeOff(slot) ==
  LET item == char.worn[slot]
      bare == [char EXCEPT !.worn[slot] = Bare]
  IN /\ item # Bare
     /\ \/ Becomes(DeEquipItem(bare, item, item))
        \/ /\ Gives[item].off # Bare /\ char.left.times < MaxLeaks
           /\ Becomes(DeEquipItem(bare, item, Gives[item].off))
UseCharge(slot) ==
  LET item == char.worn[slot]
  IN /\ item # Bare /\ {Gives[item].on, Gives[item].off} = {Bare}
     /\ Becomes(EquipItem(DeEquipItem(char, item, item), item))

\* A level gained or lost: what is worn stays on.
ChangeLevel == Becomes([char EXCEPT !.strong = ~@])
-----------------------------------------------------------------------------
(* Mounts and outfits.                                                     *)

\* toggleMount forgets a mount that is not tamed: one that is untamed is forgotten at once.
Ride(c) == [c EXCEPT !.outfit.mount = c.mount, !.speed = @ + MountSpeed[c.mount]]
MayMount(c) == ~Mounted(c) /\ ~c.zone /\ c.mount \in c.tamed /\ ~Feels(c, "outfit")
Mounting(c) == LET up == Ride(c) IN IF MayMount(c) THEN Dress(up, up.outfit) ELSE c
Dismounting(c) == LET down == Dismount(c) IN Dress(down, down.outfit)

ToggleMount ==
  \/ MayMount(char) /\ Becomes(Mounting(char))
  \/ Mounted(char) /\ Becomes(Dismounting(char))

\* One that is not mounted only chooses the mount; with a look that no outfit has (known)
\* goes no mount.  The mount changes also when the player cannot wear the outfit (fits):
\* who is dismounted and refused the look is still seen on the mount.
PlayerChangeOutfit(look, ride, known, fits) ==
  LET mount == IF known THEN ride ELSE 0
      swapped == IF Mounted(char) /\ mount # 0
                 THEN [char EXCEPT !.speed = @ + MountSpeed[mount] - MountSpeed[char.mount],
                                   !.mount = mount]
                 ELSE IF mount # 0 THEN [char EXCEPT !.mount = mount]
                 ELSE IF Mounted(char) THEN Dismount(char) ELSE char
      chosen == [swapped EXCEPT
                   !.outfit = [look |-> look, mount |-> IF Mounted(char) THEN mount ELSE 0]]
  IN /\ mount = 0 \/ mount \in char.tamed
     /\ \/ ~fits /\ Becomes([swapped EXCEPT !.refused = @ \/ swapped.outfit # char.outfit])
        \/ fits /\ Becomes(IF Feels(chosen, "outfit") THEN chosen ELSE Dress(chosen, chosen.outfit))

TameMount(m) == m \notin char.tamed /\ Becomes([char EXCEPT !.tamed = @ \cup {m}])
UntameMount(m) ==
  LET wild == [char EXCEPT !.tamed = @ \ {m}]
      down == IF Mounted(wild) THEN Dismounting(wild) ELSE wild
  IN m \in char.tamed /\ Becomes(IF char.mount = m THEN [down EXCEPT !.mount = 0] ELSE wild)

\* Player::onChangeZone, into and out of a protection zone.
ChangeZone ==
  LET moved == [char EXCEPT !.zone = ~@]
  IN Becomes(IF moved.zone /\ Mounted(moved) THEN [Dismounting(moved) EXCEPT !.wasMounted = TRUE]
             ELSE IF ~moved.zone /\ moved.wasMounted
             THEN [Mounting(moved) EXCEPT !.wasMounted = FALSE] ELSE moved)
-----------------------------------------------------------------------------
(* Leaving and coming back.                                                *)

\* isPersistent; what is loaded is pushed to the front.  Of attributes the values are
\* saved, not that they disable the defence.
Persistent(d) == ~d.forever /\ d.id <= Combat
Saved(d) == [d EXCEPT !.noDefense = FALSE]
Stored(q) ==
  LET kept[n \in 0..Len(q)] ==
        IF n = 0 THEN <<>>
        ELSE IF Persistent(q[n]) THEN <<Saved(q[n])>> \o kept[n - 1] ELSE kept[n - 1]
  IN kept[Len(q)]
Leave(c) == [Fresh(c) EXCEPT !.online = FALSE, !.stored = Stored(c.conds)]

CharLogout == Becomes(Leave(char))

\* Player::death: a player that falls in a PVP zone stays in the game.
CharDeath ==
  LET bare == EndAll(char, {d \in ToSet(char.conds) : Persistent(d)})
  IN Becomes(bare) \/ Becomes(Leave(bare))

\* onCreatureAppear of itself: what it wears takes effect, slot by slot, then what was
\* stored; a condition of which no ticks were left (over) is over at once.
Wear(c, slot) == IF c.worn[slot] = Bare THEN c ELSE EquipItem(c, c.worn[slot])
WearAll(c) ==
  LET worn[n \in 0..10] == IF n = 0 THEN c ELSE Wear(worn[n - 1], n)
  IN worn[10]
RestoreAll(c, q, over) ==
  LET restored[n \in 0..Len(q)] ==
        IF n = 0 THEN c
        ELSE AddCondition(restored[n - 1], [q[n] EXCEPT !.live = n \notin over], FALSE, FALSE)
  IN restored[Len(q)]
CharLogin ==
  /\ ~char.online
  /\ \E over \in SUBSET DOMAIN char.stored :
       char' = RestoreAll(WearAll([char EXCEPT !.online = TRUE, !.stored = <<>>]), char.stored, over)

ConditionsInit == char = Newcomer

SpellNext(Spells) ==
  \/ \E d \in Spells : Cast(d) \/ Dispel(d.type)
  \/ \E i \in DOMAIN char.conds : Expire(i) \/ Lift(i)
  \/ \E i \in DOMAIN char.delayed : DelayedRuns(i)
  \/ ExecuteConditions

GearNext(Worn) ==
  \/ \E item \in Worn : PutOn(item)
  \/ \E slot \in Slots : TakeOff(slot) \/ UseCharge(slot)

LookNext(Looks, Steeds) ==
  \E look \in Looks, mount \in Steeds \cup {0}, known, fits \in BOOLEAN :
    PlayerChangeOutfit(look, mount, known, fits)
MountNext == (\E m \in Mounts : TameMount(m) \/ UntameMount(m)) \/ ToggleMount \/ ChangeZone

ComeAndGo == CharLogin \/ CharLogout \/ CharDeath

\* A player to whom all may happen.  No spell makes a condition of an item.  The types
\* that no handler treats in a way of its own are one, that of regeneration.
Types == {"haste", "paralyze", "attributes", "invisible", "outfit", "regeneration"}
Condition ==
  [type : Types, id : Int, sub : Int, forever : BOOLEAN, live : BOOLEAN, val : Int,
   noDefense : BOOLEAN]
IsSpell(d) == d \in Condition /\ d.id <= Combat
ConditionsNext(Spells, Looks) ==
  \/ SpellNext(Spells) \/ GearNext(Gear) \/ LookNext(Looks, Mounts)
  \/ MountNext \/ ComeAndGo \/ ChangeLevel
ConditionsSpec(Spells, Looks) == ConditionsInit /\ [][ConditionsNext(Spells, Looks)]_char
-----------------------------------------------------------------------------
InForce(c) == {c.worn[s] : s \in c.enabled}

\* What the conditions of D, the items in force and the mount give.
Hastens(d) == IF d.type \in {"haste", "paralyze"} THEN d.val ELSE 0
Sharpens(d) == IF d.type = "attributes" THEN d.val ELSE 0
Speeds(D) == SumFunction([d \in D |-> Hastens(d)])
Skills(D) == SumFunction([d \in D |-> Sharpens(d)])
SpeedWorn(c) ==
  SumFunction([s \in Slots |-> IF s \in c.enabled THEN Gives[c.worn[s]].speed ELSE 0])
SkillWorn(c) ==
  SumFunction([s \in Slots |-> IF s \in c.enabled THEN Gives[c.worn[s]].skill ELSE 0])
SpeedRidden(c) == IF Mounted(c) THEN MountSpeed[c.mount] ELSE 0

\* An item in force has its conditions, nothing has those of an item that is not, but for
\* what one left that turned; and no condition is there twice (Creature::getCondition
\* finds the one to merge with).
ItemConditions ==
  /\ \A i, j \in DOMAIN char.conds : Key(char.conds[i]) = Key(char.conds[j]) => i = j
  /\ char.online => \A slot \in Slots, type \in {"invisible", "regeneration"} :
       (\E i \in DOMAIN char.conds : Key(char.conds[i]) = <<type, slot, 0>>)
         <=> \/ slot \in char.enabled /\ <<type, slot>> \in GivenBy(char.worn[slot])
             \/ <<type, slot>> \in char.left.conds

\* What the conditions, the items in force and the mount give is what the player has,
\* whatever was renewed, merged, dispelled, put on or taken off in between, together with
\* what is left of items that turned as they were taken off; and what is suppressed, or
\* keeps it from defending itself, has a cause (Creature::addCondition,
\* Player::updateAbilityConditions, DeEquipItem, Player::dismount).
BonusesAgree ==
  /\ ItemConditions
  /\ char.online =>
       /\ char.speed = Speeds(ToSet(char.conds)) + SpeedWorn(char) + SpeedRidden(char) + char.left.speed
       /\ char.skill = Skills(ToSet(char.conds)) + SkillWorn(char) + char.left.skill
       /\ char.suppressed \subseteq (UNION {Gives[g].immune : g \in InForce(char)}) \cup char.left.immune
       /\ ~char.defends =>
            \E i \in DOMAIN char.conds : char.conds[i].type = "attributes" /\ char.conds[i].noDefense

\* The others see nothing of the player exactly while something hides it, and else
\* the outfit it has; another than its own only while a condition lasts, or on the mount
\* it was taken from with a look that it was refused (ConditionInvisible::endCondition,
\* ConditionOutfit::endCondition, Game::playerChangeOutfit).
AppearanceAgrees ==
  char.online =>
    /\ char.shown = IF Invisible(char) THEN Nothing ELSE char.current
    /\ char.current # char.outfit =>
         Has(char, "outfit") \/ (char.refused /\ char.current.look = char.outfit.look)
=============================================================================
