------------------------------- MODULE World --------------------------------
(***************************************************************************)
(* What happens to those that are in the game: creatures and the pointers  *)
(* between them, and what a player's spells, items and mounts do to it.    *)
(* A behaviour plays one scene.                                            *)
(***************************************************************************)
EXTENDS Creatures, Conditions

CONSTANT Scenes  \* bound: what the behaviours are about

VARIABLE scene

worldVars == <<scene, creatureVars, char>>

\* The spells, items, mounts and looks of a scene.
Spell(type, id, sub, forever, val) ==
  [type |-> type, id |-> id, sub |-> sub, forever |-> forever, live |-> TRUE, val |-> val,
   noDefense |-> type = "attributes" /\ val = 2]

SpellsIn(sc) ==
  CASE sc = "speed" -> {Spell("haste", Combat, 0, FALSE, v) : v \in 1..2}
                         \cup {Spell("paralyze", Combat, 0, FALSE, -1)}
    [] sc = "look"  -> {Spell("invisible", Combat, 0, FALSE, 0)}
                         \cup {Spell("outfit", Combat, 0, FALSE, 3), Spell("outfit", Combat, 0, TRUE, 4)}
    [] sc = "ride"  -> {Spell("outfit", Combat, 0, FALSE, 3), Spell("haste", Combat, 0, FALSE, 1)}
    [] sc = "skill" -> {Spell("attributes", Combat, 0, FALSE, v) : v \in 1..2}
                         \cup {Spell("attributes", Combat, 1, FALSE, 1),
                               Spell("regeneration", Default, 0, FALSE, 0)}

GearIn(sc) ==
  CASE sc = "speed" -> {"boots", "worn boots"}
    [] sc = "look"  -> {"cloak", "ring", "dull ring"}
    [] sc = "ride"  -> {}
    [] sc = "skill" -> {"helmet", "amulet"}

Item(slot, speed, skill, immune, hides, heals, strong) ==
  [slot |-> slot, speed |-> speed, skill |-> skill, immune |-> immune, hides |-> hides,
   heals |-> heals, strong |-> strong, on |-> Bare, off |-> Bare]

\* Boots wear out when they are taken off; a dull ring shines as long as it is worn.
GivesOf == [g \in Gear |->
  CASE g = "boots"      -> [Item(8, 4, 0, {}, FALSE, FALSE, TRUE) EXCEPT !.off = "worn boots"]
    [] g = "worn boots" -> Item(8, 1, 0, {}, FALSE, FALSE, FALSE)
    [] g = "cloak"      -> Item(4, 0, 0, {}, TRUE, FALSE, FALSE)
    [] g = "ring"       -> [Item(9, 0, 0, {"drunk"}, TRUE, TRUE, FALSE) EXCEPT !.off = "dull ring"]
    [] g = "dull ring"  -> [Item(9, 0, 0, {}, FALSE, TRUE, FALSE) EXCEPT !.on = "ring"]
    [] g = "helmet"     -> Item(1, 0, 4, {"drown"}, FALSE, FALSE, TRUE)
    [] g = "amulet"     -> Item(2, 0, 8, {"drown"}, FALSE, TRUE, FALSE)]
SpeedOf == [m \in Mounts |-> 8 * m]

\* What the players of the scenes meet is what ConditionsSpec is about.
ASSUME ScenesFit == ConditionsAssumption /\ \A sc \in Scenes \ {"creatures"} :
  /\ GearIn(sc) \subseteq Gear
  /\ \A d \in SpellsIn(sc) : IsSpell(d)

Init == scene \in Scenes /\ CreaturesInit /\ ConditionsInit

CharNext ==
  \/ SpellNext(SpellsIn(scene)) \/ GearNext(GearIn(scene)) \/ ComeAndGo
  \/ scene = "look" /\ LookNext({1, 2}, {})
  \/ scene = "ride" /\ (LookNext({1, 2}, Mounts) \/ MountNext)
  \/ scene \in {"speed", "skill"} /\ ChangeLevel

Next ==
  \/ scene = "creatures" /\ CreaturesNext /\ UNCHANGED <<scene, char>>
  \/ scene # "creatures" /\ CharNext /\ UNCHANGED <<scene, creatureVars>>

Spec == Init /\ [][Next]_worldVars
-----------------------------------------------------------------------------
\* The members of each set are interchangeable: no handler orders them.
Symmetry == Permutations(Players) \cup Permutations(Monsters) \cup Permutations(Places)
=============================================================================
