-------------------------- MODULE ConditionsProofs --------------------------
(***************************************************************************)
(* What is proved about Conditions: for any items, mounts and spells, the  *)
(* conditions a player has, what it wears and what it rides add up to its  *)
(* speed and its skills, and it looks as they say.                         *)
(*                                                                         *)
(* The handlers walk over a list of conditions and end, change or add one  *)
(* after the other.  Base is what each such step keeps; GearOK, that who   *)
(* wears an item has the conditions of it, is broken between the steps of  *)
(* putting one on and holds after them.                                    *)
(***************************************************************************)
EXTENDS Conditions, DataInduction

-----------------------------------------------------------------------------
(* Conditions of different keys.                                           *)

KeysDiffer(D) == \A d, e \in D : Key(d) = Key(e) => d = e
Keyed(q) == q \in Seq(Condition) /\ Different(q) /\ KeysDiffer(ToSet(q))

\* They are finitely many conditions.
LEMMA KeyedIs ==
  ASSUME NEW q, Keyed(q)
  PROVE  /\ IsFiniteSet(ToSet(q)) /\ ToSet(q) \in SUBSET Condition
         /\ Len(q) \in Nat /\ DOMAIN q = 1..Len(q)
         /\ \A d \in ToSet(q) : \E i \in 1..Len(q) : q[i] = d
         /\ \A i, j \in DOMAIN q : Key(q[i]) = Key(q[j]) => i = j
<1>1. q \in Seq(Condition) /\ Len(q) \in Nat /\ DOMAIN q = 1..Len(q)
  BY DEF Keyed
<1>2. \A d \in ToSet(q) : \E i \in 1..Len(q) : q[i] = d
  BY <1>1 DEF ToSet
<1>3. ToSet(q) \in SUBSET Condition
  BY <1>1 DEF ToSet
<1>4. IsFiniteSet(ToSet(q))
  <2>1. q \in Surjection(1..Len(q), ToSet(q))
    <3>1. q \in [1..Len(q) -> ToSet(q)]
      BY <1>1 DEF ToSet
    <3> QED
      BY <1>2, <3>1 DEF Surjection
  <2>2. IsFiniteSet(1..Len(q))
    BY <1>1, FS_Interval
  <2> QED
    BY <2>1, <2>2, FS_Surjection
<1>5. \A i, j \in DOMAIN q : Key(q[i]) = Key(q[j]) => i = j
  BY DEF Keyed, KeysDiffer, Different, ToSet
<1> QED
  BY <1>1, <1>2, <1>3, <1>4, <1>5

\* One goes.
LEMMA KeyedWithout ==
  ASSUME NEW q, Keyed(q), NEW d
  PROVE  Keyed(RemoveFirst(q, d)) /\ ToSet(RemoveFirst(q, d)) = ToSet(q) \ {d}
<1>1. PICK r : r = RemoveFirst(q, d)
  OBVIOUS
<1>2. r \in Seq(Condition) /\ Different(r) /\ ToSet(r) = ToSet(q) \ {d}
  BY <1>1, RemoveFirstIs DEF Keyed
<1>3. KeysDiffer(ToSet(r))
  BY <1>2 DEF Keyed, KeysDiffer
<1> QED
  BY <1>1, <1>2, <1>3 DEF Keyed

\* One of another key comes.
LEMMA KeyedWith ==
  ASSUME NEW q, Keyed(q), NEW d \in Condition, \A e \in ToSet(q) : Key(e) # Key(d)
  PROVE  Keyed(Append(q, d)) /\ ToSet(Append(q, d)) = ToSet(q) \cup {d} /\ d \notin ToSet(q)
<1>0. d \notin ToSet(q)
  OBVIOUS
<1>1. q \in Seq(Condition) /\ Len(q) \in Nat /\ DOMAIN q = 1..Len(q)
  BY DEF Keyed
<1>2. PICK r : r = Append(q, d)
  OBVIOUS
<1>3. /\ r \in Seq(Condition) /\ Len(r) = Len(q) + 1 /\ DOMAIN r = 1..(Len(q) + 1)
      /\ r[Len(q) + 1] = d /\ \A i \in 1..Len(q) : r[i] = q[i]
  BY <1>1, <1>2
<1>4. ToSet(r) = ToSet(q) \cup {d}
  <2>1. 1..(Len(q) + 1) = 1..Len(q) \cup {Len(q) + 1}
    BY <1>1
  <2> QED
    BY <1>1, <1>3, <2>1 DEF ToSet
<1>5. Different(r)
  <2> SUFFICES ASSUME NEW m \in DOMAIN r, NEW n \in DOMAIN r, r[m] = r[n] PROVE m = n
    BY DEF Different
  <2>1. m \in 1..(Len(q) + 1) /\ n \in 1..(Len(q) + 1)
    BY <1>3
  <2>2. \A i \in 1..Len(q) : r[i] \in ToSet(q) /\ r[i] # d
    BY <1>0, <1>1, <1>3 DEF ToSet
  <2>3. CASE m = Len(q) + 1 \/ n = Len(q) + 1
    BY <1>1, <1>3, <2>1, <2>2, <2>3
  <2>4. CASE m \in 1..Len(q) /\ n \in 1..Len(q)
    BY <1>1, <1>3, <2>4 DEF Keyed, Different
  <2> QED
    BY <1>1, <2>1, <2>3, <2>4
<1>6. KeysDiffer(ToSet(r))
  BY <1>4 DEF Keyed, KeysDiffer
<1> QED
  BY <1>0, <1>2, <1>3, <1>4, <1>5, <1>6 DEF Keyed

\* One is replaced by another of its key.
LEMMA KeyedInstead ==
  ASSUME NEW q, Keyed(q), NEW i \in DOMAIN q, NEW d \in Condition, Key(d) = Key(q[i])
  PROVE  /\ Keyed([q EXCEPT ![i] = d])
         /\ ToSet([q EXCEPT ![i] = d]) = (ToSet(q) \ {q[i]}) \cup {d}
         /\ d \notin ToSet(q) \ {q[i]} /\ q[i] \in ToSet(q)
<1>1. q \in Seq(Condition) /\ Len(q) \in Nat /\ DOMAIN q = 1..Len(q)
  BY DEF Keyed
<1>2. PICK r : r = [q EXCEPT ![i] = d]
  OBVIOUS
<1>3. /\ r \in Seq(Condition) /\ DOMAIN r = DOMAIN q
      /\ r[i] = d /\ \A j \in DOMAIN q \ {i} : r[j] = q[j]
  BY <1>1, <1>2
<1>4. \A e \in ToSet(q) : Key(e) = Key(q[i]) => e = q[i]
  BY DEF Keyed, KeysDiffer, ToSet
<1>5. d \notin ToSet(q) \ {q[i]} /\ q[i] \in ToSet(q)
  BY <1>4 DEF ToSet
<1>6. \A j \in DOMAIN q \ {i} : q[j] # q[i] /\ q[j] \in ToSet(q)
  BY DEF Keyed, Different, ToSet
<1>7. ToSet(r) = (ToSet(q) \ {q[i]}) \cup {d}
  <2>1. \A e \in ToSet(r) : e \in (ToSet(q) \ {q[i]}) \cup {d}
    BY <1>3, <1>6 DEF ToSet
  <2>2. \A e \in ToSet(q) \ {q[i]} : e \in ToSet(r)
    BY <1>3 DEF ToSet
  <2>3. d \in ToSet(r)
    BY <1>3 DEF ToSet
  <2> QED
    BY <2>1, <2>2, <2>3
<1>8. Different(r)
  <2> SUFFICES ASSUME NEW m \in DOMAIN q, NEW n \in DOMAIN q, r[m] = r[n] PROVE m = n
    BY <1>3 DEF Different
  <2>1. CASE m = i \/ n = i
    BY <1>3, <1>5, <1>6, <2>1
  <2>2. CASE m # i /\ n # i
    BY <1>3, <2>2 DEF Keyed, Different
  <2> QED
    BY <2>1, <2>2
<1>9. KeysDiffer(ToSet(r))
  BY <1>4, <1>7 DEF Keyed, KeysDiffer
<1> QED
  BY <1>2, <1>3, <1>5, <1>7, <1>8, <1>9 DEF Keyed
-----------------------------------------------------------------------------
(* What conditions give.                                                   *)

\* The sums grow and shrink with the set.
LEMMA GivenWith ==
  ASSUME NEW D \in SUBSET Condition, IsFiniteSet(D), NEW d \in Condition, d \notin D
  PROVE  /\ Speeds(D \cup {d}) = Speeds(D) + Hastens(d) /\ Skills(D \cup {d}) = Skills(D) + Sharpens(d)
         /\ Speeds(D) \in Int /\ Skills(D) \in Int /\ Hastens(d) \in Int /\ Sharpens(d) \in Int
<1> DEFINE E == D \cup {d}
           f == [e \in E |-> Hastens(e)]
           g == [e \in E |-> Sharpens(e)]
<1>0. \A e \in Condition : Hastens(e) \in Int /\ Sharpens(e) \in Int
  BY DEF Condition, Hastens, Sharpens
<1>1. f \in [E -> Int] /\ g \in [E -> Int] /\ d \in E
  BY <1>0
<1>2. IsFiniteSet(E)
  BY FS_AddElement
<1>3. /\ [y \in E \ {d} |-> f[y]] = [e \in D |-> Hastens(e)] /\ f[d] = Hastens(d)
      /\ [y \in E \ {d} |-> g[y]] = [e \in D |-> Sharpens(e)] /\ g[d] = Sharpens(d)
  <2>1. E \ {d} = D
    OBVIOUS
  <2> QED
    BY <2>1
<1> HIDE DEF E, f, g
<1>4. /\ SumFunction(f) = SumFunction([y \in E \ {d} |-> f[y]]) + f[d]
      /\ SumFunction([y \in E \ {d} |-> f[y]]) \in Int
  BY <1>1, <1>2, SumWithout
<1>5. /\ SumFunction(g) = SumFunction([y \in E \ {d} |-> g[y]]) + g[d]
      /\ SumFunction([y \in E \ {d} |-> g[y]]) \in Int
  BY <1>1, <1>2, SumWithout
<1> QED
  BY <1>0, <1>3, <1>4, <1>5 DEF Speeds, Skills, E, f, g

\* One that is not there any more does not count.
LEMMA GivenWithout ==
  ASSUME NEW D \in SUBSET Condition, IsFiniteSet(D), NEW d \in D
  PROVE  /\ Speeds(D \ {d}) = Speeds(D) - Hastens(d) /\ Skills(D \ {d}) = Skills(D) - Sharpens(d)
         /\ Speeds(D) \in Int /\ Skills(D) \in Int /\ Hastens(d) \in Int /\ Sharpens(d) \in Int
<1>1. PICK E : E = D \ {d}
  OBVIOUS
<1>2. E \in SUBSET Condition /\ IsFiniteSet(E) /\ d \in Condition /\ d \notin E /\ E \cup {d} = D
  BY <1>1, FS_Subset
<1>3. /\ Speeds(D) = Speeds(E) + Hastens(d) /\ Skills(D) = Skills(E) + Sharpens(d)
      /\ Speeds(E) \in Int /\ Skills(E) \in Int /\ Hastens(d) \in Int /\ Sharpens(d) \in Int
  BY <1>2, GivenWith
<1> QED
  BY <1>1, <1>3

\* No conditions give nothing.
LEMMA GivenByNone == Speeds({}) = 0 /\ Skills({}) = 0
<1> DEFINE f == [e \in {} |-> Hastens(e)]
           g == [e \in {} |-> Sharpens(e)]
<1>1. IsFiniteSet({}) /\ f \in [{} -> Int] /\ g \in [{} -> Int] /\ Cardinality({}) = 0
  BY FS_EmptySet
<1>2. \A x \in {} : f[x] = 0 /\ g[x] = 0
  OBVIOUS
<1> HIDE DEF f, g
<1>3. SumFunction(f) = Cardinality({}) * 0
  <2>1. 0 \in Int /\ \A x \in {} : f[x] = 0
    OBVIOUS
  <2> QED
    BY <1>1, <2>1, SumConst
<1>4. SumFunction(g) = Cardinality({}) * 0
  <2>1. 0 \in Int /\ \A x \in {} : g[x] = 0
    OBVIOUS
  <2> QED
    BY <1>1, <2>1, SumConst
<1> QED
  BY <1>1, <1>3, <1>4 DEF Speeds, Skills, f, g

\* They give an integer.
LEMMA GivenIs ==
  ASSUME NEW D \in SUBSET Condition, IsFiniteSet(D)
  PROVE  Speeds(D) \in Int /\ Skills(D) \in Int
<1>1. CASE D = {}
  BY <1>1, GivenByNone
<1>2. CASE D # {}
  BY <1>2, GivenWithout
<1> QED
  BY <1>1, <1>2
-----------------------------------------------------------------------------
(* What is worn gives.                                                     *)

\* The items w of which those in the slots E are in force.
WornOK(w) ==
  w \in [Slots -> Gear \cup {Bare}] /\ \A s \in Slots : w[s] # Bare => Gives[w[s]].slot = s
InForceOK(E, w) == E \in SUBSET Slots /\ \A s \in E : w[s] \in Gear
SpeedOver(E, w) == SumFunction([s \in Slots |-> IF s \in E THEN Gives[w[s]].speed ELSE 0])
SkillOver(E, w) == SumFunction([s \in Slots |-> IF s \in E THEN Gives[w[s]].skill ELSE 0])

\* There are finitely many slots.
LEMMA SlotsAreTen == IsFiniteSet(Slots)
<1>1. PICK n \in Int : n = 10
  OBVIOUS
<1>2. IsFiniteSet(1..n)
  BY FS_Interval
<1> QED
  BY <1>1, <1>2 DEF Slots

\* An item comes into force.
LEMMA WornWith ==
  ASSUME ConditionsAssumption, NEW w, NEW E, InForceOK(E, w), NEW slot \in Slots, slot \notin E,
         w[slot] \in Gear
  PROVE  /\ InForceOK(E \cup {slot}, w)
         /\ SpeedOver(E \cup {slot}, w) = SpeedOver(E, w) + Gives[w[slot]].speed
         /\ SkillOver(E \cup {slot}, w) = SkillOver(E, w) + Gives[w[slot]].skill
         /\ SpeedOver(E, w) \in Int /\ SkillOver(E, w) \in Int
         /\ Gives[w[slot]].speed \in Int /\ Gives[w[slot]].skill \in Int
<1> DEFINE f == [s \in Slots |-> IF s \in E THEN Gives[w[s]].speed ELSE 0]
           h == [s \in Slots |-> IF s \in E \cup {slot} THEN Gives[w[s]].speed ELSE 0]
           g == [s \in Slots |-> IF s \in E THEN Gives[w[s]].skill ELSE 0]
           k == [s \in Slots |-> IF s \in E \cup {slot} THEN Gives[w[s]].skill ELSE 0]
<1>0. IsFiniteSet(Slots)
  BY SlotsAreTen
<1>1. \A s \in E \cup {slot} : w[s] \in Gear /\ Gives[w[s]].speed \in Int /\ Gives[w[s]].skill \in Int
  BY DEF InForceOK, ConditionsAssumption
<1>2. f \in [Slots -> Int] /\ h \in [Slots -> Int] /\ g \in [Slots -> Int] /\ k \in [Slots -> Int]
  BY <1>1
<1>3. /\ \A s \in Slots \ {slot} : h[s] = f[s] /\ k[s] = g[s]
      /\ f[slot] = 0 /\ g[slot] = 0 /\ h[slot] = Gives[w[slot]].speed /\ k[slot] = Gives[w[slot]].skill
  OBVIOUS
<1> HIDE DEF f, g, h, k
<1>4. SumFunction(h) = SumFunction(f) + h[slot] - f[slot]
  <2>1. \A s \in Slots \ {slot} : h[s] = f[s]
    BY <1>3
  <2> QED
    BY <1>0, <1>2, <2>1, SumChanges
<1>5. SumFunction(k) = SumFunction(g) + k[slot] - g[slot]
  <2>1. \A s \in Slots \ {slot} : k[s] = g[s]
    BY <1>3
  <2> QED
    BY <1>0, <1>2, <2>1, SumChanges
<1>6. SumFunction(f) \in Int /\ SumFunction(g) \in Int
  BY <1>0, <1>2, SumIsInt
<1>7. SpeedOver(E, w) = SumFunction(f) /\ SkillOver(E, w) = SumFunction(g)
  BY DEF SpeedOver, SkillOver, f, g
<1>8. SpeedOver(E \cup {slot}, w) = SumFunction(h) /\ SkillOver(E \cup {slot}, w) = SumFunction(k)
  BY DEF SpeedOver, SkillOver, h, k
<1>9. InForceOK(E \cup {slot}, w)
  BY <1>1 DEF InForceOK
<1> QED
  BY <1>1, <1>3, <1>4, <1>5, <1>6, <1>7, <1>8, <1>9

\* One goes out of force.
LEMMA WornWithout ==
  ASSUME ConditionsAssumption, NEW w, NEW E, InForceOK(E, w), NEW slot \in E
  PROVE  /\ InForceOK(E \ {slot}, w)
         /\ SpeedOver(E \ {slot}, w) = SpeedOver(E, w) - Gives[w[slot]].speed
         /\ SkillOver(E \ {slot}, w) = SkillOver(E, w) - Gives[w[slot]].skill
         /\ SpeedOver(E, w) \in Int /\ SkillOver(E, w) \in Int
         /\ Gives[w[slot]].speed \in Int /\ Gives[w[slot]].skill \in Int
<1>1. PICK F : F = E \ {slot}
  OBVIOUS
<1>2. InForceOK(F, w) /\ slot \in Slots /\ slot \notin F /\ w[slot] \in Gear /\ F \cup {slot} = E
  BY <1>1 DEF InForceOK
<1>3. /\ SpeedOver(E, w) = SpeedOver(F, w) + Gives[w[slot]].speed
      /\ SkillOver(E, w) = SkillOver(F, w) + Gives[w[slot]].skill
      /\ SpeedOver(F, w) \in Int /\ SkillOver(F, w) \in Int
      /\ Gives[w[slot]].speed \in Int /\ Gives[w[slot]].skill \in Int
  BY <1>2, WornWith
<1> QED
  BY <1>1, <1>2, <1>3

\* Nothing in force gives nothing.
LEMMA WornByNone == \A w : SpeedOver({}, w) = 0 /\ SkillOver({}, w) = 0
<1> SUFFICES ASSUME NEW w PROVE SpeedOver({}, w) = 0 /\ SkillOver({}, w) = 0
  OBVIOUS
<1>1. IsFiniteSet(Slots) /\ Cardinality(Slots) \in Nat
  BY SlotsAreTen, FS_CardinalityType
<1> DEFINE z == [s \in Slots |-> 0]
<1>2. SpeedOver({}, w) = SumFunction(z) /\ SkillOver({}, w) = SumFunction(z)
  BY DEF SpeedOver, SkillOver
<1>3. z \in [Slots -> Int] /\ (\A s \in Slots : z[s] = 0) /\ 0 \in Int
  OBVIOUS
<1> HIDE DEF z
<1>4. SumFunction(z) = Cardinality(Slots) * 0
  BY <1>1, <1>3, SumConst
<1> QED
  BY <1>1, <1>2, <1>4

\* They give an integer.
LEMMA WornIs ==
  ASSUME ConditionsAssumption, NEW w, NEW E, InForceOK(E, w)
  PROVE  SpeedOver(E, w) \in Int /\ SkillOver(E, w) \in Int
<1>1. CASE E = {}
  BY <1>1, WornByNone
<1>2. CASE E # {}
  BY <1>2, WornWithout
<1> QED
  BY <1>1, <1>2
-----------------------------------------------------------------------------
(* The invariant.                                                          *)

FieldNames ==
  {"online", "conds", "speed", "skill", "defends", "suppressed", "worn", "enabled", "strong",
   "outfit", "current", "shown", "mount", "tamed", "wasMounted", "zone", "delayed", "stored",
   "left", "refused"}

ItemTypes == {"invisible", "regeneration"}

\* The conditions of items last until something takes them away.
ItemShaped(D) == \A d \in D : d.id > Combat => d.type \in ItemTypes /\ d.sub = 0 /\ d.forever

Spelled == {d \in Condition : d.id <= Combat}
Events == [what : {"remove"}] \cup [what : {"add"}, cond : Spelled]

MountOK(c) ==
  /\ c.mount \in Mounts \cup {0} /\ c.tamed \in SUBSET Mounts
  /\ DOMAIN c.outfit = {"look", "mount"} /\ (Mounted(c) => c.mount \in Mounts)
Sound(c) ==
  /\ DOMAIN c = FieldNames
  /\ Keyed(c.conds) /\ ItemShaped(ToSet(c.conds))
  /\ MountOK(c) /\ c.defends \in BOOLEAN /\ c.left.speed \in Int /\ c.left.skill \in Int
  /\ c.delayed \in Seq(Events) /\ c.stored \in Seq(Spelled)

SumsOK(c, w) ==
  /\ c.speed = Speeds(ToSet(c.conds)) + SpeedOver(c.enabled, w) + SpeedRidden(c) + c.left.speed
  /\ c.skill = Skills(ToSet(c.conds)) + SkillOver(c.enabled, w) + c.left.skill
DefenceOK(c) == ~c.defends => \E d \in ToSet(c.conds) : d.type = "attributes" /\ d.noDefense
LooksOK(c) ==
  /\ c.shown = IF Invisible(c) THEN Nothing ELSE c.current
  /\ c.current # c.outfit => Has(c, "outfit") \/ (c.refused /\ c.current.look = c.outfit.look)

\* What every change keeps, when the items w are worn.
Base(c, w) ==
  Sound(c) /\ InForceOK(c.enabled, w) /\ SumsOK(c, w) /\ DefenceOK(c) /\ LooksOK(c)

\* What no change of conditions touches.
Frame(c, v) ==
  /\ DOMAIN v = FieldNames /\ v.online = c.online /\ v.worn = c.worn /\ v.enabled = c.enabled
  /\ v.suppressed = c.suppressed /\ v.strong = c.strong /\ v.mount = c.mount /\ v.tamed = c.tamed
  /\ v.zone = c.zone /\ v.wasMounted = c.wasMounted /\ v.stored = c.stored /\ v.left = c.left

\* It is enough to leave it alone step by step.
LEMMA FrameTwice ==
  ASSUME NEW c, NEW v, NEW z, Frame(c, v), Frame(v, z)
  PROVE  Frame(c, z)
<1> QED
  BY DEF Frame

\* No change touches nothing.
LEMMA FrameSame ==
  ASSUME NEW c, Sound(c)
  PROVE  Frame(c, c)
<1> QED
  BY DEF Frame, Sound

\* The order of the conditions does not matter.
LEMMA HasIs == \A c, t : Has(c, t) <=> \E d \in ToSet(c.conds) : d.type = t
<1> QED
  BY DEF Has, ToSet

\* The sums are integers.
LEMMA SumsAreInt ==
  ASSUME ConditionsAssumption, NEW c, NEW w, Base(c, w)
  PROVE  /\ c.speed \in Int /\ c.skill \in Int /\ SpeedRidden(c) \in Int
         /\ Speeds(ToSet(c.conds)) \in Int /\ Skills(ToSet(c.conds)) \in Int
         /\ SpeedOver(c.enabled, w) \in Int /\ SkillOver(c.enabled, w) \in Int
         /\ c.left.speed \in Int /\ c.left.skill \in Int
<1>1. SpeedOver(c.enabled, w) \in Int /\ SkillOver(c.enabled, w) \in Int
  BY WornIs DEF Base
<1>5. c.left.speed \in Int /\ c.left.skill \in Int
  BY DEF Base, Sound
<1>2. SpeedRidden(c) \in Int
  BY DEF Base, Sound, MountOK, SpeedRidden, ConditionsAssumption
<1>3. Speeds(ToSet(c.conds)) \in Int /\ Skills(ToSet(c.conds)) \in Int
  <2>1. IsFiniteSet(ToSet(c.conds)) /\ ToSet(c.conds) \in SUBSET Condition
    BY KeyedIs DEF Base, Sound
  <2> QED
    BY <2>1, GivenIs
<1>4. /\ c.speed = Speeds(ToSet(c.conds)) + SpeedOver(c.enabled, w) + SpeedRidden(c) + c.left.speed
      /\ c.skill = Skills(ToSet(c.conds)) + SkillOver(c.enabled, w) + c.left.skill
  BY DEF Base, SumsOK
<1> QED
  BY <1>1, <1>2, <1>3, <1>4, <1>5
-----------------------------------------------------------------------------
(* A condition ends.                                                       *)

\* What internalCreatureChangeOutfit changes.
LEMMA DressIs ==
  ASSUME NEW c, DOMAIN c = FieldNames, NEW o
  PROVE  /\ DOMAIN Dress(c, o) = FieldNames
         /\ \A x \in FieldNames \ {"current", "shown", "refused"} : Dress(c, o)[x] = c[x]
         /\ Dress(c, o).current = o
         /\ Dress(c, o).shown = IF Invisible(c) THEN c.shown ELSE o
<1> QED
  BY DEF Dress, FieldNames

\* What endCondition changes.
LEMMA EndIs ==
  ASSUME NEW c, DOMAIN c = FieldNames, c.speed \in Int, c.skill \in Int, NEW d \in Condition
  PROVE  LET v == End(c, d)
         IN  /\ DOMAIN v = FieldNames
             /\ \A x \in FieldNames \ {"speed", "skill", "defends", "current", "shown", "refused"} :
                  v[x] = c[x]
             /\ d.type # "outfit" => v.refused = c.refused
             /\ v.speed = c.speed - Hastens(d) /\ v.skill = c.skill - Sharpens(d)
             /\ v.defends = IF d.type = "attributes" THEN c.defends \/ d.noDefense ELSE c.defends
             /\ v.current = IF d.type = "outfit" THEN c.outfit ELSE c.current
             /\ v.shown = IF Invisible(c) THEN c.shown
                          ELSE IF d.type = "invisible" THEN c.current
                          ELSE IF d.type = "outfit" THEN c.outfit ELSE c.shown
<1>0. d.val \in Int /\ c.speed - 0 = c.speed /\ c.skill - 0 = c.skill
  BY DEF Condition
<1>1. CASE d.type \in {"haste", "paralyze"}
  <2>1. End(c, d) = [c EXCEPT !.speed = @ - d.val]
    BY <1>1 DEF End
  <2> QED
    BY <1>0, <1>1, <2>1 DEF FieldNames, Hastens, Sharpens
<1>2. CASE d.type = "attributes"
  <2>1. End(c, d) = [c EXCEPT !.skill = @ - d.val, !.defends = @ \/ d.noDefense]
    BY <1>2 DEF End
  <2> QED
    BY <1>0, <1>2, <2>1 DEF FieldNames, Hastens, Sharpens
<1>3. CASE d.type = "invisible"
  <2>1. End(c, d) = [c EXCEPT !.shown = IF Invisible(c) THEN @ ELSE c.current]
    BY <1>3 DEF End
  <2> QED
    BY <1>0, <1>3, <2>1 DEF FieldNames, Hastens, Sharpens
<1>4. CASE d.type = "outfit"
  <2>1. End(c, d) = Dress(c, c.outfit)
    BY <1>4 DEF End
  <2> QED
    BY <1>0, <1>4, <2>1, DressIs DEF FieldNames, Hastens, Sharpens
<1>5. CASE d.type \notin {"haste", "paralyze", "attributes", "invisible", "outfit"}
  <2>1. End(c, d) = c
    BY <1>5 DEF End
  <2> QED
    BY <1>0, <1>5, <2>1 DEF FieldNames, Hastens, Sharpens
<1> QED
  BY <1>1, <1>2, <1>3, <1>4, <1>5

\* One of the conditions ends.
LEMMA EndOneBase ==
  ASSUME ConditionsAssumption, NEW c, NEW w, Base(c, w), NEW d \in ToSet(c.conds)
  PROVE  LET v == EndOne(c, d)
         IN  Base(v, w) /\ Frame(c, v) /\ ToSet(v.conds) = ToSet(c.conds) \ {d}
<1>1. PICK b : b = [c EXCEPT !.conds = RemoveFirst(@, d)]
  OBVIOUS
<1>2. DOMAIN c = FieldNames /\ Keyed(c.conds) /\ ItemShaped(ToSet(c.conds)) /\ MountOK(c)
  BY DEF Base, Sound
<1>3. /\ DOMAIN b = FieldNames /\ b.conds = RemoveFirst(c.conds, d)
      /\ \A x \in FieldNames \ {"conds"} : b[x] = c[x]
  BY <1>1, <1>2 DEF FieldNames
<1>4. Keyed(b.conds) /\ ToSet(b.conds) = ToSet(c.conds) \ {d}
  BY <1>2, <1>3, KeyedWithout
<1>5. ToSet(c.conds) \in SUBSET Condition /\ IsFiniteSet(ToSet(c.conds)) /\ d \in Condition
  BY <1>2, KeyedIs
<1>6. c.speed \in Int /\ c.skill \in Int /\ b.speed = c.speed /\ b.skill = c.skill
  BY <1>3, SumsAreInt DEF FieldNames
<1>7. PICK v : v = EndOne(c, d)
  OBVIOUS
<1>8. v = End(b, d)
  BY <1>1, <1>7 DEF EndOne
<1>9. /\ DOMAIN v = FieldNames
      /\ \A x \in FieldNames \ {"speed", "skill", "defends", "current", "shown", "refused"} :
           v[x] = b[x]
      /\ d.type # "outfit" => v.refused = b.refused
      /\ v.speed = b.speed - Hastens(d) /\ v.skill = b.skill - Sharpens(d)
      /\ v.defends = IF d.type = "attributes" THEN b.defends \/ d.noDefense ELSE b.defends
      /\ v.current = IF d.type = "outfit" THEN b.outfit ELSE b.current
      /\ v.shown = IF Invisible(b) THEN b.shown
                   ELSE IF d.type = "invisible" THEN b.current
                   ELSE IF d.type = "outfit" THEN b.outfit ELSE b.shown
  BY <1>3, <1>5, <1>6, <1>8, EndIs
<1>10. /\ v.conds = b.conds /\ v.outfit = c.outfit /\ v.mount = c.mount /\ v.tamed = c.tamed
       /\ v.enabled = c.enabled /\ v.delayed = c.delayed /\ v.stored = c.stored /\ v.left = c.left
       /\ b.defends = c.defends /\ b.current = c.current /\ b.shown = c.shown /\ b.outfit = c.outfit
       /\ b.refused = c.refused
  BY <1>3, <1>9 DEF FieldNames
<1>11. Frame(c, v)
  BY <1>3, <1>9 DEF Frame, FieldNames
<1>12. ToSet(v.conds) = ToSet(c.conds) \ {d} /\ Keyed(v.conds)
  BY <1>4, <1>10
<1>13. Sound(v)
  <2>1. ItemShaped(ToSet(v.conds))
    BY <1>2, <1>12 DEF ItemShaped
  <2>2. MountOK(v)
    BY <1>2, <1>10 DEF MountOK, Mounted
  <2>3. v.defends \in BOOLEAN
    BY <1>5, <1>9, <1>10 DEF Base, Sound, Condition
  <2> QED
    BY <1>9, <1>10, <1>12, <2>1, <2>2, <2>3 DEF Base, Sound
<1>14. SumsOK(v, w)
  <2>1. /\ Speeds(ToSet(v.conds)) = Speeds(ToSet(c.conds)) - Hastens(d)
        /\ Skills(ToSet(v.conds)) = Skills(ToSet(c.conds)) - Sharpens(d)
        /\ Hastens(d) \in Int /\ Sharpens(d) \in Int
    BY <1>5, <1>12, GivenWithout
  <2>2. SpeedRidden(v) = SpeedRidden(c)
    BY <1>10 DEF SpeedRidden, Mounted
  <2>3. /\ c.speed = Speeds(ToSet(c.conds)) + SpeedOver(c.enabled, w) + SpeedRidden(c) + c.left.speed
        /\ c.skill = Skills(ToSet(c.conds)) + SkillOver(c.enabled, w) + c.left.skill
    BY DEF Base, SumsOK
  <2>4. /\ SpeedRidden(c) \in Int /\ Speeds(ToSet(c.conds)) \in Int /\ Skills(ToSet(c.conds)) \in Int
        /\ SpeedOver(c.enabled, w) \in Int /\ SkillOver(c.enabled, w) \in Int
        /\ c.left.speed \in Int /\ c.left.skill \in Int
    BY SumsAreInt
  <2>5. /\ v.speed = c.speed - Hastens(d) /\ v.skill = c.skill - Sharpens(d)
        /\ v.enabled = c.enabled /\ v.left = c.left
    BY <1>6, <1>9, <1>10
  <2> QED
    BY <2>1, <2>2, <2>3, <2>4, <2>5 DEF SumsOK
<1>15. DefenceOK(v)
  <2> SUFFICES ASSUME ~v.defends
               PROVE  \E e \in ToSet(v.conds) : e.type = "attributes" /\ e.noDefense
    BY DEF DefenceOK
  <2>1. ~c.defends /\ ~(d.type = "attributes" /\ d.noDefense)
    BY <1>9, <1>10
  <2>2. PICK e \in ToSet(c.conds) : e.type = "attributes" /\ e.noDefense
    BY <2>1 DEF Base, DefenceOK
  <2> QED
    BY <1>12, <2>1, <2>2
<1>16. LooksOK(v)
  <2>1. /\ c.shown = IF Invisible(c) THEN Nothing ELSE c.current
        /\ c.current # c.outfit => Has(c, "outfit") \/ (c.refused /\ c.current.look = c.outfit.look)
    BY DEF Base, LooksOK
  <2>2. /\ Invisible(c) <=> \E e \in ToSet(c.conds) : e.type = "invisible"
        /\ Invisible(b) <=> \E e \in ToSet(b.conds) : e.type = "invisible"
        /\ Invisible(v) <=> \E e \in ToSet(b.conds) : e.type = "invisible"
        /\ Has(c, "outfit") <=> \E e \in ToSet(c.conds) : e.type = "outfit"
        /\ Has(v, "outfit") <=> \E e \in ToSet(b.conds) : e.type = "outfit"
    BY <1>10, HasIs DEF Invisible
  <2>3. Invisible(b) => Invisible(c)
    BY <1>4, <2>2
  <2>4. Invisible(v) <=> Invisible(b)
    BY <2>2
  <2>5. d.type # "invisible" => (Invisible(b) <=> Invisible(c))
    BY <1>4, <2>2
  <2>6. d.type # "outfit" => (Has(v, "outfit") <=> Has(c, "outfit"))
    BY <1>4, <2>2
  <2>7. v.shown = IF Invisible(v) THEN Nothing ELSE v.current
    BY <1>9, <1>10, <2>1, <2>3, <2>4, <2>5
  <2>8. v.current # v.outfit => Has(v, "outfit") \/ (v.refused /\ v.current.look = v.outfit.look)
    <3>1. CASE d.type = "outfit"
      BY <1>9, <1>10, <3>1
    <3>2. CASE d.type # "outfit"
      <4>1. v.current = c.current /\ v.outfit = c.outfit /\ v.refused = c.refused
        BY <1>9, <1>10, <3>2
      <4> QED
        BY <2>1, <2>6, <3>2, <4>1
    <3> QED
      BY <3>1, <3>2
  <2> QED
    BY <2>7, <2>8 DEF LooksOK
<1> QED
  BY <1>7, <1>10, <1>11, <1>12, <1>13, <1>14, <1>15, <1>16 DEF Base
-----------------------------------------------------------------------------
(* The loops: each goes over a list, from a value to a value.              *)

\* What the n-th turn of a loop makes of v.
Turn(loop, q, x, v, n) ==
  IF loop = "end" THEN IF q[n] \in x THEN EndOne(v, q[n]) ELSE v
  ELSE IF loop = "dispel"
  THEN IF q[n].type = x.type THEN Dispelled(v, q[n], x.busy, x.walking) ELSE v
  ELSE IF loop = "wear" THEN Wear(v, n)
  ELSE IF loop = "restore" THEN AddCondition(v, [q[n] EXCEPT !.live = n \notin x], FALSE, FALSE)
  ELSE IF Persistent(q[n]) THEN <<Saved(q[n])>> \o v ELSE v
Turned(loop, q, x, c, f, n) == IF n = 0 THEN c ELSE Turn(loop, q, x, f[n - 1], n)

Turns(loop, q, x, c, f, m) == f = [n \in 0..m |-> Turned(loop, q, x, c, f, n)]

\* A loop has a value after every turn.
LEMMA TurnsExist ==
  ASSUME NEW loop, NEW q, NEW x, NEW c, NEW m \in Nat
  PROVE  \E f : Turns(loop, q, x, c, f, m)
<1> DEFINE P == {k \in Nat : \E f : f = [n \in 0..k |-> Turned(loop, q, x, c, f, n)]}
<1>1. 0 \in P
  <2>1. PICK f : f = [n \in 0..0 |-> c]
    OBVIOUS
  <2>2. \A n \in 0..0 : Turned(loop, q, x, c, f, n) = c
    BY DEF Turned
  <2>3. f = [n \in 0..0 |-> Turned(loop, q, x, c, f, n)]
    BY <2>1, <2>2
  <2> QED
    BY <2>3
<1>2. ASSUME NEW k \in P PROVE k + 1 \in P
  <2>1. PICK f : f = [n \in 0..k |-> Turned(loop, q, x, c, f, n)]
    OBVIOUS
  <2>2. PICK g : g = [n \in 0..(k + 1) |-> IF n = k + 1 THEN Turned(loop, q, x, c, f, n) ELSE f[n]]
    OBVIOUS
  <2>3. \A n \in 0..k : g[n] = f[n]
    BY <2>2
  <2>4. \A n \in 0..(k + 1) : Turned(loop, q, x, c, g, n) = Turned(loop, q, x, c, f, n)
    BY <2>3 DEF Turned
  <2>5. \A n \in 0..(k + 1) : g[n] = Turned(loop, q, x, c, g, n)
    <3> TAKE n \in 0..(k + 1)
    <3>1. n <= k => f[n] = Turned(loop, q, x, c, f, n)
      BY <2>1
    <3> QED
      BY <2>2, <2>4, <3>1
  <2>6. g = [n \in 0..(k + 1) |-> Turned(loop, q, x, c, g, n)]
    BY <2>2, <2>5
  <2> QED
    BY <2>6
<1>3. P = Nat
  <2>1. P \subseteq Nat
    OBVIOUS
  <2> HIDE DEF P
  <2> QED
    BY <1>1, <1>2, <2>1, Counting
<1> QED
  BY <1>3 DEF Turns

\* EndAll is such a loop.
LEMMA EndAllTurns ==
  ASSUME NEW c, Len(c.conds) \in Nat, NEW D
  PROVE  \E f : /\ f[0] = c /\ EndAll(c, D) = f[Len(c.conds)]
                /\ \A n \in 1..Len(c.conds) : f[n] = Turn("end", c.conds, D, f[n - 1], n)
<1> DEFINE q == c.conds
           Ended(f, n) ==
             IF n = 0 THEN c ELSE IF q[n] \in D THEN EndOne(f[n - 1], q[n]) ELSE f[n - 1]
<1>1. \A f, n : Ended(f, n) = Turned("end", q, D, c, f, n)
  BY DEF Turned, Turn
<1>2. \E f : f = [n \in 0..Len(q) |-> Ended(f, n)]
  <2>1. PICK f : Turns("end", q, D, c, f, Len(q))
    BY TurnsExist
  <2>2. f = [n \in 0..Len(q) |-> Ended(f, n)]
    <3> HIDE DEF Ended
    <3> QED
      BY <1>1, <2>1 DEF Turns
  <2> QED
    BY <2>2
<1>3. PICK f : f = CHOOSE g : g = [n \in 0..Len(q) |-> Ended(g, n)]
  OBVIOUS
<1>4. f = [n \in 0..Len(q) |-> Ended(f, n)]
  BY <1>2, <1>3
<1>5. EndAll(c, D) = f[Len(q)]
  BY <1>3 DEF EndAll
<1>6. f[0] = c
  BY <1>4
<1>7. \A n \in 1..Len(q) : f[n] = Turn("end", q, D, f[n - 1], n)
  BY <1>4 DEF Turn
<1> QED
  BY <1>5, <1>6, <1>7

\* Those of D among its conditions end.
LEMMA EndAllBase ==
  ASSUME ConditionsAssumption, NEW c, NEW w, Base(c, w), NEW D
  PROVE  LET v == EndAll(c, D)
         IN  Base(v, w) /\ Frame(c, v) /\ ToSet(v.conds) = ToSet(c.conds) \ D
<1> DEFINE q == c.conds
           Gone(n) == {q[i] : i \in {k \in 1..n : q[k] \in D}}
<1>1. Keyed(q) /\ q \in Seq(Condition) /\ Len(q) \in Nat /\ DOMAIN q = 1..Len(q)
  BY KeyedIs DEF Base, Sound, Keyed
<1>2. PICK f : /\ f[0] = c /\ EndAll(c, D) = f[Len(q)]
               /\ \A n \in 1..Len(q) : f[n] = Turn("end", q, D, f[n - 1], n)
  BY <1>1, EndAllTurns
<1> DEFINE Good(n) == Base(f[n], w) /\ Frame(c, f[n]) /\ ToSet(f[n].conds) = ToSet(q) \ Gone(n)
           P == {n \in Nat : n <= Len(q) => Good(n)}
<1>3. 0 \in P
  <2>1. Gone(0) = {}
    OBVIOUS
  <2>2. Frame(c, c)
    BY FrameSame DEF Base
  <2> QED
    BY <1>2, <2>1, <2>2
<1>4. ASSUME NEW n \in P PROVE n + 1 \in P
  <2> SUFFICES ASSUME n + 1 <= Len(q) PROVE Good(n + 1)
    OBVIOUS
  <2>1. n \in Nat /\ Good(n) /\ n + 1 \in 1..Len(q) /\ (n + 1) - 1 = n
    BY <1>1
  <2>2. f[n + 1] = IF q[n + 1] \in D THEN EndOne(f[n], q[n + 1]) ELSE f[n]
    BY <1>2, <2>1 DEF Turn
  <2>3. Gone(n + 1) = Gone(n) \cup (IF q[n + 1] \in D THEN {q[n + 1]} ELSE {})
    <3>1. 1..(n + 1) = 1..n \cup {n + 1}
      BY <2>1
    <3> QED
      BY <3>1
  <2>4. CASE q[n + 1] \in D
    <3>1. q[n + 1] \in ToSet(q) \ Gone(n)
      <4>1. \A k \in 1..n : q[k] # q[n + 1]
        BY <1>1, <2>1 DEF Keyed, Different
      <4>2. q[n + 1] \in ToSet(q)
        BY <1>1, <2>1 DEF ToSet
      <4> QED
        BY <4>1, <4>2
    <3>2. PICK v : v = f[n]
      OBVIOUS
    <3>3. /\ Base(EndOne(v, q[n + 1]), w) /\ Frame(v, EndOne(v, q[n + 1]))
          /\ ToSet(EndOne(v, q[n + 1]).conds) = ToSet(v.conds) \ {q[n + 1]}
      BY <2>1, <3>1, <3>2, EndOneBase
    <3>4. f[n + 1] = EndOne(v, q[n + 1]) /\ Frame(c, v) /\ ToSet(v.conds) = ToSet(q) \ Gone(n)
      BY <2>1, <2>2, <2>4, <3>2
    <3>5. Frame(c, f[n + 1])
      BY <3>3, <3>4, FrameTwice
    <3>6. ToSet(f[n + 1].conds) = ToSet(q) \ Gone(n + 1)
      BY <2>3, <2>4, <3>3, <3>4
    <3> QED
      BY <3>3, <3>4, <3>5, <3>6
  <2>5. CASE q[n + 1] \notin D
    <3>1. f[n + 1] = f[n] /\ Gone(n + 1) = Gone(n)
      BY <2>2, <2>3, <2>5
    <3> HIDE DEF Gone
    <3> QED
      BY <2>1, <3>1
  <2> QED
    BY <2>4, <2>5
<1>5. P = Nat
  <2>1. P \subseteq Nat
    OBVIOUS
  <2> HIDE DEF P
  <2> QED
    BY <1>3, <1>4, <2>1, Counting
<1>6. Good(Len(q))
  <2>1. Len(q) \in P
    BY <1>1, <1>5
  <2> HIDE DEF Good
  <2> QED
    BY <1>1, <2>1
<1>7. ToSet(q) \ Gone(Len(q)) = ToSet(q) \ D
  BY <1>1 DEF ToSet
<1> QED
  BY <1>2, <1>6, <1>7
-----------------------------------------------------------------------------
(* A condition is added.                                                   *)

\* The conditions of items, and which they are.
Given(D) == {d \in D : d.id > Combat}
Pairs(D) == {<<d.type, d.id>> : d \in Given(D)}
Items(c) == Pairs(ToSet(c.conds))

\* Those of spells are none.
LEMMA PairsAre ==
  /\ \A C, D : Pairs(C \cup D) = Pairs(C) \cup Pairs(D)
  /\ \A d : d.id > Combat => Pairs({d}) = {<<d.type, d.id>>}
  /\ \A d : ~(d.id > Combat) => Pairs({d}) = {}
<1>1. \A C, D : Given(C \cup D) = Given(C) \cup Given(D)
  BY DEF Given
<1>2. \A C, D : Pairs(C \cup D) = Pairs(C) \cup Pairs(D)
  BY <1>1 DEF Pairs
<1>3. \A d : d.id > Combat => Given({d}) = {d}
  BY DEF Given
<1>4. \A d : ~(d.id > Combat) => Given({d}) = {}
  BY DEF Given
<1> QED
  BY <1>2, <1>3, <1>4 DEF Pairs

\* What Base needs when only other fields have changed.
LEMMA OthersBase ==
  ASSUME NEW c, NEW w, Base(c, w), NEW v, DOMAIN v = FieldNames,
         v.conds = c.conds, v.speed = c.speed, v.skill = c.skill, v.defends = c.defends,
         v.enabled = c.enabled, v.outfit = c.outfit, v.current = c.current, v.shown = c.shown,
         v.mount = c.mount, v.tamed \in SUBSET Mounts, v.delayed \in Seq(Events),
         v.stored \in Seq(Spelled), v.left = c.left, v.refused = c.refused
  PROVE  Base(v, w)
<1>1. (Mounted(v) <=> Mounted(c)) /\ (Invisible(v) <=> Invisible(c))
      /\ (Has(v, "outfit") <=> Has(c, "outfit")) /\ SpeedRidden(v) = SpeedRidden(c)
  BY DEF Mounted, Invisible, Has, SpeedRidden
<1>2. Sound(v)
  BY <1>1 DEF Base, Sound, MountOK
<1> QED
  BY <1>1, <1>2 DEF Base, SumsOK, DefenceOK, LooksOK

\* And when the conditions have changed.
LEMMA CondsBase ==
  ASSUME ConditionsAssumption, NEW c, NEW w, Base(c, w), NEW v, Frame(c, v),
         v.delayed = c.delayed, v.outfit = c.outfit,
         Keyed(v.conds), ItemShaped(ToSet(v.conds)),
         NEW more \in Int, Speeds(ToSet(v.conds)) = Speeds(ToSet(c.conds)) + more,
         v.speed = c.speed + more,
         NEW better \in Int, Skills(ToSet(v.conds)) = Skills(ToSet(c.conds)) + better,
         v.skill = c.skill + better,
         v.defends \in BOOLEAN, DefenceOK(v), LooksOK(v)
  PROVE  Base(v, w)
<1>1. (Mounted(v) <=> Mounted(c)) /\ SpeedRidden(v) = SpeedRidden(c)
  BY DEF Mounted, SpeedRidden, Frame
<1>2. Sound(v)
  BY <1>1 DEF Base, Sound, MountOK, Frame
<1>3. SumsOK(v, w)
  <2>1. /\ c.speed = Speeds(ToSet(c.conds)) + SpeedOver(c.enabled, w) + SpeedRidden(c) + c.left.speed
        /\ c.skill = Skills(ToSet(c.conds)) + SkillOver(c.enabled, w) + c.left.skill
    BY DEF Base, SumsOK
  <2>2. /\ SpeedRidden(c) \in Int /\ Speeds(ToSet(c.conds)) \in Int /\ Skills(ToSet(c.conds)) \in Int
        /\ SpeedOver(c.enabled, w) \in Int /\ SkillOver(c.enabled, w) \in Int
        /\ c.left.speed \in Int /\ c.left.skill \in Int
    BY SumsAreInt
  <2>3. v.enabled = c.enabled /\ v.left = c.left
    BY DEF Frame
  <2> QED
    BY <1>1, <2>1, <2>2, <2>3 DEF SumsOK
<1>4. InForceOK(v.enabled, w)
  BY DEF Base, Frame
<1> QED
  BY <1>2, <1>3, <1>4 DEF Base

\* A task is left for after the step.
LEMMA DelayBase ==
  ASSUME NEW c, NEW w, Base(c, w), NEW e \in Events
  PROVE  LET v == [c EXCEPT !.delayed = Append(@, e)]
         IN  Base(v, w) /\ Frame(c, v) /\ v.conds = c.conds
<1>1. PICK v : v = [c EXCEPT !.delayed = Append(@, e)]
  OBVIOUS
<1>2. DOMAIN c = FieldNames /\ c.delayed \in Seq(Events) /\ c.stored \in Seq(Spelled)
      /\ c.tamed \in SUBSET Mounts
  BY DEF Base, Sound, MountOK
<1>3. DOMAIN v = FieldNames /\ \A x \in FieldNames \ {"delayed"} : v[x] = c[x]
  BY <1>1, <1>2 DEF FieldNames
<1>4. v.delayed \in Seq(Events)
  BY <1>1, <1>2 DEF FieldNames
<1>5. Frame(c, v)
  BY <1>3 DEF Frame, FieldNames
<1>6. Base(v, w)
  BY <1>2, <1>3, <1>4, OthersBase DEF FieldNames
<1>7. v.conds = c.conds
  BY <1>3 DEF FieldNames
<1> QED
  BY <1>1, <1>5, <1>6, <1>7

\* They end now, or after the step.
LEMMA RemoveEachBase ==
  ASSUME ConditionsAssumption, NEW c, NEW w, Base(c, w), NEW type, NEW D, NEW walking
  PROVE  LET v == RemoveEach(c, type, D, walking)
         IN  /\ Base(v, w) /\ Frame(c, v)
             /\ ToSet(v.conds) = ToSet(c.conds) \ D \/ (type = "paralyze" /\ walking /\ v.conds = c.conds)
<1>1. CASE type = "paralyze" /\ walking /\ D # {}
  <2>1. PICK e : e = [what |-> "remove"]
    OBVIOUS
  <2>2. RemoveEach(c, type, D, walking) = [c EXCEPT !.delayed = Append(@, e)] /\ e \in Events
    BY <1>1, <2>1 DEF RemoveEach, Events
  <2>3. PICK v : v = RemoveEach(c, type, D, walking)
    OBVIOUS
  <2>4. Base(v, w) /\ Frame(c, v) /\ v.conds = c.conds
    BY <2>2, <2>3, DelayBase
  <2> QED
    BY <1>1, <2>3, <2>4
<1>2. CASE ~(type = "paralyze" /\ walking /\ D # {})
  <2>1. RemoveEach(c, type, D, walking) = EndAll(c, D)
    BY <1>2 DEF RemoveEach
  <2> QED
    BY <2>1, EndAllBase
<1> QED
  BY <1>1, <1>2

\* What dismounting changes.
LEMMA DismountIs ==
  ASSUME ConditionsAssumption, NEW c, NEW w, Base(c, w), Mounted(c)
  PROVE  LET v == Dismount(c)
         IN  /\ DOMAIN v = FieldNames /\ \A x \in FieldNames \ {"outfit", "speed"} : v[x] = c[x]
             /\ DOMAIN v.outfit = {"look", "mount"} /\ v.outfit.mount = 0
             /\ v.outfit.look = c.outfit.look
             /\ v.speed = c.speed - SpeedRidden(c) /\ ~Mounted(v)
<1>1. DOMAIN c = FieldNames /\ DOMAIN c.outfit = {"look", "mount"} /\ c.mount \in Mounts
  BY DEF Base, Sound, MountOK
<1>2. c.mount # 0 /\ SpeedRidden(c) = MountSpeed[c.mount]
  BY <1>1 DEF ConditionsAssumption, SpeedRidden
<1>3. PICK o : o = [c.outfit EXCEPT !.mount = 0]
  OBVIOUS
<1>4. PICK v : v = Dismount(c)
  OBVIOUS
<1>5. v = [c EXCEPT !.outfit = o, !.speed = @ - MountSpeed[c.mount]]
  BY <1>2, <1>3, <1>4 DEF Dismount
<1>6. DOMAIN o = {"look", "mount"} /\ o.mount = 0 /\ o.look = c.outfit.look
  BY <1>1, <1>3
<1>7. /\ DOMAIN v = FieldNames /\ \A x \in FieldNames \ {"outfit", "speed"} : v[x] = c[x]
      /\ v.outfit = o /\ v.speed = c.speed - MountSpeed[c.mount]
  BY <1>1, <1>5 DEF FieldNames
<1> QED
  BY <1>2, <1>4, <1>6, <1>7 DEF Mounted

\* One whom a condition dresses gets down and looks as before.
LEMMA DismountBase ==
  ASSUME ConditionsAssumption, NEW c, NEW w, Base(c, w), Mounted(c), Has(c, "outfit")
  PROVE  LET v == Dismount(c) IN Base(v, w) /\ Frame(c, v) /\ v.conds = c.conds
<1>1. PICK v : v = Dismount(c)
  OBVIOUS
<1>2. /\ DOMAIN v = FieldNames /\ \A x \in FieldNames \ {"outfit", "speed"} : v[x] = c[x]
      /\ DOMAIN v.outfit = {"look", "mount"} /\ v.speed = c.speed - SpeedRidden(c) /\ ~Mounted(v)
  BY <1>1, DismountIs
<1>3. /\ v.conds = c.conds /\ v.mount = c.mount /\ v.tamed = c.tamed /\ v.defends = c.defends
      /\ v.delayed = c.delayed /\ v.stored = c.stored /\ v.enabled = c.enabled
      /\ v.skill = c.skill /\ v.shown = c.shown /\ v.current = c.current /\ v.left = c.left
  BY <1>2 DEF FieldNames
<1>4. Frame(c, v)
  BY <1>2 DEF Frame, FieldNames
<1>5. Sound(v)
  BY <1>2, <1>3 DEF Base, Sound, MountOK
<1>6. SumsOK(v, w)
  <2>1. SpeedRidden(v) = 0
    BY <1>2 DEF SpeedRidden
  <2>2. /\ c.speed = Speeds(ToSet(c.conds)) + SpeedOver(c.enabled, w) + SpeedRidden(c) + c.left.speed
        /\ c.skill = Skills(ToSet(c.conds)) + SkillOver(c.enabled, w) + c.left.skill
    BY DEF Base, SumsOK
  <2>3. /\ SpeedRidden(c) \in Int /\ Speeds(ToSet(c.conds)) \in Int
        /\ SpeedOver(c.enabled, w) \in Int /\ c.left.speed \in Int
    BY SumsAreInt
  <2> QED
    BY <1>2, <1>3, <2>1, <2>2, <2>3 DEF SumsOK
<1>7. DefenceOK(v) /\ LooksOK(v)
  BY <1>3 DEF Base, DefenceOK, LooksOK, Invisible, Has
<1> QED
  BY <1>1, <1>3, <1>4, <1>5, <1>6, <1>7 DEF Base

\* What startCondition changes.
LEMMA StartIs ==
  ASSUME NEW c, DOMAIN c = FieldNames, c.speed \in Int, c.skill \in Int, NEW d \in Condition
  PROVE  LET v == Start(c, d)
         IN  /\ DOMAIN v = FieldNames
             /\ \A x \in FieldNames \ {"speed", "skill", "defends", "current", "shown", "refused"} :
                  v[x] = c[x]
             /\ d.type # "outfit" => v.refused = c.refused
             /\ v.speed = c.speed + Hastens(d) /\ v.skill = c.skill + Sharpens(d)
             /\ v.defends = IF d.type = "attributes" THEN ~d.noDefense ELSE c.defends
             /\ v.current = IF d.type = "outfit" THEN Plain(d.val) ELSE c.current
             /\ v.shown = IF d.type = "invisible" THEN Nothing
                          ELSE IF d.type = "outfit" /\ ~Invisible(c) THEN Plain(d.val) ELSE c.shown
<1>0. d.val \in Int /\ c.speed + 0 = c.speed /\ c.skill + 0 = c.skill
  BY DEF Condition
<1>1. CASE d.type \in {"haste", "paralyze"}
  <2>1. Start(c, d) = [c EXCEPT !.speed = @ + d.val]
    BY <1>1 DEF Start
  <2> QED
    BY <1>0, <1>1, <2>1 DEF FieldNames, Hastens, Sharpens
<1>2. CASE d.type = "attributes"
  <2>1. Start(c, d) = [c EXCEPT !.skill = @ + d.val, !.defends = ~d.noDefense]
    BY <1>2 DEF Start
  <2> QED
    BY <1>0, <1>2, <2>1 DEF FieldNames, Hastens, Sharpens
<1>3. CASE d.type = "invisible"
  <2>1. Start(c, d) = [c EXCEPT !.shown = Nothing]
    BY <1>3 DEF Start
  <2> QED
    BY <1>0, <1>3, <2>1 DEF FieldNames, Hastens, Sharpens
<1>4. CASE d.type = "outfit"
  <2>1. Start(c, d) = Dress(c, Plain(d.val))
    BY <1>4 DEF Start
  <2> QED
    BY <1>0, <1>4, <2>1, DressIs DEF FieldNames, Hastens, Sharpens
<1>5. CASE d.type \notin {"haste", "paralyze", "attributes", "invisible", "outfit"}
  <2>1. Start(c, d) = c
    BY <1>5 DEF Start
  <2> QED
    BY <1>0, <1>5, <2>1 DEF FieldNames, Hastens, Sharpens
<1> QED
  BY <1>1, <1>2, <1>3, <1>4, <1>5

\* One starts that was not there.
LEMMA StartBase ==
  ASSUME ConditionsAssumption, NEW c, NEW w, Base(c, w), NEW d \in Condition, ItemShaped({d}),
         \A e \in ToSet(c.conds) : Key(e) # Key(d)
  PROVE  LET v == [Start(c, d) EXCEPT !.conds = Append(@, d)]
         IN  /\ Base(v, w) /\ Frame(c, v) /\ ToSet(v.conds) = ToSet(c.conds) \cup {d}
             /\ Has(v, d.type)
<1>1. PICK b : b = Start(c, d)
  OBVIOUS
<1>2. /\ DOMAIN c = FieldNames /\ Keyed(c.conds) /\ ItemShaped(ToSet(c.conds))
      /\ c.speed \in Int /\ c.skill \in Int
  BY SumsAreInt DEF Base, Sound
<1>3. /\ DOMAIN b = FieldNames
      /\ \A x \in FieldNames \ {"speed", "skill", "defends", "current", "shown", "refused"} :
           b[x] = c[x]
      /\ d.type # "outfit" => b.refused = c.refused
      /\ b.speed = c.speed + Hastens(d) /\ b.skill = c.skill + Sharpens(d)
      /\ b.defends = IF d.type = "attributes" THEN ~d.noDefense ELSE c.defends
      /\ b.current = IF d.type = "outfit" THEN Plain(d.val) ELSE c.current
      /\ b.shown = IF d.type = "invisible" THEN Nothing
                   ELSE IF d.type = "outfit" /\ ~Invisible(c) THEN Plain(d.val) ELSE c.shown
  BY <1>1, <1>2, StartIs
<1>4. PICK v : v = [b EXCEPT !.conds = Append(@, d)]
  OBVIOUS
<1>5. /\ DOMAIN v = FieldNames /\ v.conds = Append(c.conds, d)
      /\ \A x \in FieldNames \ {"conds"} : v[x] = b[x]
  BY <1>3, <1>4 DEF FieldNames
<1>6. /\ Keyed(v.conds) /\ ToSet(v.conds) = ToSet(c.conds) \cup {d} /\ d \notin ToSet(c.conds)
  BY <1>2, <1>5, KeyedWith
<1>7. /\ v.delayed = c.delayed /\ v.outfit = c.outfit
      /\ v.speed = c.speed + Hastens(d) /\ v.skill = c.skill + Sharpens(d)
      /\ v.defends = b.defends /\ v.shown = b.shown /\ v.current = b.current /\ v.refused = b.refused
  BY <1>3, <1>5 DEF FieldNames
<1>8. Frame(c, v)
  BY <1>3, <1>5 DEF Frame, FieldNames
<1>9. ItemShaped(ToSet(v.conds))
  BY <1>2, <1>6 DEF ItemShaped
<1>10. /\ Speeds(ToSet(v.conds)) = Speeds(ToSet(c.conds)) + Hastens(d) /\ Hastens(d) \in Int
       /\ Skills(ToSet(v.conds)) = Skills(ToSet(c.conds)) + Sharpens(d) /\ Sharpens(d) \in Int
  <2>1. ToSet(c.conds) \in SUBSET Condition /\ IsFiniteSet(ToSet(c.conds))
    BY <1>2, KeyedIs
  <2> QED
    BY <1>6, <2>1, GivenWith
<1>11. v.defends \in BOOLEAN /\ DefenceOK(v)
  <2>1. v.defends \in BOOLEAN
    BY <1>3, <1>7 DEF Base, Sound
  <2> SUFFICES ASSUME ~v.defends
               PROVE  \E e \in ToSet(v.conds) : e.type = "attributes" /\ e.noDefense
    BY <2>1 DEF DefenceOK
  <2>2. CASE d.type = "attributes"
    BY <1>3, <1>6, <1>7, <2>2
  <2>3. CASE d.type # "attributes"
    <3>1. ~c.defends
      BY <1>3, <1>7, <2>3
    <3> QED
      BY <1>6, <3>1 DEF Base, DefenceOK
  <2> QED
    BY <2>2, <2>3
<1>12. \A t : Has(v, t) <=> Has(c, t) \/ d.type = t
  BY <1>6, HasIs
<1>13. LooksOK(v)
  <2>1. /\ c.shown = IF Invisible(c) THEN Nothing ELSE c.current
        /\ c.current # c.outfit => Has(c, "outfit") \/ (c.refused /\ c.current.look = c.outfit.look)
    BY DEF Base, LooksOK
  <2>2. Invisible(v) <=> Invisible(c) \/ d.type = "invisible"
    BY <1>12 DEF Invisible
  <2>3. v.shown = IF Invisible(v) THEN Nothing ELSE v.current
    BY <1>3, <1>7, <2>1, <2>2
  <2>4. v.current # v.outfit => Has(v, "outfit") \/ (v.refused /\ v.current.look = v.outfit.look)
    <3>1. CASE d.type = "outfit"
      BY <1>12, <3>1
    <3>2. CASE d.type # "outfit"
      <4>1. v.current = c.current /\ v.outfit = c.outfit /\ v.refused = c.refused
        BY <1>3, <1>7, <3>2
      <4> QED
        BY <1>12, <2>1, <4>1
    <3> QED
      BY <3>1, <3>2
  <2> QED
    BY <2>3, <2>4 DEF LooksOK
<1>14. Base(v, w)
  BY <1>6, <1>7, <1>8, <1>9, <1>10, <1>11, <1>13, CondsBase
<1> QED
  BY <1>1, <1>4, <1>6, <1>8, <1>12, <1>14

\* What the player does when one was added.
LEMMA OnAddBase ==
  ASSUME ConditionsAssumption, NEW c, NEW w, Base(c, w), NEW type, Has(c, type), NEW walking
  PROVE  LET v == OnAdd(c, type, walking)
         IN  Base(v, w) /\ Frame(c, v) /\ Items(v) = Items(c)
<1>1. ASSUME NEW t \in {"haste", "paralyze"}
      PROVE  LET v == RemoveType(c, t, walking)
             IN  Base(v, w) /\ Frame(c, v) /\ Items(v) = Items(c)
  <2>1. PICK v : v = RemoveType(c, t, walking)
    OBVIOUS
  <2>2. /\ Base(v, w) /\ Frame(c, v)
        /\ ToSet(v.conds) = ToSet(c.conds) \ OfType(c, t) \/ v.conds = c.conds
    BY <2>1, RemoveEachBase DEF RemoveType
  <2>3. \A d \in ToSet(c.conds) : d.id > Combat => d.type # t
    BY DEF Base, Sound, ItemShaped, ItemTypes
  <2>4. Items(v) = Items(c)
    <3>1. Given(ToSet(v.conds)) = Given(ToSet(c.conds))
      BY <2>2, <2>3 DEF Given, OfType
    <3> QED
      BY <3>1 DEF Items, Pairs
  <2> QED
    BY <2>1, <2>2, <2>4
<1>2. CASE type = "paralyze" /\ Feels(c, "haste")
  <2>1. OnAdd(c, type, walking) = RemoveType(c, "haste", walking)
    BY <1>2 DEF OnAdd
  <2> QED
    BY <1>1, <2>1
<1>3. CASE type = "haste" /\ Feels(c, "paralyze")
  <2>1. OnAdd(c, type, walking) = RemoveType(c, "paralyze", walking)
    BY <1>3 DEF OnAdd
  <2> QED
    BY <1>1, <2>1
<1>4. CASE type = "outfit" /\ Mounted(c)
  <2>1. OnAdd(c, type, walking) = Dismount(c)
    BY <1>4 DEF OnAdd
  <2>2. PICK v : v = Dismount(c)
    OBVIOUS
  <2>3. Base(v, w) /\ Frame(c, v) /\ v.conds = c.conds
    BY <1>4, <2>2, DismountBase
  <2> QED
    BY <2>1, <2>2, <2>3 DEF Items
<1>5. CASE /\ ~(type = "paralyze" /\ Feels(c, "haste")) /\ ~(type = "haste" /\ Feels(c, "paralyze"))
           /\ ~(type = "outfit" /\ Mounted(c))
  <2>1. OnAdd(c, type, walking) = c
    BY <1>5 DEF OnAdd
  <2>2. Frame(c, c)
    BY FrameSame DEF Base
  <2> QED
    BY <2>1, <2>2
<1> QED
  BY <1>2, <1>3, <1>4, <1>5

\* The condition at i is renewed.
LEMMA RenewBase ==
  ASSUME ConditionsAssumption, NEW c, NEW w, Base(c, w), NEW i \in DOMAIN c.conds,
         NEW d \in Condition, ItemShaped({d}), Key(c.conds[i]) = Key(d), NEW longer
  PROVE  LET v == Renew(c, i, d, longer)
         IN  Base(v, w) /\ Frame(c, v) /\ Items(v) = Items(c)
<1>1. PICK old : old = c.conds[i]
  OBVIOUS
<1>2. PICK e : e = Renewed(old, d)
  OBVIOUS
<1>3. /\ DOMAIN c = FieldNames /\ Keyed(c.conds) /\ ItemShaped(ToSet(c.conds))
      /\ c.speed \in Int /\ c.skill \in Int
      /\ IsFiniteSet(ToSet(c.conds)) /\ ToSet(c.conds) \in SUBSET Condition
  BY SumsAreInt, KeyedIs DEF Base, Sound
<1>4. d \in Condition /\ d.id \in Int /\ old.type = d.type /\ old.id = d.id
  BY <1>1 DEF Condition, Key
<1>5. /\ e \in Condition /\ Key(e) = Key(old) /\ e.type = d.type /\ e.id = d.id /\ e.val = d.val
      /\ e.noDefense = d.noDefense /\ e.forever = d.forever /\ e.sub = d.sub
  BY <1>1, <1>2, <1>4 DEF Renewed, Condition, Key
<1>6. old \in ToSet(c.conds) /\ old \in Condition
  BY <1>1, <1>3 DEF ToSet
<1>7. PICK b : b = [c EXCEPT !.conds[i] = e]
  OBVIOUS
<1>8. /\ DOMAIN b = FieldNames /\ b.conds = [c.conds EXCEPT ![i] = e]
      /\ \A x \in FieldNames \ {"conds"} : b[x] = c[x]
  BY <1>3, <1>7 DEF FieldNames
<1>9. /\ Keyed(b.conds) /\ ToSet(b.conds) = (ToSet(c.conds) \ {old}) \cup {e}
      /\ e \notin ToSet(c.conds) \ {old}
  BY <1>1, <1>3, <1>5, <1>8, KeyedInstead
<1>10. ItemShaped(ToSet(b.conds)) /\ Items(b) = Items(c)
  <2>1. ItemShaped(ToSet(b.conds))
    BY <1>3, <1>5, <1>9 DEF ItemShaped
  <2>3. Pairs({old}) = Pairs({e})
    BY <1>4, <1>5, PairsAre
  <2>4. Pairs(ToSet(b.conds)) = Pairs(ToSet(c.conds))
    <3>1. PICK D : D = ToSet(c.conds) \ {old}
      OBVIOUS
    <3>2. ToSet(b.conds) = D \cup {e} /\ ToSet(c.conds) = D \cup {old}
      BY <1>6, <1>9, <3>1
    <3>3. Pairs(D \cup {e}) = Pairs(D) \cup Pairs({e}) /\ Pairs(D \cup {old}) = Pairs(D) \cup Pairs({old})
      BY PairsAre
    <3> QED
      BY <2>3, <3>2, <3>3
  <2> QED
    BY <2>1, <2>4 DEF Items
<1>11. /\ Speeds(ToSet(b.conds)) = Speeds(ToSet(c.conds)) + (Hastens(e) - Hastens(old))
       /\ Skills(ToSet(b.conds)) = Skills(ToSet(c.conds)) + (Sharpens(e) - Sharpens(old))
       /\ Hastens(e) \in Int /\ Hastens(old) \in Int /\ Sharpens(e) \in Int /\ Sharpens(old) \in Int
  <2>1. PICK D : D = ToSet(c.conds) \ {old}
    OBVIOUS
  <2>2. D \in SUBSET Condition /\ IsFiniteSet(D)
    BY <1>3, <2>1, FS_Subset
  <2>3. /\ Speeds(D) = Speeds(ToSet(c.conds)) - Hastens(old)
        /\ Skills(D) = Skills(ToSet(c.conds)) - Sharpens(old)
        /\ Speeds(ToSet(c.conds)) \in Int /\ Skills(ToSet(c.conds)) \in Int
        /\ Hastens(old) \in Int /\ Sharpens(old) \in Int
    BY <1>3, <1>6, <2>1, GivenWithout
  <2>4. /\ Speeds(D \cup {e}) = Speeds(D) + Hastens(e) /\ Skills(D \cup {e}) = Skills(D) + Sharpens(e)
        /\ Hastens(e) \in Int /\ Sharpens(e) \in Int
    BY <1>5, <1>9, <2>1, <2>2, GivenWith
  <2> QED
    BY <1>9, <2>1, <2>3, <2>4
<1> DEFINE more == Hastens(e) - Hastens(old)
           better == Sharpens(e) - Sharpens(old)
<1>26. /\ more \in Int /\ Speeds(ToSet(b.conds)) = Speeds(ToSet(c.conds)) + more
       /\ better \in Int /\ Skills(ToSet(b.conds)) = Skills(ToSet(c.conds)) + better
  BY <1>11
<1>12. \A t : Has(b, t) <=> Has(c, t)
  BY <1>4, <1>5, <1>6, <1>9, HasIs
<1>13. /\ b.delayed = c.delayed /\ b.outfit = c.outfit /\ b.speed = c.speed /\ b.skill = c.skill
       /\ b.defends = c.defends /\ b.current = c.current /\ b.shown = c.shown /\ b.refused = c.refused
  BY <1>8 DEF FieldNames
<1>14. Frame(c, b)
  BY <1>8 DEF Frame, FieldNames
<1>15. Invisible(b) <=> Invisible(c)
  BY <1>12 DEF Invisible
<1>16. /\ c.shown = (IF Invisible(c) THEN Nothing ELSE c.current)
       /\ c.current # c.outfit => Has(c, "outfit") \/ (c.refused /\ c.current.look = c.outfit.look)
       /\ c.defends \in BOOLEAN
  BY DEF Base, LooksOK, Sound
<1>17. PICK v : v = Renew(c, i, d, longer)
  OBVIOUS
<1>18. ASSUME v = c PROVE Base(v, w) /\ Frame(c, v) /\ Items(v) = Items(c)
  <2>1. Frame(c, c)
    BY FrameSame DEF Base
  <2> QED
    BY <1>18, <2>1
<1>19. CASE d.type \in {"haste", "paralyze"} /\ ~(old.forever /\ ~d.forever)
  <2>1. v = [b EXCEPT !.speed = @ + d.val - old.val]
    BY <1>1, <1>2, <1>7, <1>17, <1>19 DEF Renew
  <2>2. /\ DOMAIN v = FieldNames /\ v.speed = b.speed + d.val - old.val
        /\ \A x \in FieldNames \ {"speed"} : v[x] = b[x]
    BY <1>8, <2>1 DEF FieldNames
  <2>3. /\ v.conds = b.conds /\ v.delayed = c.delayed /\ v.outfit = c.outfit /\ v.skill = c.skill
        /\ v.defends = c.defends /\ v.current = c.current /\ v.shown = c.shown
        /\ v.refused = c.refused
    BY <1>13, <2>2 DEF FieldNames
  <2>4. Frame(c, v)
    BY <1>8, <2>2 DEF Frame, FieldNames
  <2>5. /\ v.speed = c.speed + (Hastens(e) - Hastens(old)) /\ Sharpens(e) = 0 /\ Sharpens(old) = 0
        /\ e.type # "attributes" /\ old.type # "attributes"
    <3>1. Hastens(e) = d.val /\ Hastens(old) = old.val /\ d.val \in Int /\ old.val \in Int
      BY <1>4, <1>5, <1>6, <1>19 DEF Hastens, Condition
    <3> QED
      BY <1>3, <1>4, <1>5, <1>13, <1>19, <2>2, <3>1 DEF Sharpens
  <2>6. DefenceOK(v)
    BY <1>9, <2>3, <2>5 DEF Base, DefenceOK
  <2>7. LooksOK(v)
    BY <1>12, <1>13, <1>15, <1>16, <2>3 DEF LooksOK, Invisible, Has
  <2>8. v.skill = c.skill + (Sharpens(e) - Sharpens(old))
    BY <1>3, <2>3, <2>5
  <2>9. Base(v, w)
    <3>1. /\ v.speed = c.speed + more /\ v.skill = c.skill + better
          /\ v.defends \in BOOLEAN /\ v.conds = b.conds /\ Keyed(b.conds)
      BY <1>9, <1>16, <2>3, <2>5, <2>8
    <3> HIDE DEF more, better
    <3> QED
      BY <1>10, <1>26, <2>3, <2>4, <2>6, <2>7, <3>1, CondsBase
  <2>10. Items(v) = Items(c)
    BY <1>10, <2>3 DEF Items
  <2> QED
    BY <1>17, <2>4, <2>9, <2>10
<1>20. CASE d.type \in {"haste", "paralyze"} /\ old.forever /\ ~d.forever
  BY <1>1, <1>17, <1>18, <1>20 DEF Renew
<1>21. CASE d.type \notin {"haste", "paralyze"} /\ ~Updates(old, d, longer)
  BY <1>1, <1>17, <1>18, <1>21 DEF Renew
<1>22. CASE d.type = "attributes" /\ Updates(old, d, longer)
  <2>1. PICK z : z = End(b, old)
    OBVIOUS
  <2>2. v = [z EXCEPT !.skill = @ + d.val]
    BY <1>1, <1>2, <1>7, <1>17, <1>22, <2>1 DEF Renew
  <2>3. /\ DOMAIN z = FieldNames
        /\ \A x \in FieldNames \ {"speed", "skill", "defends", "current", "shown"} : z[x] = b[x]
        /\ z.speed = b.speed - Hastens(old) /\ z.skill = b.skill - Sharpens(old)
        /\ z.defends = (b.defends \/ old.noDefense)
        /\ z.current = b.current /\ z.shown = b.shown /\ z.refused = b.refused
  <3>1. b.speed \in Int /\ b.skill \in Int
    BY <1>3, <1>13
  <3>2. /\ old.type = "attributes" /\ Invisible(b) = Invisible(b)
    BY <1>4, <1>22
  <3>3. /\ DOMAIN z = FieldNames
        /\ \A x \in FieldNames \ {"speed", "skill", "defends", "current", "shown", "refused"} :
             z[x] = b[x]
        /\ old.type # "outfit" => z.refused = b.refused
        /\ z.speed = b.speed - Hastens(old) /\ z.skill = b.skill - Sharpens(old)
        /\ z.defends = IF old.type = "attributes" THEN b.defends \/ old.noDefense ELSE b.defends
        /\ z.current = IF old.type = "outfit" THEN b.outfit ELSE b.current
        /\ z.shown = IF Invisible(b) THEN b.shown
                     ELSE IF old.type = "invisible" THEN b.current
                     ELSE IF old.type = "outfit" THEN b.outfit ELSE b.shown
    BY <1>6, <1>8, <2>1, <3>1, EndIs
  <3> QED
    BY <3>2, <3>3
  <2>4. /\ DOMAIN v = FieldNames /\ v.skill = z.skill + d.val
        /\ \A x \in FieldNames \ {"skill"} : v[x] = z[x]
    BY <2>2, <2>3 DEF FieldNames
  <2>5. /\ v.conds = b.conds /\ v.delayed = c.delayed /\ v.outfit = c.outfit
        /\ v.defends = z.defends /\ v.current = c.current /\ v.shown = c.shown /\ v.speed = z.speed
        /\ v.refused = c.refused
    BY <1>13, <2>3, <2>4 DEF FieldNames
  <2>6. Frame(c, v)
    BY <1>8, <2>3, <2>4 DEF Frame, FieldNames
  <2>7. /\ Hastens(e) = 0 /\ Hastens(old) = 0 /\ Sharpens(e) = d.val /\ Sharpens(old) = old.val
        /\ d.val \in Int /\ old.val \in Int
    BY <1>4, <1>5, <1>6, <1>22 DEF Hastens, Sharpens, Condition
  <2>8. /\ v.speed = c.speed + (Hastens(e) - Hastens(old))
        /\ v.skill = c.skill + (Sharpens(e) - Sharpens(old))
    BY <1>3, <1>13, <2>3, <2>4, <2>5, <2>7
  <2>9. v.defends \in BOOLEAN /\ DefenceOK(v)
    <3>1. v.defends = (c.defends \/ old.noDefense) /\ old.noDefense \in BOOLEAN
      BY <1>6, <1>13, <2>3, <2>5 DEF Condition
    <3>2. ASSUME ~v.defends
          PROVE  \E x \in ToSet(v.conds) : x.type = "attributes" /\ x.noDefense
      <4>1. PICK x \in ToSet(c.conds) : x.type = "attributes" /\ x.noDefense
        BY <3>1, <3>2 DEF Base, DefenceOK
      <4> QED
        BY <1>9, <2>5, <3>1, <3>2, <4>1
    <3> QED
      BY <1>16, <3>1, <3>2 DEF DefenceOK
  <2>10. LooksOK(v)
    <3>1. (Invisible(v) <=> Invisible(c)) /\ (Has(v, "outfit") <=> Has(c, "outfit"))
      BY <1>12, <1>15, <2>5 DEF Invisible, Has
    <3> QED
      BY <1>16, <2>5, <3>1 DEF LooksOK
  <2>11. Base(v, w)
    <3>1. /\ v.speed = c.speed + more /\ v.skill = c.skill + better
          /\ v.conds = b.conds /\ Keyed(b.conds)
      BY <1>9, <2>5, <2>8
    <3> HIDE DEF more, better
    <3> QED
      BY <1>10, <1>26, <2>5, <2>6, <2>9, <2>10, <3>1, CondsBase
  <2>12. Items(v) = Items(c)
    BY <1>10, <2>5 DEF Items
  <2> QED
    BY <1>17, <2>6, <2>11, <2>12
<1>23. ASSUME d.type \notin {"haste", "paralyze", "attributes"}, Updates(old, d, longer),
              v.conds = b.conds, Frame(c, v), v.delayed = c.delayed, v.outfit = c.outfit,
              v.speed = c.speed, v.skill = c.skill, v.defends = c.defends, LooksOK(v)
       PROVE  Base(v, w) /\ Frame(c, v) /\ Items(v) = Items(c)
  <2>1. /\ Hastens(e) = 0 /\ Hastens(old) = 0 /\ Sharpens(e) = 0 /\ Sharpens(old) = 0
        /\ e.type # "attributes" /\ old.type # "attributes"
    BY <1>4, <1>5, <1>23 DEF Hastens, Sharpens
  <2>2. /\ v.speed = c.speed + (Hastens(e) - Hastens(old))
        /\ v.skill = c.skill + (Sharpens(e) - Sharpens(old))
    BY <1>3, <1>23, <2>1
  <2>3. DefenceOK(v)
    BY <1>9, <1>23, <2>1 DEF Base, DefenceOK
  <2>4. Base(v, w)
    <3>1. /\ v.speed = c.speed + more /\ v.skill = c.skill + better
          /\ v.defends \in BOOLEAN /\ v.conds = b.conds /\ Keyed(b.conds)
      BY <1>9, <1>16, <1>23, <2>2
    <3> HIDE DEF more, better
    <3> QED
      BY <1>10, <1>23, <1>26, <2>3, <3>1, CondsBase
  <2> QED
    BY <1>10, <1>23, <2>4 DEF Items
<1>24. CASE d.type = "outfit" /\ Updates(old, d, longer)
  <2>1. v = Dress(b, Plain(d.val))
    BY <1>1, <1>2, <1>7, <1>17, <1>24 DEF Renew
  <2>2. /\ DOMAIN v = FieldNames
        /\ \A x \in FieldNames \ {"current", "shown", "refused"} : v[x] = b[x]
        /\ v.current = Plain(d.val)
        /\ v.shown = IF Invisible(b) THEN b.shown ELSE Plain(d.val)
    BY <1>8, <2>1, DressIs
  <2>3. /\ v.conds = b.conds /\ v.delayed = c.delayed /\ v.outfit = c.outfit
        /\ v.speed = c.speed /\ v.skill = c.skill /\ v.defends = c.defends
    BY <1>13, <2>2 DEF FieldNames
  <2>4. Frame(c, v)
    BY <1>8, <2>2 DEF Frame, FieldNames
  <2>5. Has(v, "outfit") /\ (Invisible(v) <=> Invisible(b))
    BY <1>5, <1>9, <1>24, <2>3, HasIs DEF Invisible
  <2>6. LooksOK(v)
    BY <1>13, <1>15, <1>16, <2>2, <2>5 DEF LooksOK
  <2> QED
    BY <1>17, <1>23, <1>24, <2>3, <2>4, <2>6
<1>25. CASE d.type \notin {"haste", "paralyze", "attributes", "outfit"} /\ Updates(old, d, longer)
  <2>1. v = b
    BY <1>1, <1>2, <1>7, <1>17, <1>25 DEF Renew
  <2>2. LooksOK(v)
    BY <1>12, <1>13, <1>15, <1>16, <2>1 DEF LooksOK
  <2> QED
    BY <1>13, <1>14, <1>17, <1>23, <1>25, <2>1, <2>2
<1> QED
  BY <1>17, <1>19, <1>20, <1>21, <1>22, <1>24, <1>25

\* One that was not there starts, and the player reacts.
LEMMA NewBase ==
  ASSUME ConditionsAssumption, NEW c, NEW w, Base(c, w), NEW d \in Condition, ItemShaped({d}),
         \A e \in ToSet(c.conds) : Key(e) # Key(d), NEW walking, NEW longer
  PROVE  LET v == Added(c, d, walking, longer)
         IN  Base(v, w) /\ Frame(c, v) /\ Items(v) = Items(c) \cup Pairs({d})
<1>1. PICK b : b = [Start(c, d) EXCEPT !.conds = Append(@, d)]
  OBVIOUS
<1>2. Base(b, w) /\ Frame(c, b) /\ ToSet(b.conds) = ToSet(c.conds) \cup {d} /\ Has(b, d.type)
  BY <1>1, StartBase
<1>3. PICK v : v = OnAdd(b, d.type, walking)
  OBVIOUS
<1>4. Base(v, w) /\ Frame(b, v) /\ Items(v) = Items(b)
  BY <1>2, <1>3, OnAddBase
<1>5. Added(c, d, walking, longer) = v
  <2>1. {i \in DOMAIN c.conds : Key(c.conds[i]) = Key(d)} = {}
    BY DEF ToSet
  <2> QED
    BY <1>1, <1>3, <2>1 DEF Added
<1>6. Frame(c, v)
  BY <1>2, <1>4, FrameTwice
<1>7. Items(b) = Items(c) \cup Pairs({d})
  BY <1>2, PairsAre DEF Items
<1> QED
  BY <1>4, <1>5, <1>6, <1>7

\* A spell or an item adds a condition.
LEMMA AddedBase ==
  ASSUME ConditionsAssumption, NEW c, NEW w, Base(c, w), NEW d \in Condition, ItemShaped({d}),
         NEW walking, NEW longer
  PROVE  LET v == Added(c, d, walking, longer)
         IN  Base(v, w) /\ Frame(c, v) /\ Items(v) = Items(c) \cup Pairs({d})
<1> DEFINE there == {i \in DOMAIN c.conds : Key(c.conds[i]) = Key(d)}
<1>1. CASE there # {}
  <2>1. PICK i : i = CHOOSE j \in there : TRUE
    OBVIOUS
  <2>2. i \in there
    BY <1>1, <2>1
  <2>3. Added(c, d, walking, longer) = Renew(c, i, d, longer)
    BY <1>1, <2>1 DEF Added
  <2>4. PICK v : v = Renew(c, i, d, longer)
    OBVIOUS
  <2>5. Base(v, w) /\ Frame(c, v) /\ Items(v) = Items(c)
    BY <2>2, <2>4, RenewBase
  <2>6. Pairs({d}) \subseteq Items(c)
    <3>1. PICK x : x = c.conds[i]
      OBVIOUS
    <3>2. x \in ToSet(c.conds) /\ x.type = d.type /\ x.id = d.id
      BY <2>2, <3>1 DEF ToSet, Key
    <3>3. Pairs({d}) = Pairs({x})
      BY <3>2, PairsAre
    <3>4. ToSet(c.conds) = ToSet(c.conds) \cup {x}
      BY <3>2
    <3> QED
      BY <3>3, <3>4, PairsAre DEF Items
  <2> QED
    BY <2>3, <2>4, <2>5, <2>6
<1>2. CASE there = {}
  <2>1. \A e \in ToSet(c.conds) : Key(e) # Key(d)
    BY <1>2 DEF ToSet
  <2> HIDE DEF there
  <2> QED
    BY <2>1, NewBase
<1> QED
  BY <1>1, <1>2

\* Those of spells are not of items.
LEMMA SpelledIs ==
  ASSUME NEW d \in Spelled
  PROVE  d \in Condition /\ ItemShaped({d}) /\ Pairs({d}) = {}
<1>1. d \in Condition /\ ~(d.id > Combat)
  BY DEF Spelled, Condition, Combat
<1> QED
  BY <1>1, PairsAre DEF ItemShaped

\* It is added now, or after the step.
LEMMA AddConditionBase ==
  ASSUME ConditionsAssumption, NEW c, NEW w, Base(c, w), NEW d \in Spelled,
         NEW walking, NEW longer
  PROVE  LET v == AddCondition(c, d, walking, longer)
         IN  Base(v, w) /\ Frame(c, v) /\ Items(v) = Items(c)
<1>1. CASE d.type = "haste" /\ Feels(c, "paralyze") /\ walking
  <2>1. PICK e : e = [what |-> "add", cond |-> d]
    OBVIOUS
  <2>2. e \in Events /\ AddCondition(c, d, walking, longer) = [c EXCEPT !.delayed = Append(@, e)]
    BY <1>1, <2>1 DEF Events, AddCondition
  <2>3. PICK v : v = AddCondition(c, d, walking, longer)
    OBVIOUS
  <2>4. Base(v, w) /\ Frame(c, v) /\ v.conds = c.conds
    BY <2>2, <2>3, DelayBase
  <2> QED
    BY <2>3, <2>4 DEF Items
<1>2. CASE ~(d.type = "haste" /\ Feels(c, "paralyze") /\ walking)
  <2>1. AddCondition(c, d, walking, longer) = Added(c, d, walking, longer)
    BY <1>2 DEF AddCondition
  <2>2. PICK v : v = Added(c, d, walking, longer)
    OBVIOUS
  <2>3. Base(v, w) /\ Frame(c, v) /\ Items(v) = Items(c) \cup Pairs({d}) /\ Pairs({d}) = {}
    BY <2>2, AddedBase, SpelledIs
  <2> QED
    BY <2>1, <2>2, <2>3
<1> QED
  BY <1>1, <1>2

\* An item adds the one that it gives.
LEMMA AbilityBase ==
  ASSUME ConditionsAssumption, NEW c, NEW w, Base(c, w), NEW type \in ItemTypes,
         NEW slot \in Slots
  PROVE  LET v == FromItem(c, TRUE, type, slot)
         IN  Base(v, w) /\ Frame(c, v) /\ Items(v) = Items(c) \cup {<<type, slot>>}
<1>1. PICK d : d = Ability(type, slot)
  OBVIOUS
<1>2. /\ d \in Condition /\ d.type = type /\ d.id = slot /\ d.sub = 0 /\ slot \in Int /\ slot > Combat
      /\ d.type \notin {"haste", "paralyze"} /\ d.forever
  <2>1. slot \in Int /\ slot > Combat
    BY DEF Slots, Combat
  <2>2. type \in Types /\ type \notin {"haste", "paralyze"}
    BY DEF ItemTypes, Types
  <2>3. d = [type |-> type, id |-> slot, sub |-> 0, forever |-> TRUE, live |-> TRUE, val |-> 0,
             noDefense |-> FALSE]
    BY <1>1 DEF Ability
  <2>4. d \in Condition
    BY <2>1, <2>2, <2>3 DEF Condition
  <2> QED
    BY <2>1, <2>2, <2>3, <2>4
<1>3. ItemShaped({d})
  BY <1>1, <1>2 DEF ItemShaped
<1>5. FromItem(c, TRUE, type, slot) = Added(c, d, FALSE, FALSE)
  BY <1>1, <1>2 DEF FromItem, AddCondition
<1>6. Pairs({d}) = {<<type, slot>>}
  BY <1>2, PairsAre
<1>7. PICK v, no : v = Added(c, d, no, no) /\ no = FALSE
  OBVIOUS
<1>8. Base(v, w) /\ Frame(c, v) /\ Items(v) = Items(c) \cup Pairs({d})
  BY <1>2, <1>3, <1>7, AddedBase
<1> QED
  BY <1>5, <1>6, <1>7, <1>8

\* And takes it away.
LEMMA NoAbilityBase ==
  ASSUME ConditionsAssumption, NEW c, NEW w, Base(c, w), NEW type \in ItemTypes,
         NEW slot \in Slots
  PROVE  LET v == FromItem(c, FALSE, type, slot)
         IN  Base(v, w) /\ Frame(c, v) /\ Items(v) = Items(c) \ {<<type, slot>>}
<1>1. PICK D : D = {d \in OfType(c, type) : d.id = slot}
  OBVIOUS
<1>2. PICK v : v = RemoveEach(c, type, D, FALSE)
  OBVIOUS
<1>3. FromItem(c, FALSE, type, slot) = v
  BY <1>1, <1>2 DEF FromItem
<1>4. Base(v, w) /\ Frame(c, v) /\ ToSet(v.conds) = ToSet(c.conds) \ D
  <2>1. v = EndAll(c, D)
    BY <1>2 DEF RemoveEach
  <2> QED
    BY <2>1, EndAllBase
<1>5. \A d \in ToSet(c.conds) : d \in D <=> d.type = type /\ d.id = slot
  BY <1>1 DEF OfType
<1>6. Items(v) = Items(c) \ {<<type, slot>>}
  BY <1>4, <1>5 DEF Items, Pairs, Given
<1> QED
  BY <1>3, <1>4, <1>6
-----------------------------------------------------------------------------
(* What is worn takes effect.                                              *)

\* The conditions and the immunities that the items in force give.
OwnOver(E, w) == UNION {GivenBy(w[s]) : s \in E}
ImmuneOver(E, w) == UNION {Gives[w[s]].immune : s \in E}

\* The conditions of items are from one that is in force or are left of one that turned,
\* and so is what is suppressed.
GearOK(c, w) ==
  /\ Items(c) = OwnOver(c.enabled, w) \cup c.left.conds
  /\ c.suppressed \subseteq ImmuneOver(c.enabled, w) \cup c.left.immune

\* What no change of what is worn touches.
Kept(c, v) ==
  /\ DOMAIN v = FieldNames /\ v.online = c.online /\ v.worn = c.worn /\ v.strong = c.strong
  /\ v.mount = c.mount /\ v.tamed = c.tamed /\ v.zone = c.zone /\ v.wasMounted = c.wasMounted
  /\ v.stored = c.stored

\* A condition of an item tells from which slot it is.
LEMMA GivenByIs ==
  ASSUME NEW item, NEW g, g = Gives[item]
  PROVE  /\ GivenBy(item) = (IF g.hides THEN {<<"invisible", g.slot>>} ELSE {})
                              \cup (IF g.heals THEN {<<"regeneration", g.slot>>} ELSE {})
         /\ \A p \in GivenBy(item) : p[2] = g.slot
<1> DEFINE T == {t \in {"invisible", "regeneration"} :
                   IF t = "invisible" THEN Gives[item].hides ELSE Gives[item].heals}
<1>1. T = (IF g.hides THEN {"invisible"} ELSE {}) \cup (IF g.heals THEN {"regeneration"} ELSE {})
  OBVIOUS
<1>2. GivenBy(item) = {<<type, g.slot>> : type \in T}
  BY DEF GivenBy
<1> HIDE DEF T
<1> QED
  BY <1>1, <1>2

\* Those of one more slot, and of one less.
LEMMA OwnWith ==
  ASSUME NEW E, NEW slot, NEW w
  PROVE  /\ OwnOver(E \cup {slot}, w) = OwnOver(E, w) \cup GivenBy(w[slot])
         /\ ImmuneOver(E \cup {slot}, w) = ImmuneOver(E, w) \cup Gives[w[slot]].immune
<1>1. OwnOver(E \cup {slot}, w) = OwnOver(E, w) \cup GivenBy(w[slot])
  BY DEF OwnOver
<1>2. ImmuneOver(E \cup {slot}, w) = ImmuneOver(E, w) \cup Gives[w[slot]].immune
  BY DEF ImmuneOver
<1> QED
  BY <1>1, <1>2

\* Without a slot no condition of it is left.
LEMMA OwnWithout ==
  ASSUME ConditionsAssumption, NEW w, WornOK(w), NEW E, InForceOK(E, w), NEW slot, slot \in E,
         NEW F, F = E \ {slot}
  PROVE  /\ OwnOver(E, w) = OwnOver(F, w) \cup GivenBy(w[slot])
         /\ ImmuneOver(E, w) = ImmuneOver(F, w) \cup Gives[w[slot]].immune
         /\ \A p \in OwnOver(F, w) : p[2] # slot
<1>2. E = F \cup {slot}
  OBVIOUS
<1>3. /\ OwnOver(F \cup {slot}, w) = OwnOver(F, w) \cup GivenBy(w[slot])
      /\ ImmuneOver(F \cup {slot}, w) = ImmuneOver(F, w) \cup Gives[w[slot]].immune
  BY OwnWith
<1>4. ASSUME NEW s \in F, NEW p \in GivenBy(w[s]) PROVE p[2] # slot
  <2>1. Gives[w[s]].slot = s /\ s # slot
    BY DEF WornOK, InForceOK, ConditionsAssumption
  <2>2. PICK item, g : item = w[s] /\ g = Gives[item]
    OBVIOUS
  <2>3. \A x \in GivenBy(item) : x[2] = g.slot
    BY <2>2, GivenByIs
  <2> QED
    BY <2>1, <2>2, <2>3
<1>5. \A p \in OwnOver(F, w) : p[2] # slot
  BY <1>4 DEF OwnOver
<1> QED
  BY <1>2, <1>3, <1>5

\* Only what is in force counts.
LEMMA WornElse ==
  ASSUME NEW w, NEW v, NEW E \in SUBSET Slots, \A s \in E : v[s] = w[s]
  PROVE  /\ InForceOK(E, v) <=> InForceOK(E, w)
         /\ SpeedOver(E, v) = SpeedOver(E, w) /\ SkillOver(E, v) = SkillOver(E, w)
         /\ OwnOver(E, v) = OwnOver(E, w) /\ ImmuneOver(E, v) = ImmuneOver(E, w)
<1>1. InForceOK(E, v) <=> InForceOK(E, w)
  BY DEF InForceOK
<1>2. \A s \in E : Gives[v[s]] = Gives[w[s]]
  OBVIOUS
<1>3. SpeedOver(E, v) = SpeedOver(E, w)
  <2>1. [s \in Slots |-> IF s \in E THEN Gives[v[s]].speed ELSE 0]
          = [s \in Slots |-> IF s \in E THEN Gives[w[s]].speed ELSE 0]
    BY <1>2
  <2> QED
    BY <2>1 DEF SpeedOver
<1>4. SkillOver(E, v) = SkillOver(E, w)
  <2>1. [s \in Slots |-> IF s \in E THEN Gives[v[s]].skill ELSE 0]
          = [s \in Slots |-> IF s \in E THEN Gives[w[s]].skill ELSE 0]
    BY <1>2
  <2> QED
    BY <2>1 DEF SkillOver
<1>5. OwnOver(E, v) = OwnOver(E, w)
  BY DEF OwnOver
<1>6. ImmuneOver(E, v) = ImmuneOver(E, w)
  BY <1>2 DEF ImmuneOver
<1> QED
  BY <1>1, <1>3, <1>4, <1>5, <1>6

\* What the items give is counted, or counted no more.
LEMMA CountedBase ==
  ASSUME ConditionsAssumption, NEW c, NEW w, Base(c, w), NEW v, Kept(c, v),
         v.conds = c.conds, v.defends = c.defends, v.outfit = c.outfit,
         v.current = c.current, v.shown = c.shown, v.delayed = c.delayed, v.refused = c.refused,
         InForceOK(v.enabled, w), v.left.speed \in Int, v.left.skill \in Int,
         NEW more \in Int, NEW better \in Int, v.speed = c.speed + more, v.skill = c.skill + better,
         SpeedOver(v.enabled, w) + v.left.speed = SpeedOver(c.enabled, w) + c.left.speed + more,
         SkillOver(v.enabled, w) + v.left.skill = SkillOver(c.enabled, w) + c.left.skill + better
  PROVE  Base(v, w) /\ Items(v) = Items(c)
<1>1. /\ Mounted(v) <=> Mounted(c)
      /\ Invisible(v) <=> Invisible(c)
      /\ Has(v, "outfit") <=> Has(c, "outfit")
      /\ SpeedRidden(v) = SpeedRidden(c)
  BY DEF Mounted, Invisible, Has, SpeedRidden, Kept
<1>2. Sound(v)
  BY <1>1 DEF Base, Sound, MountOK, Kept
<1>3. SumsOK(v, w)
  <2>1. /\ c.speed = Speeds(ToSet(c.conds)) + SpeedOver(c.enabled, w) + SpeedRidden(c) + c.left.speed
        /\ c.skill = Skills(ToSet(c.conds)) + SkillOver(c.enabled, w) + c.left.skill
    BY DEF Base, SumsOK
  <2>2. /\ SpeedRidden(c) \in Int /\ Speeds(ToSet(c.conds)) \in Int /\ Skills(ToSet(c.conds)) \in Int
        /\ SpeedOver(c.enabled, w) \in Int /\ SkillOver(c.enabled, w) \in Int
        /\ c.left.speed \in Int /\ c.left.skill \in Int
    BY SumsAreInt
  <2>3. SpeedOver(v.enabled, w) \in Int /\ SkillOver(v.enabled, w) \in Int
    BY WornIs
  <2> QED
    BY <1>1, <2>1, <2>2, <2>3 DEF SumsOK
<1>4. DefenceOK(v) /\ LooksOK(v)
  BY <1>1 DEF Base, DefenceOK, LooksOK
<1>5. Items(v) = Items(c)
  BY DEF Items
<1> QED
  BY <1>2, <1>3, <1>4, <1>5 DEF Base

\* An item comes into force, with all that it gives.
LEMMA PutInForce ==
  ASSUME ConditionsAssumption, NEW c, NEW w, Base(c, w), GearOK(c, w), NEW slot \in Slots,
         slot \notin c.enabled, WornOK(w), w[slot] # Bare
  PROVE  LET v == UpdateAbilityConditions(c, w[slot], TRUE)
         IN  Base(v, w) /\ GearOK(v, w) /\ Kept(c, v) /\ v.enabled = c.enabled \cup {slot}
<1>a. PICK g : g = Gives[w[slot]]
  OBVIOUS
<1>0. /\ slot \in Slots /\ w[slot] \in Gear /\ g.speed \in Int /\ g.skill \in Int
      /\ g.slot = slot /\ g = Gives[w[slot]]
  BY <1>a DEF ConditionsAssumption, WornOK
<1>1. PICK b : b = [c EXCEPT !.enabled = @ \cup {slot}, !.skill = @ + 1 * g.skill,
                             !.speed = @ + 1 * g.speed, !.suppressed = @ \cup g.immune]
  OBVIOUS
<1>2. PICK h : h = IF g.hides THEN FromItem(b, TRUE, "invisible", slot) ELSE b
  OBVIOUS
<1>3. PICK v : v = IF g.heals THEN FromItem(h, TRUE, "regeneration", slot) ELSE h
  OBVIOUS
<1>4. UpdateAbilityConditions(c, w[slot], TRUE) = v
  BY <1>a, <1>0, <1>1, <1>2, <1>3 DEF UpdateAbilityConditions
<1>5. DOMAIN c = FieldNames /\ c.speed \in Int /\ c.skill \in Int /\ InForceOK(c.enabled, w)
  BY SumsAreInt DEF Base, Sound
<1>6. /\ DOMAIN b = FieldNames /\ b.enabled = c.enabled \cup {slot}
      /\ b.skill = c.skill + g.skill /\ b.speed = c.speed + g.speed
      /\ b.suppressed = c.suppressed \cup g.immune
      /\ \A x \in FieldNames \ {"enabled", "skill", "speed", "suppressed"} : b[x] = c[x]
  <2>1. PICK E, S, skill, speed :
              /\ E = c.enabled \cup {slot} /\ S = c.suppressed \cup g.immune
              /\ skill = c.skill + 1 * g.skill /\ speed = c.speed + 1 * g.speed
    OBVIOUS
  <2>2. b = [c EXCEPT !.enabled = E, !.skill = skill, !.speed = speed, !.suppressed = S]
    BY <1>1, <2>1
  <2>3. /\ DOMAIN b = FieldNames /\ b.enabled = E /\ b.skill = skill /\ b.speed = speed
        /\ b.suppressed = S
        /\ \A x \in FieldNames \ {"enabled", "skill", "speed", "suppressed"} : b[x] = c[x]
    BY <1>5, <2>2 DEF FieldNames
  <2>4. skill = c.skill + g.skill /\ speed = c.speed + g.speed
    BY <1>0, <1>5, <2>1
  <2> QED
    BY <2>1, <2>3, <2>4
<1>7. Kept(c, b)
  BY <1>6 DEF Kept, FieldNames
<1>8. /\ InForceOK(c.enabled \cup {slot}, w)
      /\ SpeedOver(c.enabled \cup {slot}, w) = SpeedOver(c.enabled, w) + g.speed
      /\ SkillOver(c.enabled \cup {slot}, w) = SkillOver(c.enabled, w) + g.skill
  <2>1. w[slot] \in Gear
    BY <1>0
  <2>2. /\ InForceOK(c.enabled \cup {slot}, w)
        /\ SpeedOver(c.enabled \cup {slot}, w) = SpeedOver(c.enabled, w) + Gives[w[slot]].speed
        /\ SkillOver(c.enabled \cup {slot}, w) = SkillOver(c.enabled, w) + Gives[w[slot]].skill
    BY <1>5, <2>1, WornWith
  <2> QED
    BY <1>0, <2>2
<1>9. Base(b, w) /\ Items(b) = Items(c)
  <2>1. /\ b.conds = c.conds /\ b.defends = c.defends /\ b.outfit = c.outfit
        /\ b.current = c.current /\ b.shown = c.shown /\ b.delayed = c.delayed
        /\ b.refused = c.refused /\ b.left = c.left
    BY <1>6 DEF FieldNames
  <2>2. /\ InForceOK(b.enabled, w)
        /\ SpeedOver(b.enabled, w) = SpeedOver(c.enabled, w) + g.speed
        /\ SkillOver(b.enabled, w) = SkillOver(c.enabled, w) + g.skill
    BY <1>6, <1>8
  <2>3. PICK more, better : more = g.speed /\ better = g.skill
    OBVIOUS
  <2>5. /\ SpeedOver(c.enabled, w) \in Int /\ SkillOver(c.enabled, w) \in Int
        /\ c.left.speed \in Int /\ c.left.skill \in Int
    BY SumsAreInt
  <2>4. /\ more \in Int /\ better \in Int /\ b.left.speed \in Int /\ b.left.skill \in Int
        /\ SpeedOver(b.enabled, w) + b.left.speed = SpeedOver(c.enabled, w) + c.left.speed + more
        /\ SkillOver(b.enabled, w) + b.left.skill = SkillOver(c.enabled, w) + c.left.skill + better
        /\ b.speed = c.speed + more /\ b.skill = c.skill + better
    BY <1>0, <1>6, <2>1, <2>2, <2>3, <2>5
  <2> QED
    BY <1>7, <2>1, <2>2, <2>4, CountedBase
<1>10. /\ OwnOver(b.enabled, w) = OwnOver(c.enabled, w) \cup GivenBy(w[slot])
       /\ ImmuneOver(b.enabled, w) = ImmuneOver(c.enabled, w) \cup g.immune
  <2>1. PICK E : E = c.enabled
    OBVIOUS
  <2>2. /\ OwnOver(E \cup {slot}, w) = OwnOver(E, w) \cup GivenBy(w[slot])
        /\ ImmuneOver(E \cup {slot}, w) = ImmuneOver(E, w) \cup Gives[w[slot]].immune
    BY OwnWith
  <2> QED
    BY <1>a, <1>6, <2>1, <2>2
<1>12. /\ Base(h, w) /\ Frame(b, h)
       /\ Items(h) = Items(c) \cup (IF g.hides THEN {<<"invisible", slot>>} ELSE {})
  <2>1. CASE g.hides
    <3>1. PICK type : type = "invisible"
      OBVIOUS
    <3>2. type \in ItemTypes /\ h = FromItem(b, TRUE, type, slot)
      BY <1>2, <2>1, <3>1 DEF ItemTypes
    <3>3. Base(h, w) /\ Frame(b, h) /\ Items(h) = Items(b) \cup {<<type, slot>>}
      BY <1>9, <3>2, AbilityBase
    <3> QED
      BY <1>9, <2>1, <3>1, <3>3
  <2>2. CASE ~g.hides
    BY <1>2, <1>9, <2>2, FrameSame DEF Base
  <2> QED
    BY <2>1, <2>2
<1>13. /\ Base(v, w) /\ Frame(h, v)
       /\ Items(v) = Items(h) \cup (IF g.heals THEN {<<"regeneration", slot>>} ELSE {})
  <2>1. CASE g.heals
    <3>1. PICK type : type = "regeneration"
      OBVIOUS
    <3>2. type \in ItemTypes /\ v = FromItem(h, TRUE, type, slot)
      BY <1>3, <2>1, <3>1 DEF ItemTypes
    <3>3. Base(v, w) /\ Frame(h, v) /\ Items(v) = Items(h) \cup {<<type, slot>>}
      BY <1>12, <3>2, AbilityBase
    <3> QED
      BY <2>1, <3>1, <3>3
  <2>2. CASE ~g.heals
    BY <1>3, <1>12, <2>2, FrameSame DEF Base
  <2> QED
    BY <2>1, <2>2
<1>14. Kept(c, v) /\ v.enabled = b.enabled /\ v.suppressed = b.suppressed /\ v.left = c.left
  <2>1. b.left = c.left
    BY <1>6 DEF FieldNames
  <2> QED
    BY <1>7, <1>12, <1>13, <2>1 DEF Kept, Frame
<1>15. Items(v) = Items(c) \cup GivenBy(w[slot])
  <2>1. PICK item : item = w[slot]
    OBVIOUS
  <2>2. GivenBy(item) = (IF g.hides THEN {<<"invisible", g.slot>>} ELSE {})
                          \cup (IF g.heals THEN {<<"regeneration", g.slot>>} ELSE {})
    BY <1>a, <2>1, GivenByIs
  <2> QED
    BY <1>0, <1>12, <1>13, <2>1, <2>2
<1>16. GearOK(v, w)
  BY <1>6, <1>10, <1>14, <1>15 DEF GearOK
<1> QED
  BY <1>4, <1>6, <1>13, <1>14, <1>16

\* What DeEquipItem does to one in force.
Cleared(c, item, kind) ==
  UpdateAbilityConditions([c EXCEPT !.left = Left(c, item, kind)], kind, FALSE)

\* An item goes out of force, or one that has turned into another kind does.
LEMMA OutOfForce ==
  ASSUME ConditionsAssumption, NEW c, NEW w, Base(c, w), GearOK(c, w), NEW slot \in Slots,
         slot \in c.enabled, WornOK(w), w[slot] # Bare, NEW kind \in Gear, Gives[kind].slot = slot,
         NEW z, z = Cleared(c, w[slot], kind)
  PROVE  Base(z, w) /\ GearOK(z, w) /\ Kept(c, z) /\ z.enabled = c.enabled \ {slot}
<1>a. PICK g, k : g = Gives[w[slot]] /\ k = Gives[kind]
  OBVIOUS
<1>l. PICK l, y : /\ l = Left(c, w[slot], kind) /\ y = [c EXCEPT !.left = l]
                 /\ z = UpdateAbilityConditions(y, kind, FALSE)
  BY DEF Cleared
<1>0. /\ slot \in Slots /\ w[slot] \in Gear /\ g.speed \in Int /\ g.skill \in Int
      /\ k.speed \in Int /\ k.skill \in Int /\ k.slot = slot
  <2>1. w[slot] \in Gear
    BY DEF WornOK
  <2>2. \A x \in Gear : Gives[x].speed \in Int /\ Gives[x].skill \in Int
    BY DEF ConditionsAssumption
  <2> QED
    BY <1>a, <2>1, <2>2
<1>1. PICK b : b = [c EXCEPT !.left = l, !.enabled = @ \ {slot}, !.skill = @ + (-1) * k.skill,
                             !.speed = @ + (-1) * k.speed, !.suppressed = @ \ k.immune]
  OBVIOUS
<1>2. PICK h : h = IF k.hides THEN FromItem(b, FALSE, "invisible", slot) ELSE b
  OBVIOUS
<1>3. PICK v : v = IF k.heals THEN FromItem(h, FALSE, "regeneration", slot) ELSE h
  OBVIOUS
<1>5. DOMAIN c = FieldNames /\ c.speed \in Int /\ c.skill \in Int /\ InForceOK(c.enabled, w)
  BY SumsAreInt DEF Base, Sound
<1>4. z = v
  <2>2. [y EXCEPT !.enabled = @ \ {slot}, !.skill = @ + (-1) * k.skill,
                  !.speed = @ + (-1) * k.speed, !.suppressed = @ \ k.immune] = b
    BY <1>1, <1>5, <1>l DEF FieldNames
  <2> QED
    BY <1>a, <1>l, <1>0, <1>2, <1>3, <2>2 DEF UpdateAbilityConditions
<1>6. /\ DOMAIN b = FieldNames /\ b.enabled = c.enabled \ {slot}
      /\ b.skill = c.skill - k.skill /\ b.speed = c.speed - k.speed
      /\ b.suppressed = c.suppressed \ k.immune /\ b.left = l
      /\ \A x \in FieldNames \ {"enabled", "skill", "speed", "suppressed", "left"} : b[x] = c[x]
  <2>1. PICK E, S, skill, speed :
              /\ E = c.enabled \ {slot} /\ S = c.suppressed \ k.immune
              /\ skill = c.skill + (-1) * k.skill /\ speed = c.speed + (-1) * k.speed
    OBVIOUS
  <2>2. b = [c EXCEPT !.left = l, !.enabled = E, !.skill = skill, !.speed = speed, !.suppressed = S]
    BY <1>1, <2>1
  <2>3. /\ DOMAIN b = FieldNames /\ b.enabled = E /\ b.skill = skill /\ b.speed = speed
        /\ b.suppressed = S /\ b.left = l
        /\ \A x \in FieldNames \ {"enabled", "skill", "speed", "suppressed", "left"} : b[x] = c[x]
    BY <1>5, <2>2 DEF FieldNames
  <2>4. skill = c.skill - k.skill /\ speed = c.speed - k.speed
    BY <1>0, <1>5, <2>1
  <2> QED
    BY <2>1, <2>3, <2>4
<1>7. Kept(c, b)
  BY <1>6 DEF Kept, FieldNames
<1>b. /\ l.speed = c.left.speed + g.speed - k.speed /\ l.skill = c.left.skill + g.skill - k.skill
      /\ l.immune = (c.left.immune \cup g.immune) \ k.immune
      /\ l.conds = (c.left.conds \cup GivenBy(w[slot])) \ GivenBy(kind)
  BY <1>a, <1>l DEF Left
<1>8. /\ InForceOK(c.enabled \ {slot}, w)
      /\ SpeedOver(c.enabled \ {slot}, w) = SpeedOver(c.enabled, w) - g.speed
      /\ SkillOver(c.enabled \ {slot}, w) = SkillOver(c.enabled, w) - g.skill
      /\ SpeedOver(c.enabled, w) \in Int /\ SkillOver(c.enabled, w) \in Int
  BY <1>a, <1>0, <1>5, WornWithout
<1>9. Base(b, w) /\ Items(b) = Items(c)
  <2>1. /\ b.conds = c.conds /\ b.defends = c.defends /\ b.outfit = c.outfit
        /\ b.current = c.current /\ b.shown = c.shown /\ b.delayed = c.delayed
        /\ b.refused = c.refused
    BY <1>6 DEF FieldNames
  <2>2. PICK more, better : more = -k.speed /\ better = -k.skill
    OBVIOUS
  <2>4. c.left.speed \in Int /\ c.left.skill \in Int
    BY SumsAreInt
  <2>3. /\ InForceOK(b.enabled, w) /\ more \in Int /\ better \in Int
        /\ b.left.speed \in Int /\ b.left.skill \in Int
        /\ SpeedOver(b.enabled, w) + b.left.speed = SpeedOver(c.enabled, w) + c.left.speed + more
        /\ SkillOver(b.enabled, w) + b.left.skill = SkillOver(c.enabled, w) + c.left.skill + better
        /\ b.speed = c.speed + more /\ b.skill = c.skill + better
    BY <1>0, <1>5, <1>6, <1>8, <1>b, <2>2, <2>4
  <2> QED
    BY <1>7, <2>1, <2>3, CountedBase
<1>11. /\ Base(h, w) /\ Frame(b, h)
       /\ Items(h) = Items(c) \ (IF k.hides THEN {<<"invisible", slot>>} ELSE {})
  <2>1. CASE k.hides
    <3>1. PICK type : type = "invisible"
      OBVIOUS
    <3>2. type \in ItemTypes /\ h = FromItem(b, FALSE, type, slot)
      BY <1>2, <2>1, <3>1 DEF ItemTypes
    <3>3. Base(h, w) /\ Frame(b, h) /\ Items(h) = Items(b) \ {<<type, slot>>}
      BY <1>9, <3>2, NoAbilityBase
    <3> QED
      BY <1>9, <2>1, <3>1, <3>3
  <2>2. CASE ~k.hides
    BY <1>2, <1>9, <2>2, FrameSame DEF Base
  <2> QED
    BY <2>1, <2>2
<1>12. /\ Base(v, w) /\ Frame(h, v)
       /\ Items(v) = Items(h) \ (IF k.heals THEN {<<"regeneration", slot>>} ELSE {})
  <2>1. CASE k.heals
    <3>1. PICK type : type = "regeneration"
      OBVIOUS
    <3>2. type \in ItemTypes /\ v = FromItem(h, FALSE, type, slot)
      BY <1>3, <2>1, <3>1 DEF ItemTypes
    <3>3. Base(v, w) /\ Frame(h, v) /\ Items(v) = Items(h) \ {<<type, slot>>}
      BY <1>11, <3>2, NoAbilityBase
    <3> QED
      BY <2>1, <3>1, <3>3
  <2>2. CASE ~k.heals
    BY <1>3, <1>11, <2>2, FrameSame DEF Base
  <2> QED
    BY <2>1, <2>2
<1>13. Kept(c, v) /\ v.enabled = b.enabled /\ v.suppressed = b.suppressed /\ v.left = l
  BY <1>6, <1>7, <1>11, <1>12 DEF Kept, Frame
<1>14. /\ Items(v) = Items(c) \ GivenBy(kind)
       /\ \A p \in GivenBy(kind) : p[2] = slot
  <2>1. /\ GivenBy(kind) = (IF k.hides THEN {<<"invisible", k.slot>>} ELSE {})
                          \cup (IF k.heals THEN {<<"regeneration", k.slot>>} ELSE {})
        /\ \A p \in GivenBy(kind) : p[2] = k.slot
    BY <1>a, GivenByIs
  <2> QED
    BY <1>0, <1>11, <1>12, <2>1
<1>15. GearOK(v, w)
  <2>1. PICK E, F : E = c.enabled /\ F = E \ {slot}
    OBVIOUS
  <2>2. /\ OwnOver(E, w) = OwnOver(F, w) \cup GivenBy(w[slot])
        /\ ImmuneOver(E, w) = ImmuneOver(F, w) \cup Gives[w[slot]].immune
        /\ \A p \in OwnOver(F, w) : p[2] # slot
    <3>1. slot \in E /\ InForceOK(E, w)
      BY <2>1 DEF Base
    <3>2. F = E \ {slot}
      BY <2>1
    <3> QED
      BY <3>1, <3>2, OwnWithout
  <2>3. v.enabled = F /\ v.suppressed = c.suppressed \ k.immune
    BY <1>6, <1>13, <2>1
  <2>4. Items(v) = OwnOver(F, w) \cup l.conds
    <3>1. Items(c) = OwnOver(F, w) \cup GivenBy(w[slot]) \cup c.left.conds
      BY <2>1, <2>2 DEF GearOK
    <3>2. \A p \in OwnOver(F, w) : p \notin GivenBy(kind)
      BY <1>14, <2>2
    <3> QED
      BY <1>b, <1>14, <3>1, <3>2
  <2>5. v.suppressed \subseteq ImmuneOver(F, w) \cup l.immune
    <3>1. c.suppressed \subseteq ImmuneOver(F, w) \cup g.immune \cup c.left.immune
      BY <1>a, <2>1, <2>2 DEF GearOK
    <3> QED
      BY <1>b, <2>3, <3>1
  <2> QED
    BY <1>13, <2>3, <2>4, <2>5 DEF GearOK
<1> QED
  BY <1>4, <1>6, <1>12, <1>13, <1>15

\* What holds of a player between two tasks.
Whole(c, w) == Base(c, w) /\ GearOK(c, w) /\ WornOK(w)

\* A change of conditions that leaves those of items alone keeps it.
LEMMA FrameWhole ==
  ASSUME NEW c, NEW w, Whole(c, w), NEW v, Base(v, w), Frame(c, v), Items(v) = Items(c)
  PROVE  Whole(v, w) /\ Kept(c, v)
<1> QED
  BY DEF Whole, GearOK, Frame, Kept

\* It is enough to keep what is kept step by step.
LEMMA KeptTwice ==
  ASSUME NEW c, NEW v, NEW z, Kept(c, v), Kept(v, z)
  PROVE  Kept(c, z)
<1> QED
  BY DEF Kept

\* And nothing that changes nothing breaks it.
LEMMA KeptSame ==
  ASSUME NEW c, NEW w, Whole(c, w)
  PROVE  Kept(c, c)
<1> QED
  BY DEF Kept, Whole, Base, Sound

\* What Whole needs when only other fields have changed.
LEMMA OthersWhole ==
  ASSUME NEW c, NEW w, Whole(c, w), NEW v, DOMAIN v = FieldNames,
         v.conds = c.conds, v.speed = c.speed, v.skill = c.skill, v.defends = c.defends,
         v.enabled = c.enabled, v.suppressed = c.suppressed, v.outfit = c.outfit,
         v.current = c.current, v.shown = c.shown, v.mount = c.mount,
         v.tamed \in SUBSET Mounts, v.delayed \in Seq(Events), v.stored \in Seq(Spelled),
         v.left = c.left, v.refused = c.refused
  PROVE  Whole(v, w)
<1>1. Base(v, w)
  BY OthersBase DEF Whole
<1>2. GearOK(v, w)
  BY DEF Whole, GearOK, Items
<1> QED
  BY <1>1, <1>2 DEF Whole

\* What is worn may change where nothing is in force.
LEMMA RewornWhole ==
  ASSUME ConditionsAssumption, NEW c, NEW w, Whole(c, w), NEW v, WornOK(v),
         \A s \in c.enabled : v[s] = w[s]
  PROVE  Whole(c, v)
<1>1. c.enabled \in SUBSET Slots
  BY DEF Whole, Base, InForceOK
<1>2. /\ InForceOK(c.enabled, v) <=> InForceOK(c.enabled, w)
      /\ SpeedOver(c.enabled, v) = SpeedOver(c.enabled, w)
      /\ SkillOver(c.enabled, v) = SkillOver(c.enabled, w)
      /\ OwnOver(c.enabled, v) = OwnOver(c.enabled, w)
      /\ ImmuneOver(c.enabled, v) = ImmuneOver(c.enabled, w)
  BY <1>1, WornElse
<1>3. Base(c, v)
  BY <1>2 DEF Whole, Base, SumsOK
<1>4. GearOK(c, v)
  BY <1>2 DEF Whole, GearOK
<1> QED
  BY <1>3, <1>4 DEF Whole

\* Only what the player wears is new.
LEMMA RewornOnly ==
  ASSUME NEW c, NEW w, Whole(c, w), NEW worn, NEW b, b = [c EXCEPT !.worn = worn]
  PROVE  Whole(b, w) /\ b.worn = worn /\ b.enabled = c.enabled
<1>1. /\ DOMAIN c = FieldNames /\ c.delayed \in Seq(Events)
      /\ c.tamed \in SUBSET Mounts /\ c.stored \in Seq(Spelled)
  BY DEF Whole, Base, Sound, MountOK
<1>2. DOMAIN b = FieldNames /\ b.worn = worn /\ \A x \in FieldNames \ {"worn"} : b[x] = c[x]
  BY <1>1 DEF FieldNames
<1>3. /\ b.conds = c.conds /\ b.speed = c.speed /\ b.skill = c.skill
      /\ b.defends = c.defends /\ b.enabled = c.enabled
      /\ b.suppressed = c.suppressed /\ b.outfit = c.outfit
      /\ b.current = c.current /\ b.shown = c.shown /\ b.mount = c.mount
      /\ b.tamed = c.tamed /\ b.stored = c.stored /\ b.delayed = c.delayed
      /\ b.left = c.left /\ b.refused = c.refused
  BY <1>2 DEF FieldNames
<1> QED
  BY <1>1, <1>2, <1>3, OthersWhole

\* DeEquipItem.
LEMMA DeEquipItemWhole ==
  ASSUME ConditionsAssumption, NEW c, NEW w, Whole(c, w), NEW slot \in Slots, w[slot] # Bare,
         NEW kind \in Gear, Gives[kind].slot = slot
  PROVE  LET v == DeEquipItem(c, w[slot], kind)
         IN  Whole(v, w) /\ Kept(c, v) /\ v.enabled = c.enabled \ {slot}
<1>1. Gives[w[slot]].slot = slot
  BY DEF Whole, WornOK
<1>2. CASE slot \notin c.enabled
  <2>1. DeEquipItem(c, w[slot], kind) = c
    BY <1>1, <1>2 DEF DeEquipItem
  <2> QED
    BY <1>2, <2>1, KeptSame
<1>3. CASE slot \in c.enabled
  <2>1. PICK v : v = Cleared(c, w[slot], kind)
    OBVIOUS
  <2>2. DeEquipItem(c, w[slot], kind) = v
    BY <1>1, <1>3, <2>1 DEF DeEquipItem, Cleared
  <2>3. Base(c, w) /\ GearOK(c, w) /\ WornOK(w)
    BY DEF Whole
  <2>4. Base(v, w) /\ GearOK(v, w) /\ Kept(c, v) /\ v.enabled = c.enabled \ {slot}
    BY <1>3, <2>1, <2>3, OutOfForce
  <2> QED
    BY <2>2, <2>3, <2>4 DEF Whole
<1> QED
  BY <1>2, <1>3

\* What is put on takes effect.
LEMMA PutInForceWhole ==
  ASSUME ConditionsAssumption, NEW c, NEW w, Whole(c, w), NEW slot \in Slots, w[slot] # Bare,
         slot \notin c.enabled
  PROVE  LET v == UpdateAbilityConditions(c, w[slot], TRUE)
         IN  Whole(v, w) /\ Kept(c, v) /\ v.enabled = c.enabled \cup {slot}
<1>1. Base(c, w) /\ GearOK(c, w) /\ WornOK(w)
  BY DEF Whole
<1>2. PICK v : v = UpdateAbilityConditions(c, w[slot], TRUE)
  OBVIOUS
<1>3. Base(v, w) /\ GearOK(v, w) /\ Kept(c, v) /\ v.enabled = c.enabled \cup {slot}
  BY <1>1, <1>2, PutInForce
<1> QED
  BY <1>1, <1>2, <1>3 DEF Whole

\* What turns as it is put on takes effect, is taken off and is another kind.
LEMMA PutIntoWhole ==
  ASSUME ConditionsAssumption, NEW c, Whole(c, c.worn), NEW slot \in Slots, c.worn[slot] # Bare,
         slot \notin c.enabled, NEW kind \in Gear, Gives[kind].slot = slot
  PROVE  LET v == PutInto(c, c.worn[slot], kind)
         IN  Whole(v, v.worn) /\ v.worn[slot] = kind /\ slot \notin v.enabled
<1>1. PICK w, item : w = c.worn /\ item = w[slot]
  OBVIOUS
<1>2. WornOK(w) /\ item \in Gear /\ Gives[item].slot = slot
  BY <1>1 DEF Whole, WornOK
<1>3. PICK b : b = UpdateAbilityConditions(c, w[slot], TRUE)
  OBVIOUS
<1>4. Whole(b, w) /\ Kept(c, b)
  BY <1>1, <1>3, PutInForceWhole
<1>5. PICK d : d = DeEquipItem(b, w[slot], item)
  OBVIOUS
<1>6. Whole(d, w) /\ Kept(b, d) /\ d.enabled = b.enabled \ {slot}
  BY <1>1, <1>2, <1>4, <1>5, DeEquipItemWhole
<1>7. PICK worn : worn = [w EXCEPT ![slot] = kind]
  OBVIOUS
<1>8. PICK v : v = [d EXCEPT !.worn = worn]
  OBVIOUS
<1>9. d.worn = w
  BY <1>1, <1>4, <1>6 DEF Kept
<1>10. PutInto(c, c.worn[slot], kind) = v
  BY <1>1, <1>2, <1>3, <1>5, <1>7, <1>8, <1>9 DEF PutInto
<1>11. Whole(v, w) /\ v.worn = worn /\ v.enabled = d.enabled
  BY <1>6, <1>8, RewornOnly
<1>12. WornOK(worn) /\ worn[slot] = kind
  BY <1>2, <1>7 DEF WornOK
<1>13. \A s \in v.enabled : worn[s] = w[s]
  BY <1>2, <1>6, <1>7, <1>11 DEF Whole, Base, InForceOK, WornOK
<1>14. Whole(v, worn)
  BY <1>11, <1>12, <1>13, RewornWhole
<1> QED
  BY <1>6, <1>10, <1>11, <1>12, <1>14

\* EquipItem of what is in a slot.
LEMMA EquipItemWhole ==
  ASSUME ConditionsAssumption, NEW c, Whole(c, c.worn), NEW slot \in Slots, c.worn[slot] # Bare
  PROVE  LET v == EquipItem(c, c.worn[slot]) IN Whole(v, v.worn)
<1>1. PICK item, kind : item = c.worn[slot] /\ kind = Gives[item].on
  OBVIOUS
<1>2. item \in Gear /\ Gives[item].slot = slot
  BY <1>1 DEF Whole, WornOK
<1>3. CASE slot \in c.enabled \/ ~MayWear(c, item)
  <2>1. EquipItem(c, item) = c
    BY <1>2, <1>3 DEF EquipItem
  <2> QED
    BY <1>1, <2>1
<1>4. CASE slot \notin c.enabled /\ MayWear(c, item) /\ kind = Bare
  <2>1. EquipItem(c, item) = UpdateAbilityConditions(c, item, TRUE)
    BY <1>1, <1>2, <1>4 DEF EquipItem
  <2>2. PICK w, v : w = c.worn /\ v = UpdateAbilityConditions(c, w[slot], TRUE)
    OBVIOUS
  <2>3. Whole(v, w) /\ Kept(c, v)
    <3>1. Whole(c, w) /\ w[slot] # Bare /\ slot \notin c.enabled
      BY <1>4, <2>2
    <3> QED
      BY <2>2, <3>1, PutInForceWhole
  <2>4. v.worn = w
    BY <2>2, <2>3 DEF Kept
  <2> QED
    BY <1>1, <2>1, <2>2, <2>3, <2>4
<1>5. CASE slot \notin c.enabled /\ MayWear(c, item) /\ kind # Bare
  <2>1. kind \in Gear /\ Gives[kind].slot = slot
    BY <1>1, <1>2, <1>5 DEF ConditionsAssumption
  <2>2. PICK b : b = PutInto(c, c.worn[slot], kind)
    OBVIOUS
  <2>3. Whole(b, b.worn) /\ b.worn[slot] = kind /\ slot \notin b.enabled
    BY <1>5, <2>1, <2>2, PutIntoWhole
  <2>4. EquipItem(c, item) = IF MayWear(b, kind) THEN UpdateAbilityConditions(b, kind, TRUE) ELSE b
    BY <1>1, <1>2, <1>5, <2>2 DEF EquipItem
  <2>5. PICK w, v : w = b.worn /\ v = UpdateAbilityConditions(b, w[slot], TRUE)
    OBVIOUS
  <2>6. Whole(b, w) /\ w[slot] # Bare /\ slot \notin b.enabled
    BY <2>1, <2>3, <2>5 DEF ConditionsAssumption
  <2>7. Whole(v, w) /\ Kept(b, v)
    BY <2>5, <2>6, PutInForceWhole
  <2>8. v.worn = w
    BY <2>5, <2>7 DEF Kept
  <2> QED
    BY <1>1, <2>3, <2>4, <2>5, <2>7, <2>8
<1> QED
  BY <1>3, <1>4, <1>5

\* What is worn takes effect, slot by slot.
LEMMA WearAllWhole ==
  ASSUME ConditionsAssumption, NEW c, Whole(c, c.worn)
  PROVE  LET v == WearAll(c) IN Whole(v, v.worn)
<1> DEFINE Worn(f, n) == IF n = 0 THEN c ELSE Wear(f[n - 1], n)
<1>1. \A f, n : Worn(f, n) = Turned("wear", <<>>, 0, c, f, n)
  BY DEF Turned, Turn
<1>2. \E f : f = [n \in 0..10 |-> Worn(f, n)]
  <2>1. PICK f : Turns("wear", <<>>, 0, c, f, 10)
    BY TurnsExist
  <2>2. f = [n \in 0..10 |-> Worn(f, n)]
    <3> HIDE DEF Worn
    <3> QED
      BY <1>1, <2>1 DEF Turns
  <2> QED
    BY <2>2
<1>3. PICK f : f = CHOOSE g : g = [n \in 0..10 |-> Worn(g, n)]
  OBVIOUS
<1>4. f = [n \in 0..10 |-> Worn(f, n)]
  BY <1>2, <1>3
<1>5. WearAll(c) = f[10]
  BY <1>3 DEF WearAll
<1>6. f[0] = c /\ \A n \in 1..10 : f[n] = Wear(f[n - 1], n)
  BY <1>4
<1> DEFINE Good(n) == Whole(f[n], f[n].worn)
           P == {n \in Nat : n <= 10 => Good(n)}
<1>7. 0 \in P
  BY <1>6
<1>8. ASSUME NEW n \in P PROVE n + 1 \in P
  <2> SUFFICES ASSUME n + 1 <= 10 PROVE Good(n + 1)
    OBVIOUS
  <2>1. n \in Nat /\ Good(n) /\ n + 1 \in 1..10 /\ (n + 1) - 1 = n
    OBVIOUS
  <2>2. PICK b, s : b = f[n] /\ s = n + 1
    OBVIOUS
  <2>3. Whole(b, b.worn) /\ s \in Slots /\ f[s] = Wear(b, s)
    BY <1>6, <2>1, <2>2 DEF Slots
  <2>4. CASE b.worn[s] = Bare
    <3>1. f[s] = b
      BY <2>3, <2>4 DEF Wear
    <3> QED
      BY <2>2, <2>3, <3>1
  <2>5. CASE b.worn[s] # Bare
    <3>1. f[s] = EquipItem(b, b.worn[s])
      BY <2>3, <2>5 DEF Wear
    <3>2. PICK v : v = EquipItem(b, b.worn[s])
      OBVIOUS
    <3>3. Whole(v, v.worn)
      BY <2>3, <2>5, <3>2, EquipItemWhole
    <3> QED
      BY <2>2, <3>1, <3>2, <3>3
  <2> QED
    BY <2>4, <2>5
<1>9. P = Nat
  <2>1. P \subseteq Nat
    OBVIOUS
  <2> HIDE DEF P
  <2> QED
    BY <1>7, <1>8, <2>1, Counting
<1>10. Good(10)
  <2>1. 10 \in P
    BY <1>9
  <2> HIDE DEF Good
  <2> QED
    BY <2>1
<1> QED
  BY <1>5, <1>10
-----------------------------------------------------------------------------
(* Dispelling, and coming back.                                            *)

\* One of no item is altered, but not in what it gives.
LEMMA AlteredWhole ==
  ASSUME ConditionsAssumption, NEW c, NEW w, Whole(c, w), NEW i \in DOMAIN c.conds,
         c.conds[i].id <= Combat, NEW e \in Condition, Key(e) = Key(c.conds[i]),
         e.noDefense = c.conds[i].noDefense, e.val = c.conds[i].val, NEW v,
         v = [c EXCEPT !.conds = [@ EXCEPT ![i] = e]]
  PROVE  Whole(v, w) /\ Kept(c, v)
<1>1. PICK d : d = c.conds[i]
  OBVIOUS
<1>2. DOMAIN c = FieldNames /\ Keyed(c.conds) /\ ItemShaped(ToSet(c.conds)) /\ Base(c, w)
  BY DEF Whole, Base, Sound
<1>3. d \in ToSet(c.conds) /\ d \in Condition
  <2>1. d \in ToSet(c.conds)
    BY <1>1 DEF ToSet
  <2> QED
    BY <1>2, <2>1, KeyedIs
<1>4. /\ e \in Condition /\ Key(e) = Key(d) /\ e.type = d.type /\ e.id = d.id
      /\ e.noDefense = d.noDefense /\ Hastens(e) = Hastens(d) /\ Sharpens(e) = Sharpens(d)
  <2>1. e.type = d.type /\ e.id = d.id
    BY <1>1 DEF Key
  <2> QED
    BY <1>1, <2>1 DEF Hastens, Sharpens
<1>5. PICK q : q = [c.conds EXCEPT ![i] = e]
  OBVIOUS
<1>6. /\ Keyed(q) /\ ToSet(q) = (ToSet(c.conds) \ {d}) \cup {e}
      /\ e \notin ToSet(c.conds) \ {d}
  BY <1>1, <1>2, <1>4, <1>5, KeyedInstead
<1>7. v = [c EXCEPT !.conds = q]
  BY <1>1, <1>5
<1>8. DOMAIN v = FieldNames /\ v.conds = q /\ \A x \in FieldNames \ {"conds"} : v[x] = c[x]
  BY <1>2, <1>7 DEF FieldNames
<1>9. Frame(c, v)
  BY <1>8 DEF Frame, FieldNames
<1>10. /\ v.delayed = c.delayed /\ v.outfit = c.outfit /\ v.speed = c.speed /\ v.skill = c.skill
       /\ v.defends = c.defends /\ v.current = c.current /\ v.shown = c.shown
       /\ v.refused = c.refused
  BY <1>8 DEF FieldNames
<1>11. d.id <= Combat /\ e.id <= Combat /\ d.id \in Int
  BY <1>1, <1>3, <1>4 DEF Condition
<1>12. ItemShaped(ToSet(v.conds)) /\ Items(v) = Items(c)
  <2>1. ~(d.id > Combat) /\ ~(e.id > Combat)
    BY <1>4, <1>11 DEF Combat
  <2>2. ItemShaped(ToSet(v.conds))
    BY <1>2, <1>6, <1>8, <2>1 DEF ItemShaped
  <2>3. Given(ToSet(v.conds)) = Given(ToSet(c.conds))
    BY <1>6, <1>8, <2>1 DEF Given
  <2> QED
    BY <2>2, <2>3 DEF Items, Pairs
<1>13. /\ Speeds(ToSet(v.conds)) = Speeds(ToSet(c.conds)) + 0
       /\ Skills(ToSet(v.conds)) = Skills(ToSet(c.conds)) + 0
  <2>1. PICK C, D : C = ToSet(c.conds) /\ D = C \ {d}
    OBVIOUS
  <2>2. C \in SUBSET Condition /\ IsFiniteSet(C) /\ D \in SUBSET Condition /\ IsFiniteSet(D)
    BY <1>2, <2>1, KeyedIs, FS_Subset
  <2>3. /\ Speeds(D) = Speeds(C) - Hastens(d) /\ Skills(D) = Skills(C) - Sharpens(d)
        /\ Speeds(C) \in Int /\ Skills(C) \in Int /\ Hastens(d) \in Int /\ Sharpens(d) \in Int
    BY <1>3, <2>1, <2>2, GivenWithout
  <2>4. e \notin D
    BY <1>6, <2>1
  <2>5. Speeds(D \cup {e}) = Speeds(D) + Hastens(e) /\ Skills(D \cup {e}) = Skills(D) + Sharpens(e)
    BY <1>4, <2>2, <2>4, GivenWith
  <2>6. ToSet(v.conds) = D \cup {e}
    BY <1>6, <1>8, <2>1
  <2>7. Hastens(e) = Hastens(d) /\ Sharpens(e) = Sharpens(d)
    BY <1>4
  <2>8. Speeds(D \cup {e}) = Speeds(C) + 0 /\ Skills(D \cup {e}) = Skills(C) + 0
    BY <2>3, <2>5, <2>7
  <2> QED
    BY <2>1, <2>6, <2>8
<1>14. \A t : Has(v, t) <=> Has(c, t)
  BY <1>3, <1>4, <1>6, <1>8, HasIs
<1>15. DefenceOK(v)
  BY <1>2, <1>4, <1>6, <1>8, <1>10 DEF Base, DefenceOK
<1>16. LooksOK(v)
  <2>1. LooksOK(c) /\ (Invisible(v) <=> Invisible(c))
    BY <1>2, <1>14 DEF Base, Invisible
  <2> QED
    BY <1>10, <1>14, <2>1 DEF LooksOK
<1>17. Base(v, w)
  <2>1. /\ v.speed = c.speed + 0 /\ v.skill = c.skill + 0 /\ 0 \in Int /\ v.defends \in BOOLEAN
        /\ Keyed(v.conds)
    <3>1. c.speed \in Int /\ c.skill \in Int /\ c.defends \in BOOLEAN
      BY <1>2, SumsAreInt DEF Base, Sound
    <3> QED
      BY <1>6, <1>8, <1>10, <3>1
  <2> QED
    BY <1>2, <1>9, <1>10, <1>12, <1>13, <1>15, <1>16, <2>1, CondsBase
<1> QED
  BY <1>9, <1>12, <1>17, FrameWhole

\* One is left to run out.
LEMMA ShortenedWhole ==
  ASSUME ConditionsAssumption, NEW c, NEW w, Whole(c, w), NEW i \in DOMAIN c.conds,
         c.conds[i].id <= Combat, NEW v,
         v = [c EXCEPT !.conds = [@ EXCEPT ![i] = Shortened(c.conds[i])]]
  PROVE  Whole(v, w) /\ Kept(c, v)
<1>1. PICK d, e : d = c.conds[i] /\ e = [d EXCEPT !.forever = FALSE, !.live = TRUE]
  OBVIOUS
<1>2. d \in Condition
  <2>1. d \in ToSet(c.conds) /\ Keyed(c.conds)
    BY <1>1 DEF ToSet, Whole, Base, Sound
  <2> QED
    BY <2>1, KeyedIs
<1>3. /\ e \in Condition /\ e.type = d.type /\ e.id = d.id /\ e.sub = d.sub
      /\ e.noDefense = d.noDefense /\ e.val = d.val
  BY <1>1, <1>2 DEF Condition
<1>4. Key(e) = Key(d) /\ Shortened(d) = e
  BY <1>1, <1>3 DEF Key, Shortened
<1>5. /\ v = [c EXCEPT !.conds = [@ EXCEPT ![i] = e]] /\ Key(e) = Key(c.conds[i])
      /\ e.noDefense = c.conds[i].noDefense /\ e.val = c.conds[i].val
  BY <1>1, <1>3, <1>4
<1> QED
  BY <1>3, <1>5, AlteredWhole

\* One is removed by name or by a spell.
LEMMA RemoveOneWhole ==
  ASSUME ConditionsAssumption, NEW c, NEW w, Whole(c, w), NEW d, ~(d.id > Combat), NEW walking
  PROVE  LET v == RemoveOne(c, d, walking) IN Whole(v, w) /\ Kept(c, v)
<1>0. PICK type, D : type = d.type /\ D = {d}
  OBVIOUS
<1>1. PICK v : v = RemoveEach(c, type, D, walking)
  OBVIOUS
<1>2. /\ Base(v, w) /\ Frame(c, v)
      /\ ToSet(v.conds) = ToSet(c.conds) \ D \/ v.conds = c.conds
  <2>1. Base(c, w)
    BY DEF Whole
  <2>2. /\ Base(v, w) /\ Frame(c, v)
        /\ ToSet(v.conds) = ToSet(c.conds) \ D \/ (type = "paralyze" /\ walking /\ v.conds = c.conds)
    BY <1>1, <2>1, RemoveEachBase
  <2> QED
    BY <2>2
<1>3. Items(v) = Items(c)
  <2>1. Given(ToSet(v.conds)) = Given(ToSet(c.conds))
    BY <1>0, <1>2 DEF Given
  <2> QED
    BY <2>1 DEF Items, Pairs
<1>4. Whole(v, w) /\ Kept(c, v)
  BY <1>2, <1>3, FrameWhole
<1> QED
  BY <1>0, <1>1, <1>4 DEF RemoveOne

\* removeCombatCondition of one.
LEMMA DispelledWhole ==
  ASSUME ConditionsAssumption, NEW c, NEW w, Whole(c, w), NEW d \in Condition, NEW busy, NEW walking
  PROVE  LET v == Dispelled(c, d, busy, walking) IN Whole(v, w) /\ Kept(c, v)
<1>1. CASE d.id > Combat
  <2>1. Dispelled(c, d, busy, walking) = c
    BY <1>1 DEF Dispelled
  <2> QED
    BY <2>1, KeptSame
<1>2. CASE ~(d.id > Combat) /\ ~busy
  <2>1. Dispelled(c, d, busy, walking) = RemoveOne(c, d, walking)
    BY <1>2 DEF Dispelled
  <2> QED
    BY <1>2, <2>1, RemoveOneWhole
<1>3. CASE ~(d.id > Combat) /\ busy
  <2>1. PICK q : q = [i \in DOMAIN c.conds |-> IF c.conds[i] = d THEN Shortened(d) ELSE c.conds[i]]
    OBVIOUS
  <2>2. PICK v : v = [c EXCEPT !.conds = q]
    OBVIOUS
  <2>3. Dispelled(c, d, busy, walking) = v
    BY <1>3, <2>1, <2>2 DEF Dispelled
  <2>4. DOMAIN c = FieldNames /\ Keyed(c.conds)
    BY DEF Whole, Base, Sound
  <2>5. c.conds \in Seq(Condition) /\ Different(c.conds)
    BY <2>4 DEF Keyed
  <2>6. CASE \E i \in DOMAIN c.conds : c.conds[i] = d
    <3>1. PICK i \in DOMAIN c.conds : c.conds[i] = d
      BY <2>6
    <3>2. \A j \in DOMAIN c.conds : c.conds[j] = d <=> j = i
      BY <2>5, <3>1 DEF Different
    <3>3. q = [c.conds EXCEPT ![i] = Shortened(d)]
      BY <2>1, <2>5, <3>1, <3>2
    <3>4. v = [c EXCEPT !.conds = [@ EXCEPT ![i] = Shortened(c.conds[i])]]
      BY <2>2, <3>1, <3>3
    <3>5. c.conds[i].id <= Combat
      BY <1>3, <3>1 DEF Condition, Combat
    <3> QED
      BY <2>3, <3>4, <3>5, ShortenedWhole
  <2>7. CASE ~ \E i \in DOMAIN c.conds : c.conds[i] = d
    <3>1. q = c.conds
      BY <2>1, <2>5, <2>7
    <3>2. DOMAIN v = FieldNames /\ \A x \in FieldNames : v[x] = c[x]
      BY <2>2, <2>4, <3>1 DEF FieldNames
    <3>3. Frame(c, v) /\ Items(v) = Items(c)
      BY <3>2 DEF Frame, FieldNames, Items
    <3>4. Base(v, w)
      <4>1. /\ v.conds = c.conds /\ v.speed = c.speed /\ v.skill = c.skill /\ v.defends = c.defends
            /\ v.enabled = c.enabled /\ v.outfit = c.outfit /\ v.current = c.current
            /\ v.shown = c.shown /\ v.mount = c.mount /\ v.tamed = c.tamed
            /\ v.delayed = c.delayed /\ v.stored = c.stored
            /\ v.left = c.left /\ v.refused = c.refused
        BY <3>2 DEF FieldNames
      <4>2. /\ c.tamed \in SUBSET Mounts /\ c.delayed \in Seq(Events)
            /\ c.stored \in Seq(Spelled) /\ Base(c, w)
        BY DEF Whole, Base, Sound, MountOK
      <4> QED
        BY <3>2, <4>1, <4>2, OthersBase
    <3> QED
      BY <2>3, <3>3, <3>4, FrameWhole
  <2> QED
    BY <2>6, <2>7
<1> QED
  BY <1>1, <1>2, <1>3

\* removeCombatCondition of all of a type.
LEMMA AllDispelledWhole ==
  ASSUME ConditionsAssumption, NEW c, NEW w, Whole(c, w), NEW type, NEW busy, NEW walking
  PROVE  LET v == AllDispelled(c, type, busy, walking) IN Whole(v, w) /\ Kept(c, v)
<1> DEFINE q == c.conds
           Done(f, n) ==
             IF n = 0 THEN c
             ELSE IF q[n].type = type THEN Dispelled(f[n - 1], q[n], busy, walking) ELSE f[n - 1]
<1>0. q \in Seq(Condition) /\ Len(q) \in Nat
  BY KeyedIs DEF Whole, Base, Sound, Keyed
<1>1. \A f, n : Done(f, n)
        = Turned("dispel", q, [type |-> type, busy |-> busy, walking |-> walking], c, f, n)
  BY DEF Turned, Turn
<1>2. \E f : f = [n \in 0..Len(q) |-> Done(f, n)]
  <2>1. PICK f : Turns("dispel", q, [type |-> type, busy |-> busy, walking |-> walking], c, f, Len(q))
    BY <1>0, TurnsExist
  <2>2. f = [n \in 0..Len(q) |-> Done(f, n)]
    <3> HIDE DEF Done
    <3> QED
      BY <1>1, <2>1 DEF Turns
  <2> QED
    BY <2>2
<1>3. PICK f : f = CHOOSE g : g = [n \in 0..Len(q) |-> Done(g, n)]
  OBVIOUS
<1>4. f = [n \in 0..Len(q) |-> Done(f, n)]
  BY <1>2, <1>3
<1>5. AllDispelled(c, type, busy, walking) = f[Len(q)]
  BY <1>3 DEF AllDispelled
<1>6. f[0] = c /\ \A n \in 1..Len(q) : f[n] = Done(f, n)
  BY <1>0, <1>4
<1> DEFINE Good(n) == Whole(f[n], w) /\ Kept(c, f[n])
           P == {n \in Nat : n <= Len(q) => Good(n)}
<1>7. 0 \in P
  BY <1>6, KeptSame
<1>8. ASSUME NEW n \in P PROVE n + 1 \in P
  <2> SUFFICES ASSUME n + 1 <= Len(q) PROVE Good(n + 1)
    OBVIOUS
  <2>1. n \in Nat /\ Good(n) /\ n + 1 \in 1..Len(q) /\ (n + 1) - 1 = n /\ n + 1 # 0
    BY <1>0
  <2>2. PICK b, d : b = f[n] /\ d = q[n + 1]
    OBVIOUS
  <2>3. Whole(b, w) /\ Kept(c, b) /\ d \in Condition
    BY <1>0, <2>1, <2>2
  <2>4. f[n + 1] = IF d.type = type THEN Dispelled(b, d, busy, walking) ELSE b
    BY <1>6, <2>1, <2>2
  <2>5. CASE d.type = type
    <3>1. PICK v : v = Dispelled(b, d, busy, walking)
      OBVIOUS
    <3>2. Whole(v, w) /\ Kept(b, v)
      BY <2>3, <3>1, DispelledWhole
    <3>3. Kept(c, v)
      BY <2>3, <3>2, KeptTwice
    <3> QED
      BY <2>4, <2>5, <3>1, <3>2, <3>3
  <2>6. CASE d.type # type
    BY <2>3, <2>4, <2>6
  <2> QED
    BY <2>5, <2>6
<1>9. P = Nat
  <2>1. P \subseteq Nat
    OBVIOUS
  <2> HIDE DEF P
  <2> QED
    BY <1>7, <1>8, <2>1, Counting
<1>10. Good(Len(q))
  <2>1. Len(q) \in P
    BY <1>0, <1>9
  <2> HIDE DEF Good
  <2> QED
    BY <1>0, <2>1
<1> QED
  BY <1>5, <1>10

\* What was stored is added to what is worn.
LEMMA RestoreAllWhole ==
  ASSUME ConditionsAssumption, NEW c, NEW w, Whole(c, w), NEW q \in Seq(Spelled), NEW over
  PROVE  LET v == RestoreAll(c, q, over) IN Whole(v, w) /\ Kept(c, v)
<1> DEFINE Restored(f, n) ==
             IF n = 0 THEN c
             ELSE AddCondition(f[n - 1], [q[n] EXCEPT !.live = n \notin over], FALSE, FALSE)
<1>0. Len(q) \in Nat /\ \A n \in 1..Len(q) : q[n] \in Spelled
  OBVIOUS
<1>1. \A f, n : Restored(f, n) = Turned("restore", q, over, c, f, n)
  BY DEF Turned, Turn
<1>2. \E f : f = [n \in 0..Len(q) |-> Restored(f, n)]
  <2>1. PICK f : Turns("restore", q, over, c, f, Len(q))
    BY <1>0, TurnsExist
  <2>2. f = [n \in 0..Len(q) |-> Restored(f, n)]
    <3> HIDE DEF Restored
    <3> QED
      BY <1>1, <2>1 DEF Turns
  <2> QED
    BY <2>2
<1>3. PICK f : f = CHOOSE g : g = [n \in 0..Len(q) |-> Restored(g, n)]
  OBVIOUS
<1>4. f = [n \in 0..Len(q) |-> Restored(f, n)]
  BY <1>2, <1>3
<1>5. RestoreAll(c, q, over) = f[Len(q)]
  BY <1>3 DEF RestoreAll
<1>6. f[0] = c /\ \A n \in 1..Len(q) : f[n] = Restored(f, n)
  BY <1>0, <1>4
<1> DEFINE Good(n) == Whole(f[n], w) /\ Kept(c, f[n])
           P == {n \in Nat : n <= Len(q) => Good(n)}
<1>7. 0 \in P
  BY <1>6, KeptSame
<1>8. ASSUME NEW n \in P PROVE n + 1 \in P
  <2> SUFFICES ASSUME n + 1 <= Len(q) PROVE Good(n + 1)
    OBVIOUS
  <2>1. n \in Nat /\ Good(n) /\ n + 1 \in 1..Len(q) /\ (n + 1) - 1 = n /\ n + 1 # 0
    BY <1>0
  <2>2. PICK b, d : b = f[n] /\ d = [q[n + 1] EXCEPT !.live = (n + 1) \notin over]
    OBVIOUS
  <2>3. Whole(b, w) /\ Kept(c, b) /\ d \in Spelled
    BY <1>0, <2>1, <2>2 DEF Spelled, Condition
  <2>4. f[n + 1] = AddCondition(b, d, FALSE, FALSE)
    BY <1>6, <2>1, <2>2
  <2>5. PICK no : no = FALSE
    OBVIOUS
  <2>6. PICK v : v = AddCondition(b, d, no, no)
    OBVIOUS
  <2>7. Base(v, w) /\ Frame(b, v) /\ Items(v) = Items(b)
    BY <2>3, <2>6, AddConditionBase DEF Whole
  <2>8. Whole(v, w) /\ Kept(b, v)
    BY <2>3, <2>7, FrameWhole
  <2>9. Kept(c, v)
    BY <2>3, <2>8, KeptTwice
  <2> QED
    BY <2>4, <2>5, <2>6, <2>8, <2>9
<1>9. P = Nat
  <2>1. P \subseteq Nat
    OBVIOUS
  <2> HIDE DEF P
  <2> QED
    BY <1>7, <1>8, <2>1, Counting
<1>10. Good(Len(q))
  <2>1. Len(q) \in P
    BY <1>0, <1>9
  <2> HIDE DEF Good
  <2> QED
    BY <1>0, <2>1
<1> QED
  BY <1>5, <1>10

\* Only what is not from an item is stored.
LEMMA StoredIs ==
  ASSUME NEW q \in Seq(Condition)
  PROVE  Stored(q) \in Seq(Spelled)
<1> DEFINE Loaded(f, n) ==
             IF n = 0 THEN <<>>
             ELSE IF Persistent(q[n]) THEN <<Saved(q[n])>> \o f[n - 1] ELSE f[n - 1]
<1>0. Len(q) \in Nat /\ \A n \in 1..Len(q) : q[n] \in Condition
  OBVIOUS
<1>1. \A f, n : Loaded(f, n) = Turned("store", q, 0, <<>>, f, n)
  BY DEF Turned, Turn
<1>2. \E f : f = [n \in 0..Len(q) |-> Loaded(f, n)]
  <2>1. PICK f : Turns("store", q, 0, <<>>, f, Len(q))
    BY <1>0, TurnsExist
  <2>2. f = [n \in 0..Len(q) |-> Loaded(f, n)]
    <3> HIDE DEF Loaded
    <3> QED
      BY <1>1, <2>1 DEF Turns
  <2> QED
    BY <2>2
<1>3. PICK f : f = CHOOSE g : g = [n \in 0..Len(q) |-> Loaded(g, n)]
  OBVIOUS
<1>4. f = [n \in 0..Len(q) |-> Loaded(f, n)]
  BY <1>2, <1>3
<1>5. Stored(q) = f[Len(q)]
  BY <1>3 DEF Stored
<1>6. f[0] = <<>> /\ \A n \in 1..Len(q) : f[n] = Loaded(f, n)
  <2>1. \A n \in 0..Len(q) : f[n] = Loaded(f, n)
    <3> HIDE DEF Loaded
    <3> QED
      BY <1>4
  <2>2. f[0] = Loaded(f, 0)
    <3>1. 0 \in 0..Len(q)
      BY <1>0
    <3> HIDE DEF Loaded
    <3> QED
      BY <2>1, <3>1
  <2>3. Loaded(f, 0) = <<>>
    OBVIOUS
  <2>4. \A n \in 1..Len(q) : f[n] = Loaded(f, n)
    <3>1. \A n \in 1..Len(q) : n \in 0..Len(q)
      BY <1>0
    <3> HIDE DEF Loaded
    <3> QED
      BY <2>1, <3>1
  <2> HIDE DEF Loaded
  <2> QED
    BY <2>2, <2>3, <2>4
<1> DEFINE P == {n \in Nat : n <= Len(q) => f[n] \in Seq(Spelled)}
<1>7. 0 \in P
  <2>1. f[0] = <<>> /\ <<>> \in Seq(Spelled)
    BY <1>6, EmptySeq
  <2> QED
    BY <2>1
<1>8. ASSUME NEW n \in P PROVE n + 1 \in P
  <2> SUFFICES ASSUME n + 1 <= Len(q) PROVE f[n + 1] \in Seq(Spelled)
    OBVIOUS
  <2>1. /\ n \in Nat /\ f[n] \in Seq(Spelled) /\ n + 1 \in 1..Len(q)
        /\ (n + 1) - 1 = n /\ n + 1 # 0
    BY <1>0
  <2>2. PICK b, d : b = f[n] /\ d = q[n + 1]
    OBVIOUS
  <2>3. f[n + 1] = IF Persistent(d) THEN <<Saved(d)>> \o b ELSE b
    BY <1>6, <2>1, <2>2
  <2>4. Persistent(d) => Saved(d) \in Spelled
    <3>1. d \in Condition
      BY <1>0, <2>1, <2>2
    <3> QED
      BY <3>1 DEF Persistent, Saved, Spelled, Condition
  <2> QED
    BY <2>1, <2>2, <2>3, <2>4
<1>9. P = Nat
  <2>1. P \subseteq Nat
    OBVIOUS
  <2> HIDE DEF P
  <2> QED
    BY <1>7, <1>8, <2>1, Counting
<1>10. Len(q) \in P
  BY <1>0, <1>9
<1> QED
  BY <1>0, <1>5, <1>10
-----------------------------------------------------------------------------
(* Mounts and outfits.                                                     *)

\* What stays when only the looks and the mount change.
Unlooked(c, v) ==
  /\ DOMAIN v = FieldNames /\ v.conds = c.conds /\ v.skill = c.skill /\ v.defends = c.defends
  /\ v.enabled = c.enabled /\ v.suppressed = c.suppressed /\ v.worn = c.worn
  /\ v.delayed = c.delayed /\ v.stored = c.stored /\ v.left = c.left

\* The mount and what it gives change together.
LEMMA RiddenWhole ==
  ASSUME ConditionsAssumption, NEW c, NEW w, Whole(c, w), NEW v, Unlooked(c, v),
         MountOK(v), v.speed = c.speed - SpeedRidden(c) + SpeedRidden(v), LooksOK(v)
  PROVE  Whole(v, w)
<1>1. Base(c, w) /\ GearOK(c, w) /\ WornOK(w)
  BY DEF Whole
<1>2. Sound(v)
  BY <1>1 DEF Base, Sound, Unlooked
<1>3. SumsOK(v, w)
  <2>1. /\ c.speed = Speeds(ToSet(c.conds)) + SpeedOver(c.enabled, w) + SpeedRidden(c) + c.left.speed
        /\ c.skill = Skills(ToSet(c.conds)) + SkillOver(c.enabled, w) + c.left.skill
    BY <1>1 DEF Base, SumsOK
  <2>2. /\ SpeedRidden(c) \in Int /\ Speeds(ToSet(c.conds)) \in Int
        /\ SpeedOver(c.enabled, w) \in Int /\ c.left.speed \in Int
    BY <1>1, SumsAreInt
  <2>3. SpeedRidden(v) \in Int
    BY DEF MountOK, SpeedRidden, ConditionsAssumption
  <2>4. v.conds = c.conds /\ v.enabled = c.enabled /\ v.skill = c.skill /\ v.left = c.left
    BY DEF Unlooked
  <2> QED
    BY <2>1, <2>2, <2>3, <2>4 DEF SumsOK
<1>4. InForceOK(v.enabled, w) /\ DefenceOK(v) /\ GearOK(v, w)
  BY <1>1 DEF Base, DefenceOK, GearOK, Items, Unlooked
<1> QED
  BY <1>1, <1>2, <1>3, <1>4 DEF Whole, Base

\* internalCreatureChangeOutfit shows the outfit that the player has.
LEMMA DressedWhole ==
  ASSUME ConditionsAssumption, NEW c, NEW w, Whole(c, w), NEW b, Unlooked(c, b),
         MountOK(b), b.speed = c.speed - SpeedRidden(c) + SpeedRidden(b),
         b.shown = c.shown, b.current = c.current
  PROVE  LET v == Dress(b, b.outfit)
         IN  /\ Whole(v, w) /\ DOMAIN v = FieldNames /\ v.mount = b.mount /\ v.outfit = b.outfit
             /\ \A x \in FieldNames \ {"current", "shown", "refused"} : v[x] = b[x]
<1>1. PICK o : o = b.outfit
  OBVIOUS
<1>2. PICK v : v = Dress(b, o)
  OBVIOUS
<1>3. /\ DOMAIN v = FieldNames /\ \A x \in FieldNames \ {"current", "shown", "refused"} : v[x] = b[x]
      /\ v.current = o /\ v.shown = IF Invisible(b) THEN b.shown ELSE o
  <2>1. DOMAIN b = FieldNames
    BY DEF Unlooked
  <2> QED
    BY <1>2, <2>1, DressIs
<1>4. /\ v.conds = b.conds /\ v.skill = b.skill /\ v.defends = b.defends /\ v.enabled = b.enabled
      /\ v.suppressed = b.suppressed /\ v.worn = b.worn /\ v.delayed = b.delayed
      /\ v.stored = b.stored /\ v.outfit = o /\ v.mount = b.mount /\ v.tamed = b.tamed
      /\ v.speed = b.speed /\ v.left = b.left
  BY <1>1, <1>3 DEF FieldNames
<1>5. Unlooked(c, v)
  BY <1>3, <1>4 DEF Unlooked
<1>6. MountOK(v) /\ SpeedRidden(v) = SpeedRidden(b)
  BY <1>1, <1>4 DEF MountOK, Mounted, SpeedRidden
<1>7. LooksOK(v)
  <2>1. (Invisible(b) <=> Invisible(c)) /\ (Invisible(v) <=> Invisible(c))
    BY <1>4 DEF Invisible, Has, Unlooked
  <2>2. c.shown = IF Invisible(c) THEN Nothing ELSE c.current
    BY DEF Whole, Base, LooksOK
  <2> QED
    BY <1>3, <1>4, <2>1, <2>2 DEF LooksOK
<1>8. Whole(v, w)
  <2>1. v.speed = c.speed - SpeedRidden(c) + SpeedRidden(v)
    BY <1>4, <1>6
  <2> QED
    BY <1>5, <1>6, <1>7, <2>1, RiddenWhole
<1> QED
  BY <1>1, <1>2, <1>3, <1>4, <1>8

\* Player::dismount, and what follows it.
LEMMA DismountingWhole ==
  ASSUME ConditionsAssumption, NEW c, NEW w, Whole(c, w), Mounted(c)
  PROVE  LET v == Dismounting(c)
         IN  /\ Whole(v, w) /\ DOMAIN v = FieldNames /\ ~Mounted(v)
             /\ \A x \in FieldNames \ {"outfit", "speed", "current", "shown", "refused"} : v[x] = c[x]
<1>1. PICK b : b = Dismount(c)
  OBVIOUS
<1>2. Base(c, w)
  BY DEF Whole
<1>3. /\ DOMAIN b = FieldNames /\ \A x \in FieldNames \ {"outfit", "speed"} : b[x] = c[x]
      /\ DOMAIN b.outfit = {"look", "mount"} /\ b.speed = c.speed - SpeedRidden(c) /\ ~Mounted(b)
  BY <1>1, <1>2, DismountIs
<1>4. /\ b.conds = c.conds /\ b.skill = c.skill /\ b.defends = c.defends /\ b.enabled = c.enabled
      /\ b.suppressed = c.suppressed /\ b.worn = c.worn /\ b.delayed = c.delayed
      /\ b.stored = c.stored /\ b.mount = c.mount /\ b.tamed = c.tamed /\ b.left = c.left
      /\ b.shown = c.shown /\ b.current = c.current
  BY <1>3 DEF FieldNames
<1>5. Unlooked(c, b)
  BY <1>3, <1>4 DEF Unlooked
<1>6. MountOK(b)
  BY <1>2, <1>3, <1>4 DEF Base, Sound, MountOK
<1>7. b.speed = c.speed - SpeedRidden(c) + SpeedRidden(b)
  <2>1. SpeedRidden(b) = 0
    BY <1>3 DEF SpeedRidden
  <2>2. c.speed \in Int /\ SpeedRidden(c) \in Int
    BY <1>2, SumsAreInt
  <2> QED
    BY <1>3, <2>1, <2>2
<1>8. PICK v : v = Dress(b, b.outfit)
  OBVIOUS
<1>9. /\ Whole(v, w) /\ DOMAIN v = FieldNames /\ v.mount = b.mount /\ v.outfit = b.outfit
      /\ \A x \in FieldNames \ {"current", "shown", "refused"} : v[x] = b[x]
  BY <1>4, <1>5, <1>6, <1>7, <1>8, DressedWhole
<1>10. ~Mounted(v)
  BY <1>3, <1>9 DEF Mounted
<1>11. \A x \in FieldNames \ {"outfit", "speed", "current", "shown", "refused"} : v[x] = c[x]
  BY <1>3, <1>9
<1> QED
  BY <1>1, <1>8, <1>9, <1>10, <1>11 DEF Dismounting

\* Player::toggleMount to a mount.
LEMMA MountingWhole ==
  ASSUME ConditionsAssumption, NEW c, NEW w, Whole(c, w)
  PROVE  LET v == Mounting(c)
         IN  /\ Whole(v, w) /\ DOMAIN v = FieldNames
             /\ \A x \in FieldNames \ {"outfit", "speed", "current", "shown", "refused"} : v[x] = c[x]
<1>1. CASE ~MayMount(c)
  <2>1. Mounting(c) = c
    BY <1>1 DEF Mounting
  <2>2. DOMAIN c = FieldNames
    BY DEF Whole, Base, Sound
  <2> QED
    BY <2>1, <2>2
<1>2. CASE MayMount(c)
  <2>1. PICK b : b = Ride(c)
    OBVIOUS
  <2>2. /\ DOMAIN c = FieldNames /\ MountOK(c) /\ Base(c, w) /\ DOMAIN c.outfit = {"look", "mount"}
    BY DEF Whole, Base, Sound, MountOK
  <2>3. ~Mounted(c) /\ c.mount \in Mounts /\ c.mount # 0
    BY <1>2, <2>2 DEF MayMount, MountOK, ConditionsAssumption
  <2>4. PICK o, s : o = [c.outfit EXCEPT !.mount = c.mount] /\ s = c.speed + MountSpeed[c.mount]
    OBVIOUS
  <2>5. b = [c EXCEPT !.outfit = o, !.speed = s]
    BY <2>1, <2>4 DEF Ride
  <2>6. DOMAIN o = {"look", "mount"} /\ o.mount = c.mount
    BY <2>2, <2>4
  <2>7. /\ DOMAIN b = FieldNames /\ b.outfit = o /\ b.speed = s
        /\ \A x \in FieldNames \ {"outfit", "speed"} : b[x] = c[x]
    BY <2>2, <2>5 DEF FieldNames
  <2>8. /\ b.conds = c.conds /\ b.skill = c.skill /\ b.defends = c.defends /\ b.enabled = c.enabled
        /\ b.suppressed = c.suppressed /\ b.worn = c.worn /\ b.delayed = c.delayed
        /\ b.stored = c.stored /\ b.mount = c.mount /\ b.tamed = c.tamed
        /\ b.shown = c.shown /\ b.current = c.current /\ b.left = c.left
    BY <2>7 DEF FieldNames
  <2>9. Unlooked(c, b)
    BY <2>7, <2>8 DEF Unlooked
  <2>10. MountOK(b)
    BY <2>2, <2>3, <2>6, <2>7, <2>8 DEF MountOK
  <2>11. b.speed = c.speed - SpeedRidden(c) + SpeedRidden(b)
    <3>1. SpeedRidden(c) = 0
      BY <2>3 DEF SpeedRidden
    <3>2. SpeedRidden(b) = MountSpeed[c.mount]
      BY <2>3, <2>6, <2>7, <2>8 DEF SpeedRidden, Mounted
    <3>3. c.speed \in Int /\ MountSpeed[c.mount] \in Int
      BY <2>2, <2>3, SumsAreInt DEF ConditionsAssumption
    <3> QED
      BY <2>4, <2>7, <3>1, <3>2, <3>3
  <2>12. PICK v : v = Dress(b, b.outfit)
    OBVIOUS
  <2>13. /\ Whole(v, w) /\ DOMAIN v = FieldNames
         /\ \A x \in FieldNames \ {"current", "shown", "refused"} : v[x] = b[x]
    BY <2>8, <2>9, <2>10, <2>11, <2>12, DressedWhole
  <2>14. \A x \in FieldNames \ {"outfit", "speed", "current", "shown", "refused"} : v[x] = c[x]
    BY <2>7, <2>13
  <2>15. Mounting(c) = v
    BY <1>2, <2>1, <2>12 DEF Mounting
  <2> QED
    BY <2>13, <2>14, <2>15
<1> QED
  BY <1>1, <1>2
-----------------------------------------------------------------------------
(* The tasks.                                                              *)

CharInv == Whole(char, char.worn)

\* It is enough that what the player becomes is whole.
LEMMA Becoming ==
  ASSUME NEW v, char' = v, NEW w, Whole(v, w), v.worn = w
  PROVE  CharInv'
<1>1. char' = v /\ char'.worn = w
  OBVIOUS
<1> QED
  BY <1>1 DEF CharInv, Whole

\* removeCondition of all that are not of items.
LEMMA EndAllWhole ==
  ASSUME ConditionsAssumption, NEW c, NEW w, Whole(c, w), NEW D,
         \A d \in Given(ToSet(c.conds)) : d \notin D
  PROVE  LET v == EndAll(c, D) IN Whole(v, w) /\ Kept(c, v)
<1>1. PICK v : v = EndAll(c, D)
  OBVIOUS
<1>2. Base(v, w) /\ Frame(c, v) /\ ToSet(v.conds) = ToSet(c.conds) \ D
  BY <1>1, EndAllBase DEF Whole
<1>3. Items(v) = Items(c)
  <2>1. Given(ToSet(v.conds)) = Given(ToSet(c.conds))
    BY <1>2 DEF Given
  <2> QED
    BY <2>1 DEF Items, Pairs
<1> QED
  BY <1>1, <1>2, <1>3, FrameWhole

\* What an item gave lasts for ever, and only an item gives it.
LEMMA ItemsAre ==
  ASSUME NEW c, NEW w, Whole(c, w)
  PROVE  \A d \in Given(ToSet(c.conds)) : d.forever /\ d.type \in ItemTypes /\ d.id > Combat
<1> QED
  BY DEF Given, Whole, Base, Sound, ItemShaped

\* A spell or a script.
LEMMA CastKeeps ==
  ASSUME ConditionsAssumption, CharInv, NEW d \in Spelled, Cast(d)
  PROVE  CharInv'
<1>1. PICK walking, longer \in BOOLEAN : char' = AddCondition(char, d, walking, longer)
  BY DEF Cast, Becomes
<1>2. PICK v : v = AddCondition(char, d, walking, longer)
  OBVIOUS
<1>3. Base(v, char.worn) /\ Frame(char, v) /\ Items(v) = Items(char)
  BY <1>2, AddConditionBase DEF CharInv, Whole
<1>4. Whole(v, char.worn) /\ Kept(char, v)
  BY <1>3, FrameWhole DEF CharInv
<1> QED
  BY <1>1, <1>2, <1>4, Becoming DEF Kept

\* Game::forceAddCondition and forceRemoveCondition.
LEMMA DelayedRunsKeeps ==
  ASSUME ConditionsAssumption, CharInv, NEW i \in DOMAIN char.delayed, DelayedRuns(i)
  PROVE  CharInv'
<1>1. /\ DOMAIN char = FieldNames /\ char.delayed \in Seq(Events)
      /\ char.tamed \in SUBSET Mounts /\ char.stored \in Seq(Spelled)
  BY DEF CharInv, Whole, Base, Sound, MountOK
<1>2. PICK q, event : q = RemoveAt(char.delayed, i) /\ event = char.delayed[i]
  OBVIOUS
<1>3. q \in Seq(Events) /\ event \in Events
  <2>1. i \in 1..Len(char.delayed) /\ Len(char.delayed) \in Nat
    BY <1>1
  <2>2. SubSeq(char.delayed, 1, i - 1) \in Seq(Events)
    BY <1>1, <2>1
  <2>3. SubSeq(char.delayed, i + 1, Len(char.delayed)) \in Seq(Events)
    BY <1>1, <2>1
  <2>4. q \in Seq(Events)
    BY <1>2, <2>2, <2>3 DEF RemoveAt
  <2> QED
    BY <1>1, <1>2, <2>1, <2>4
<1>4. PICK rest : rest = [char EXCEPT !.delayed = q]
  OBVIOUS
<1>5. DOMAIN rest = FieldNames /\ rest.delayed = q /\ \A x \in FieldNames \ {"delayed"} : rest[x] = char[x]
  BY <1>1, <1>4 DEF FieldNames
<1>6. Whole(rest, char.worn) /\ rest.worn = char.worn
  <2>1. /\ rest.conds = char.conds /\ rest.speed = char.speed /\ rest.skill = char.skill
        /\ rest.defends = char.defends /\ rest.enabled = char.enabled
        /\ rest.suppressed = char.suppressed /\ rest.outfit = char.outfit
        /\ rest.current = char.current /\ rest.shown = char.shown /\ rest.mount = char.mount
        /\ rest.tamed = char.tamed /\ rest.stored = char.stored /\ rest.worn = char.worn
        /\ rest.left = char.left /\ rest.refused = char.refused
    BY <1>5 DEF FieldNames
  <2> QED
    BY <1>1, <1>3, <1>5, <2>1, OthersWhole DEF CharInv
<1>7. \/ /\ event.what = "add"
         /\ \E walking, longer \in BOOLEAN : char' = Added(rest, event.cond, walking, longer)
      \/ char' = EndAll(rest, OfType(rest, "paralyze"))
  BY <1>2, <1>4 DEF DelayedRuns, Becomes
<1>8. CASE event.what = "add" /\ \E walking, longer \in BOOLEAN :
             char' = Added(rest, event.cond, walking, longer)
  <2>1. event.cond \in Spelled
    BY <1>3, <1>8 DEF Events
  <2>2. PICK walking, longer \in BOOLEAN : char' = Added(rest, event.cond, walking, longer)
    BY <1>8
  <2>3. PICK v, d : v = Added(rest, d, walking, longer) /\ d = event.cond
    OBVIOUS
  <2>7. d \in Condition /\ ItemShaped({d}) /\ Pairs({d}) = {} /\ Base(rest, char.worn)
    BY <1>6, <2>1, <2>3, SpelledIs DEF Whole
  <2>8. Base(v, char.worn) /\ Frame(rest, v) /\ Items(v) = Items(rest) \cup Pairs({d})
    BY <2>3, <2>7, AddedBase
  <2>4. Base(v, char.worn) /\ Frame(rest, v) /\ Items(v) = Items(rest)
    BY <2>7, <2>8
  <2>5. Whole(v, char.worn) /\ Kept(rest, v)
    BY <1>6, <2>4, FrameWhole
  <2>6. v.worn = char.worn /\ char' = v
    BY <1>6, <2>2, <2>3, <2>5 DEF Kept
  <2> QED
    BY <2>5, <2>6, Becoming
<1>9. CASE char' = EndAll(rest, OfType(rest, "paralyze"))
  <2>1. PICK v, D : v = EndAll(rest, D) /\ D = OfType(rest, "paralyze")
    OBVIOUS
  <2>2. \A d \in Given(ToSet(rest.conds)) : d \notin D
    BY <1>6, <2>1, ItemsAre DEF OfType, ItemTypes
  <2>3. Whole(v, char.worn) /\ Kept(rest, v)
    BY <1>6, <2>1, <2>2, EndAllWhole
  <2>4. v.worn = char.worn /\ char' = v
    BY <1>6, <1>9, <2>1, <2>3 DEF Kept
  <2> QED
    BY <2>3, <2>4, Becoming
<1> QED
  BY <1>7, <1>8, <1>9

\* The end time of a condition passes.
LEMMA ExpireKeeps ==
  ASSUME ConditionsAssumption, CharInv, NEW i \in DOMAIN char.conds, Expire(i)
  PROVE  CharInv'
<1>1. PICK d, e : d = char.conds[i] /\ e = [d EXCEPT !.live = FALSE]
  OBVIOUS
<1>2. d \in Condition /\ d \in ToSet(char.conds)
  <2>1. d \in ToSet(char.conds) /\ Keyed(char.conds)
    BY <1>1 DEF ToSet, CharInv, Whole, Base, Sound
  <2> QED
    BY <2>1, KeyedIs
<1>3. /\ e \in Condition /\ e.type = d.type /\ e.id = d.id /\ e.sub = d.sub
      /\ e.noDefense = d.noDefense /\ e.val = d.val
  BY <1>1, <1>2 DEF Condition
<1>4. Key(e) = Key(d)
  BY <1>3 DEF Key
<1>5. d.id <= Combat
  <2>1. ~d.forever
    BY <1>1 DEF Expire
  <2>2. d \notin Given(ToSet(char.conds))
    BY <2>1, ItemsAre DEF CharInv
  <2> QED
    BY <1>2, <2>2 DEF Given, Condition, Combat
<1>6. PICK v : v = [char EXCEPT !.conds[i].live = FALSE]
  OBVIOUS
<1>7. /\ v = [char EXCEPT !.conds = [@ EXCEPT ![i] = e]] /\ Key(e) = Key(char.conds[i])
      /\ e.noDefense = char.conds[i].noDefense /\ e.val = char.conds[i].val
      /\ char.conds[i].id <= Combat
  BY <1>1, <1>3, <1>4, <1>5, <1>6
<1>8. Whole(v, char.worn) /\ Kept(char, v)
  BY <1>3, <1>7, AlteredWhole DEF CharInv
<1>9. char' = v /\ v.worn = char.worn
  BY <1>6, <1>8 DEF Expire, Becomes, Kept
<1> QED
  BY <1>8, <1>9, Becoming

\* Creature::executeConditions.
LEMMA ExecuteConditionsKeeps ==
  ASSUME ConditionsAssumption, CharInv, ExecuteConditions
  PROVE  CharInv'
<1>1. PICK v, D : v = EndAll(char, D) /\ D = {d \in ToSet(char.conds) : ~d.live /\ ~d.forever}
  OBVIOUS
<1>2. \A d \in Given(ToSet(char.conds)) : d \notin D
  BY <1>1, ItemsAre DEF CharInv
<1>3. Whole(v, char.worn) /\ Kept(char, v)
  BY <1>1, <1>2, EndAllWhole DEF CharInv
<1>4. char' = v /\ v.worn = char.worn
  BY <1>1, <1>3 DEF ExecuteConditions, Becomes, Kept
<1> QED
  BY <1>3, <1>4, Becoming

\* removeCombatCondition.
LEMMA DispelKeeps ==
  ASSUME ConditionsAssumption, CharInv, NEW type, Dispel(type)
  PROVE  CharInv'
<1>1. PICK busy, walking \in BOOLEAN : char' = AllDispelled(char, type, busy, walking)
  BY DEF Dispel, Becomes
<1>2. PICK v : v = AllDispelled(char, type, busy, walking)
  OBVIOUS
<1>3. Whole(v, char.worn) /\ Kept(char, v)
  BY <1>2, AllDispelledWhole DEF CharInv
<1> QED
  BY <1>1, <1>2, <1>3, Becoming DEF Kept

\* creature:removeCondition.
LEMMA LiftKeeps ==
  ASSUME ConditionsAssumption, CharInv, NEW i \in DOMAIN char.conds, Lift(i)
  PROVE  CharInv'
<1>1. PICK walking \in BOOLEAN : char' = RemoveOne(char, char.conds[i], walking)
  BY DEF Lift, Becomes
<1>2. PICK v, d : v = RemoveOne(char, d, walking) /\ d = char.conds[i]
  OBVIOUS
<1>3. ~(d.id > Combat)
  <2>1. d \in Condition
    <3>1. d \in ToSet(char.conds) /\ Keyed(char.conds)
      BY <1>2 DEF ToSet, CharInv, Whole, Base, Sound
    <3> QED
      BY <3>1, KeyedIs
  <2> QED
    BY <1>2, <2>1 DEF Lift, Condition, Combat
<1>4. Whole(v, char.worn) /\ Kept(char, v)
  BY <1>2, <1>3, RemoveOneWhole DEF CharInv
<1> QED
  BY <1>1, <1>2, <1>4, Becoming DEF Kept

\* postAddNotification.
LEMMA PutOnKeeps ==
  ASSUME ConditionsAssumption, CharInv, NEW item \in Gear, PutOn(item)
  PROVE  CharInv'
<1>1. PICK slot, worn : slot = Gives[item].slot /\ worn = [char.worn EXCEPT ![slot] = item]
  OBVIOUS
<1>2. PICK b : b = [char EXCEPT !.worn = worn]
  OBVIOUS
<1>3. char.worn[slot] = Bare /\ char' = EquipItem(b, item)
  BY <1>1, <1>2 DEF PutOn, Becomes
<1>4. slot \in Slots /\ item # Bare
  BY <1>1 DEF ConditionsAssumption
<1>5. WornOK(char.worn) /\ Whole(char, char.worn)
  BY DEF CharInv, Whole
<1>6. WornOK(worn) /\ worn[slot] = item
  BY <1>1, <1>4, <1>5 DEF WornOK
<1>7. Whole(b, char.worn) /\ b.worn = worn /\ b.enabled = char.enabled
  BY <1>2, <1>5, RewornOnly
<1>8. \A s \in b.enabled : worn[s] = char.worn[s]
  <2>1. \A s \in b.enabled : s \in Slots /\ char.worn[s] \in Gear
    BY <1>7 DEF Whole, Base, InForceOK
  <2>2. slot \notin b.enabled
    BY <1>3, <2>1 DEF ConditionsAssumption
  <2>3. DOMAIN char.worn = Slots
    BY <1>5 DEF WornOK
  <2> QED
    BY <1>1, <2>1, <2>2, <2>3
<1>9. Whole(b, worn)
  BY <1>6, <1>7, <1>8, RewornWhole
<1>10. PICK v : v = EquipItem(b, b.worn[slot])
  OBVIOUS
<1>11. Whole(v, v.worn)
  <2>1. b.worn[slot] # Bare /\ Whole(b, b.worn)
    BY <1>4, <1>6, <1>7, <1>9
  <2> QED
    BY <1>4, <1>10, <2>1, EquipItemWhole
<1>12. char' = v
  BY <1>3, <1>6, <1>7, <1>10
<1> QED
  BY <1>11, <1>12, Becoming

\* postRemoveNotification.
LEMMA TakeOffKeeps ==
  ASSUME ConditionsAssumption, CharInv, NEW slot \in Slots, TakeOff(slot)
  PROVE  CharInv'
<1>1. PICK worn, old : worn = [char.worn EXCEPT ![slot] = Bare] /\ old = char.worn
  OBVIOUS
<1>2. PICK b : b = [char EXCEPT !.worn = worn]
  OBVIOUS
<1>4. WornOK(old) /\ Whole(char, old)
  BY <1>1 DEF CharInv, Whole
<1>3. PICK kind : /\ old[slot] # Bare /\ char' = DeEquipItem(b, old[slot], kind)
                  /\ kind \in Gear /\ Gives[kind].slot = slot
  <2>1. /\ old[slot] # Bare
        /\ \/ char' = DeEquipItem(b, old[slot], old[slot])
           \/ /\ Gives[old[slot]].off # Bare
              /\ char' = DeEquipItem(b, old[slot], Gives[old[slot]].off)
    BY <1>1, <1>2 DEF TakeOff, Becomes
  <2>2. old[slot] \in Gear /\ Gives[old[slot]].slot = slot
    BY <1>4, <2>1 DEF WornOK
  <2>3. Gives[old[slot]].off # Bare
          => Gives[old[slot]].off \in Gear /\ Gives[Gives[old[slot]].off].slot = slot
    BY <2>2 DEF ConditionsAssumption
  <2> QED
    BY <2>1, <2>2, <2>3
<1>5. Whole(b, old) /\ b.worn = worn /\ b.enabled = char.enabled
  BY <1>2, <1>4, RewornOnly
<1>6. PICK v : v = DeEquipItem(b, old[slot], kind)
  OBVIOUS
<1>7. Whole(v, old) /\ Kept(b, v) /\ v.enabled = b.enabled \ {slot}
  <2>1. Whole(b, old) /\ old[slot] # Bare /\ kind \in Gear /\ Gives[kind].slot = slot
    BY <1>3, <1>5
  <2> QED
    BY <1>6, <2>1, DeEquipItemWhole, Z3
<1>8. WornOK(worn)
  BY <1>1, <1>4 DEF WornOK
<1>9. \A s \in v.enabled : worn[s] = old[s]
  <2>1. \A s \in v.enabled : s \in Slots /\ s # slot
    BY <1>7 DEF Whole, Base, InForceOK
  <2>2. DOMAIN old = Slots
    BY <1>4 DEF WornOK
  <2> QED
    BY <1>1, <2>1, <2>2
<1>10. Whole(v, worn)
  BY <1>7, <1>8, <1>9, RewornWhole
<1>11. char' = v /\ char'.worn = worn
  BY <1>3, <1>5, <1>6, <1>7 DEF Kept
<1> QED
  BY <1>10, <1>11 DEF CharInv

\* transformItem of what is worn.
LEMMA UseChargeKeeps ==
  ASSUME ConditionsAssumption, CharInv, NEW slot \in Slots, UseCharge(slot)
  PROVE  CharInv'
<1>1. PICK w : w = char.worn
  OBVIOUS
<1>2. PICK kind, b : kind = w[slot] /\ b = DeEquipItem(char, w[slot], kind)
  OBVIOUS
<1>3. PICK v : v = EquipItem(b, w[slot])
  OBVIOUS
<1>4. w[slot] # Bare /\ char' = v /\ Whole(char, w)
  BY <1>1, <1>2, <1>3 DEF UseCharge, Becomes, CharInv
<1>5. kind \in Gear /\ Gives[kind].slot = slot
  BY <1>2, <1>4 DEF Whole, WornOK
<1>6. Whole(b, b.worn) /\ b.worn = w
  <2>1. Whole(b, w) /\ Kept(char, b)
    BY <1>2, <1>4, <1>5, DeEquipItemWhole
  <2> QED
    BY <1>1, <2>1 DEF Kept
<1>7. Whole(v, v.worn)
  BY <1>3, <1>4, <1>6, EquipItemWhole
<1> QED
  BY <1>4, <1>7, Becoming

\* A level gained or lost.
LEMMA ChangeLevelKeeps ==
  ASSUME CharInv, ChangeLevel
  PROVE  CharInv'
<1>1. PICK z : z = ~char.strong
  OBVIOUS
<1>2. PICK v : v = [char EXCEPT !.strong = z]
  OBVIOUS
<1>3. char' = v
  BY <1>1, <1>2 DEF ChangeLevel, Becomes
<1>4. /\ DOMAIN char = FieldNames /\ char.delayed \in Seq(Events)
      /\ char.tamed \in SUBSET Mounts /\ char.stored \in Seq(Spelled)
  BY DEF CharInv, Whole, Base, Sound, MountOK
<1>5. DOMAIN v = FieldNames /\ \A x \in FieldNames \ {"strong"} : v[x] = char[x]
  BY <1>2, <1>4 DEF FieldNames
<1>6. /\ v.conds = char.conds /\ v.speed = char.speed /\ v.skill = char.skill
      /\ v.defends = char.defends /\ v.enabled = char.enabled
      /\ v.suppressed = char.suppressed /\ v.outfit = char.outfit
      /\ v.current = char.current /\ v.shown = char.shown /\ v.mount = char.mount
      /\ v.tamed = char.tamed /\ v.stored = char.stored /\ v.delayed = char.delayed
      /\ v.worn = char.worn /\ v.left = char.left /\ v.refused = char.refused
  BY <1>5 DEF FieldNames
<1>7. Whole(v, char.worn)
  BY <1>4, <1>5, <1>6, OthersWhole DEF CharInv
<1> QED
  BY <1>3, <1>6, <1>7, Becoming

\* Player::toggleMount.
LEMMA ToggleMountKeeps ==
  ASSUME ConditionsAssumption, CharInv, ToggleMount
  PROVE  CharInv'
<1>1. CASE char' = Mounting(char)
  <2>1. PICK v : v = Mounting(char)
    OBVIOUS
  <2>2. /\ Whole(v, char.worn)
        /\ \A x \in FieldNames \ {"outfit", "speed", "current", "shown", "refused"} : v[x] = char[x]
    BY <2>1, MountingWhole DEF CharInv
  <2>3. v.worn = char.worn
    BY <2>2 DEF FieldNames
  <2> QED
    BY <1>1, <2>1, <2>2, <2>3, Becoming
<1>2. CASE Mounted(char) /\ char' = Dismounting(char)
  <2>1. PICK v : v = Dismounting(char)
    OBVIOUS
  <2>2. /\ Whole(v, char.worn)
        /\ \A x \in FieldNames \ {"outfit", "speed", "current", "shown", "refused"} : v[x] = char[x]
    BY <1>2, <2>1, DismountingWhole DEF CharInv
  <2>3. v.worn = char.worn
    BY <2>2 DEF FieldNames
  <2> QED
    BY <1>2, <2>1, <2>2, <2>3, Becoming
<1> QED
  BY <1>1, <1>2 DEF ToggleMount, Becomes

\* Game::playerChangeOutfit.
LEMMA PlayerChangeOutfitKeeps ==
  ASSUME ConditionsAssumption, CharInv, NEW look, NEW ride \in Mounts \cup {0}, NEW known, NEW fits,
         PlayerChangeOutfit(look, ride, known, fits)
  PROVE  CharInv'
<1> DEFINE mount == IF known THEN ride ELSE 0
           swapped == IF Mounted(char) /\ mount # 0
                      THEN [char EXCEPT !.speed = @ + MountSpeed[mount] - MountSpeed[char.mount],
                                        !.mount = mount]
                      ELSE IF mount # 0 THEN [char EXCEPT !.mount = mount]
                      ELSE IF Mounted(char) THEN Dismount(char) ELSE char
           worn == [look |-> look, mount |-> IF Mounted(char) THEN mount ELSE 0]
           chosen == [swapped EXCEPT !.outfit = worn]
           turned == [swapped EXCEPT !.refused = @ \/ swapped.outfit # char.outfit]
<1>0. \/ char' = IF Feels(chosen, "outfit") THEN chosen ELSE Dress(chosen, chosen.outfit)
      \/ char' = turned
  BY DEF PlayerChangeOutfit, Becomes
<1>m. mount \in Mounts \cup {0}
  OBVIOUS
<1> HIDE DEF mount
<1>1. /\ Whole(char, char.worn) /\ Base(char, char.worn) /\ DOMAIN char = FieldNames
      /\ MountOK(char) /\ char.speed \in Int /\ SpeedRidden(char) \in Int
  BY SumsAreInt DEF CharInv, Whole, Base, Sound
<1>2. PICK a : a = swapped
  OBVIOUS
<1> DEFINE Others == FieldNames \ {"speed", "mount", "outfit"}
           Down == Mounted(char) /\ mount = 0
<1>3. /\ DOMAIN a = FieldNames /\ \A x \in Others : a[x] = char[x]
      /\ a.mount = IF mount # 0 THEN mount ELSE char.mount
      /\ IF Down THEN /\ DOMAIN a.outfit = {"look", "mount"} /\ ~Mounted(a)
                      /\ a.outfit.look = char.outfit.look
                 ELSE a.outfit = char.outfit
      /\ a.speed = char.speed - SpeedRidden(char)
                     + IF Mounted(char) /\ mount # 0 THEN MountSpeed[mount] ELSE 0
  <2>1. CASE Mounted(char) /\ mount # 0
    <3>1. PICK s : s = char.speed + MountSpeed[mount] - MountSpeed[char.mount]
      OBVIOUS
    <3>2. a = [char EXCEPT !.speed = s, !.mount = mount]
      BY <1>2, <2>1, <3>1
    <3>3. /\ DOMAIN a = FieldNames /\ \A x \in Others : a[x] = char[x]
          /\ a.mount = mount /\ a.speed = s /\ a.outfit = char.outfit
      BY <1>1, <3>2 DEF FieldNames
    <3>4. s = char.speed - SpeedRidden(char) + MountSpeed[mount]
      <4>1. /\ MountSpeed[mount] \in Int /\ MountSpeed[char.mount] \in Int
            /\ SpeedRidden(char) = MountSpeed[char.mount]
        BY <1>1, <1>m, <2>1 DEF ConditionsAssumption, MountOK, SpeedRidden
      <4> QED
        BY <1>1, <3>1, <4>1
    <3> QED
      BY <2>1, <3>3, <3>4
  <2>2. CASE ~Mounted(char) /\ mount # 0
    <3>1. a = [char EXCEPT !.mount = mount]
      BY <1>2, <2>2
    <3>2. /\ DOMAIN a = FieldNames /\ \A x \in Others : a[x] = char[x]
          /\ a.mount = mount /\ a.speed = char.speed /\ a.outfit = char.outfit
      BY <1>1, <3>1 DEF FieldNames
    <3>3. SpeedRidden(char) = 0
      BY <2>2 DEF SpeedRidden
    <3> QED
      BY <1>1, <2>2, <3>2, <3>3
  <2>3. CASE Mounted(char) /\ mount = 0
    <3>1. a = Dismount(char)
      BY <1>2, <2>3
    <3>2. /\ DOMAIN a = FieldNames /\ \A x \in FieldNames \ {"outfit", "speed"} : a[x] = char[x]
          /\ a.speed = char.speed - SpeedRidden(char) /\ DOMAIN a.outfit = {"look", "mount"}
          /\ ~Mounted(a) /\ a.outfit.look = char.outfit.look
      BY <1>1, <2>3, <3>1, DismountIs
    <3>3. a.mount = char.mount
      BY <3>2 DEF FieldNames
    <3> QED
      BY <1>1, <2>3, <3>2, <3>3
  <2>4. CASE ~Mounted(char) /\ mount = 0
    <3>1. a = char /\ SpeedRidden(char) = 0
      BY <1>2, <2>4 DEF SpeedRidden
    <3> QED
      BY <1>1, <2>4, <3>1
  <2> QED
    BY <2>1, <2>2, <2>3, <2>4
<1>4. PICK o, b : o = worn /\ b = [a EXCEPT !.outfit = o]
  OBVIOUS
<1>5. /\ DOMAIN b = FieldNames /\ b.outfit = o /\ \A x \in FieldNames \ {"outfit"} : b[x] = a[x]
  BY <1>3, <1>4 DEF FieldNames
<1>6. /\ DOMAIN o = {"look", "mount"} /\ o.mount = IF Mounted(char) THEN mount ELSE 0
  BY <1>4
<1>7. PICK q, e : q = (a.refused \/ a.outfit # char.outfit) /\ e = [a EXCEPT !.refused = q]
  OBVIOUS
<1>77. b = chosen /\ e = turned
  BY <1>2, <1>4, <1>7
<1> HIDE DEF chosen, swapped, worn, turned
<1>8. /\ b.conds = char.conds /\ b.skill = char.skill /\ b.defends = char.defends
      /\ b.enabled = char.enabled /\ b.suppressed = char.suppressed /\ b.worn = char.worn
      /\ b.delayed = char.delayed /\ b.stored = char.stored /\ b.tamed = char.tamed
      /\ b.shown = char.shown /\ b.current = char.current /\ b.left = char.left
      /\ b.mount = a.mount /\ b.speed = a.speed
  BY <1>3, <1>5 DEF FieldNames
<1>9. Unlooked(char, b)
  BY <1>5, <1>8 DEF Unlooked
<1>10. Mounted(b) <=> Mounted(char) /\ mount # 0
  BY <1>5, <1>6 DEF Mounted
<1>11. MountOK(b)
  BY <1>1, <1>m, <1>3, <1>5, <1>6, <1>8, <1>10 DEF MountOK
<1>12. b.speed = char.speed - SpeedRidden(char) + SpeedRidden(b)
  <2>1. SpeedRidden(b) = IF Mounted(char) /\ mount # 0 THEN MountSpeed[mount] ELSE 0
    BY <1>3, <1>8, <1>10 DEF SpeedRidden
  <2> QED
    BY <1>3, <1>8, <2>1
<1>13. CASE char' = b /\ Feels(b, "outfit")
  <2>1. Has(b, "outfit") /\ (Invisible(b) <=> Invisible(char))
    BY <1>8, <1>13 DEF Feels, Has, Invisible
  <2>2. LooksOK(b)
    BY <1>1, <1>8, <2>1 DEF Base, LooksOK
  <2>3. Whole(b, char.worn)
    BY <1>1, <1>9, <1>11, <1>12, <2>2, RiddenWhole
  <2> QED
    BY <1>8, <1>13, <2>3, Becoming
<1>14. CASE char' = Dress(b, b.outfit)
  <2>1. PICK v : v = Dress(b, b.outfit)
    OBVIOUS
  <2>2. Whole(v, char.worn) /\ \A x \in FieldNames \ {"current", "shown", "refused"} : v[x] = b[x]
    BY <1>1, <1>8, <1>9, <1>11, <1>12, <2>1, DressedWhole
  <2>3. v.worn = char.worn
    BY <1>8, <2>2 DEF FieldNames
  <2> QED
    BY <1>14, <2>1, <2>2, <2>3, Becoming
<1>15. CASE char' = e
  <2>1. /\ DOMAIN e = FieldNames /\ e.refused = q
        /\ \A x \in FieldNames \ {"refused"} : e[x] = a[x]
    BY <1>3, <1>7 DEF FieldNames
  <2>2. /\ e.conds = char.conds /\ e.skill = char.skill /\ e.defends = char.defends
        /\ e.enabled = char.enabled /\ e.suppressed = char.suppressed /\ e.worn = char.worn
        /\ e.delayed = char.delayed /\ e.stored = char.stored /\ e.tamed = char.tamed
        /\ e.shown = char.shown /\ e.current = char.current /\ e.left = char.left
        /\ e.mount = a.mount /\ e.speed = a.speed /\ e.outfit = a.outfit
        /\ a.refused = char.refused
    BY <1>3, <2>1 DEF FieldNames
  <2>3. Unlooked(char, e)
    BY <2>1, <2>2 DEF Unlooked
  <2>4. Mounted(e) <=> Mounted(char) /\ mount # 0
    BY <1>3, <2>2 DEF Mounted
  <2>5. MountOK(e)
    BY <1>1, <1>m, <1>3, <2>2, <2>4 DEF MountOK
  <2>6. e.speed = char.speed - SpeedRidden(char) + SpeedRidden(e)
    <3>1. SpeedRidden(e) = IF Mounted(char) /\ mount # 0 THEN MountSpeed[mount] ELSE 0
      BY <1>3, <2>2, <2>4 DEF SpeedRidden
    <3> QED
      BY <1>3, <2>2, <3>1
  <2>7. LooksOK(e)
    <3>1. (Invisible(e) <=> Invisible(char)) /\ (Has(e, "outfit") <=> Has(char, "outfit"))
      BY <2>2 DEF Invisible, Has
    <3>2. LooksOK(char)
      BY <1>1 DEF Base
    <3>3. e.shown = IF Invisible(e) THEN Nothing ELSE e.current
      BY <2>2, <3>1, <3>2 DEF LooksOK
    <3>4. CASE e.outfit = char.outfit
      <4>1. e.refused <=> char.refused
        BY <1>7, <2>1, <2>2, <3>4
      <4> QED
        BY <2>2, <3>1, <3>2, <3>3, <3>4, <4>1 DEF LooksOK
    <3>5. CASE e.outfit # char.outfit
      <4>1. e.refused
        BY <1>7, <2>1, <2>2, <3>5
      <4>2. e.outfit.look = char.outfit.look
        BY <1>3, <2>2, <3>5
      <4>3. char.current # char.outfit =>
              Has(char, "outfit") \/ char.current.look = char.outfit.look
        BY <3>2 DEF LooksOK
      <4> QED
        BY <2>2, <3>1, <3>3, <4>1, <4>2, <4>3 DEF LooksOK
    <3> QED
      BY <3>4, <3>5
  <2>8. Whole(e, char.worn)
    BY <1>1, <2>3, <2>5, <2>6, <2>7, RiddenWhole
  <2> QED
    BY <1>15, <2>2, <2>8, Becoming
<1> QED
  BY <1>0, <1>77, <1>13, <1>14, <1>15

\* Player::tameMount.
LEMMA TameMountKeeps ==
  ASSUME CharInv, NEW m \in Mounts, TameMount(m)
  PROVE  CharInv'
<1>1. PICK z : z = char.tamed \cup {m}
  OBVIOUS
<1>2. PICK v : v = [char EXCEPT !.tamed = z]
  OBVIOUS
<1>3. char' = v
  BY <1>1, <1>2 DEF TameMount, Becomes
<1>4. /\ DOMAIN char = FieldNames /\ char.delayed \in Seq(Events)
      /\ z \in SUBSET Mounts /\ char.stored \in Seq(Spelled)
  BY <1>1 DEF CharInv, Whole, Base, Sound, MountOK
<1>5. DOMAIN v = FieldNames /\ v.tamed = z /\ \A x \in FieldNames \ {"tamed"} : v[x] = char[x]
  BY <1>2, <1>4 DEF FieldNames
<1>6. /\ v.conds = char.conds /\ v.speed = char.speed /\ v.skill = char.skill
      /\ v.defends = char.defends /\ v.enabled = char.enabled
      /\ v.suppressed = char.suppressed /\ v.outfit = char.outfit
      /\ v.current = char.current /\ v.shown = char.shown /\ v.mount = char.mount
      /\ v.stored = char.stored /\ v.delayed = char.delayed /\ v.worn = char.worn
      /\ v.left = char.left /\ v.refused = char.refused
  BY <1>5 DEF FieldNames
<1>7. Whole(v, char.worn)
  BY <1>4, <1>5, <1>6, OthersWhole DEF CharInv
<1> QED
  BY <1>3, <1>6, <1>7, Becoming

\* Only the mount of one who does not ride changes.
LEMMA UnriddenWhole ==
  ASSUME ConditionsAssumption, NEW c, NEW w, Whole(c, w), ~Mounted(c), NEW m \in Mounts \cup {0}
  PROVE  LET v == [c EXCEPT !.mount = m] IN Whole(v, w) /\ v.worn = c.worn
<1>1. PICK v : v = [c EXCEPT !.mount = m]
  OBVIOUS
<1>2. /\ DOMAIN c = FieldNames /\ MountOK(c) /\ LooksOK(c) /\ c.speed \in Int
  BY SumsAreInt DEF Whole, Base, Sound
<1>3. DOMAIN v = FieldNames /\ v.mount = m /\ \A x \in FieldNames \ {"mount"} : v[x] = c[x]
  BY <1>1, <1>2 DEF FieldNames
<1>4. /\ v.conds = c.conds /\ v.speed = c.speed /\ v.skill = c.skill /\ v.defends = c.defends
      /\ v.enabled = c.enabled /\ v.suppressed = c.suppressed /\ v.outfit = c.outfit
      /\ v.current = c.current /\ v.shown = c.shown /\ v.tamed = c.tamed
      /\ v.left = c.left /\ v.refused = c.refused
      /\ v.stored = c.stored /\ v.delayed = c.delayed /\ v.worn = c.worn
  BY <1>3 DEF FieldNames
<1>5. Unlooked(c, v)
  BY <1>3, <1>4 DEF Unlooked
<1>6. ~Mounted(v) /\ MountOK(v)
  BY <1>2, <1>3, <1>4 DEF Mounted, MountOK
<1>7. v.speed = c.speed - SpeedRidden(c) + SpeedRidden(v)
  BY <1>2, <1>4, <1>6 DEF SpeedRidden
<1>8. LooksOK(v)
  BY <1>2, <1>4 DEF LooksOK, Invisible, Has
<1> QED
  BY <1>1, <1>4, <1>5, <1>6, <1>7, <1>8, RiddenWhole

\* Player::untameMount.
LEMMA UntameMountKeeps ==
  ASSUME ConditionsAssumption, CharInv, NEW m \in Mounts, UntameMount(m)
  PROVE  CharInv'
<1>1. PICK z : z = char.tamed \ {m}
  OBVIOUS
<1>2. PICK b : b = [char EXCEPT !.tamed = z]
  OBVIOUS
<1>3. PICK down : down = IF Mounted(b) THEN Dismounting(b) ELSE b
  OBVIOUS
<1>4. char' = IF char.mount = m THEN [down EXCEPT !.mount = 0] ELSE b
  BY <1>1, <1>2, <1>3 DEF UntameMount, Becomes
<1>5. /\ DOMAIN char = FieldNames /\ char.delayed \in Seq(Events)
      /\ z \in SUBSET Mounts /\ char.stored \in Seq(Spelled)
  BY <1>1 DEF CharInv, Whole, Base, Sound, MountOK
<1>6. DOMAIN b = FieldNames /\ b.tamed = z /\ \A x \in FieldNames \ {"tamed"} : b[x] = char[x]
  BY <1>2, <1>5 DEF FieldNames
<1>7. /\ b.conds = char.conds /\ b.speed = char.speed /\ b.skill = char.skill
      /\ b.defends = char.defends /\ b.enabled = char.enabled
      /\ b.suppressed = char.suppressed /\ b.outfit = char.outfit
      /\ b.current = char.current /\ b.shown = char.shown /\ b.mount = char.mount
      /\ b.stored = char.stored /\ b.delayed = char.delayed /\ b.worn = char.worn
      /\ b.left = char.left /\ b.refused = char.refused
  BY <1>6 DEF FieldNames
<1>8. Whole(b, char.worn)
  BY <1>5, <1>6, <1>7, OthersWhole DEF CharInv
<1>9. Whole(down, char.worn) /\ ~Mounted(down) /\ down.worn = char.worn
  <2>1. CASE Mounted(b)
    <3>1. down = Dismounting(b)
      BY <1>3, <2>1
    <3>2. /\ Whole(down, char.worn) /\ ~Mounted(down)
          /\ \A x \in FieldNames \ {"outfit", "speed", "current", "shown", "refused"} : down[x] = b[x]
      BY <1>8, <2>1, <3>1, DismountingWhole
    <3> QED
      BY <1>7, <3>2 DEF FieldNames
  <2>2. CASE ~Mounted(b)
    BY <1>3, <1>7, <1>8, <2>2
  <2> QED
    BY <2>1, <2>2
<1>10. CASE char.mount = m
  <2>1. PICK v, no : v = [down EXCEPT !.mount = no] /\ no = 0
    OBVIOUS
  <2>2. Whole(v, char.worn) /\ v.worn = down.worn
    BY <1>9, <2>1, UnriddenWhole
  <2>3. char' = v /\ v.worn = char.worn
    BY <1>4, <1>9, <1>10, <2>1, <2>2
  <2> QED
    BY <2>2, <2>3, Becoming
<1>11. CASE char.mount # m
  BY <1>4, <1>7, <1>8, <1>11, Becoming
<1> QED
  BY <1>10, <1>11

\* The flags of the player that nothing here is about.
Flags == {"zone", "wasMounted", "online"}

\* They may change.
LEMMA FlagWhole ==
  ASSUME NEW c, NEW w, Whole(c, w), NEW x \in Flags, NEW z
  PROVE  LET v == [c EXCEPT ![x] = z]
         IN Whole(v, w) /\ v.worn = c.worn /\ v.stored = c.stored /\ DOMAIN v = FieldNames
<1>1. PICK v : v = [c EXCEPT ![x] = z]
  OBVIOUS
<1>2. /\ DOMAIN c = FieldNames /\ c.delayed \in Seq(Events)
      /\ c.tamed \in SUBSET Mounts /\ c.stored \in Seq(Spelled)
  BY DEF Whole, Base, Sound, MountOK
<1>3. DOMAIN v = FieldNames /\ (\A y \in FieldNames \ {x} : v[y] = c[y]) /\ x \in Flags
  BY <1>1, <1>2
<1>4. /\ v.conds = c.conds /\ v.speed = c.speed /\ v.skill = c.skill /\ v.defends = c.defends
      /\ v.enabled = c.enabled /\ v.suppressed = c.suppressed /\ v.outfit = c.outfit
      /\ v.current = c.current /\ v.shown = c.shown /\ v.mount = c.mount /\ v.tamed = c.tamed
      /\ v.left = c.left /\ v.refused = c.refused
      /\ v.stored = c.stored /\ v.delayed = c.delayed /\ v.worn = c.worn
  BY <1>3 DEF FieldNames, Flags
<1>5. Whole(v, w)
  BY <1>2, <1>3, <1>4, OthersWhole
<1> QED
  BY <1>1, <1>3, <1>4, <1>5

\* Player::onChangeZone.
LEMMA ChangeZoneKeeps ==
  ASSUME ConditionsAssumption, CharInv, ChangeZone
  PROVE  CharInv'
<1>0. PICK z, x, y : z = ~char.zone /\ x = "zone" /\ y = "wasMounted"
  OBVIOUS
<1>1. PICK b : b = [char EXCEPT ![x] = z]
  OBVIOUS
<1>2. Whole(b, char.worn) /\ b.worn = char.worn
  <2>1. x \in Flags /\ Whole(char, char.worn)
    BY <1>0 DEF CharInv, Flags
  <2> QED
    BY <1>1, <2>1, FlagWhole
<1>3. y \in Flags
  BY <1>0 DEF Flags
<1>4. b = [char EXCEPT !.zone = ~@]
  BY <1>0, <1>1
<1>5. char' = IF b.zone /\ Mounted(b) THEN [Dismounting(b) EXCEPT !.wasMounted = TRUE]
              ELSE IF ~b.zone /\ b.wasMounted THEN [Mounting(b) EXCEPT !.wasMounted = FALSE] ELSE b
  BY <1>4 DEF ChangeZone, Becomes
<1>6. CASE b.zone /\ Mounted(b)
  <2>1. PICK c, t : c = Dismounting(b) /\ t = TRUE
    OBVIOUS
  <2>2. /\ Whole(c, char.worn)
        /\ \A k \in FieldNames \ {"outfit", "speed", "current", "shown", "refused"} : c[k] = b[k]
    BY <1>2, <1>6, <2>1, DismountingWhole
  <2>3. c.worn = char.worn
    BY <1>2, <2>2 DEF FieldNames
  <2>4. PICK v : v = [c EXCEPT ![y] = t]
    OBVIOUS
  <2>5. Whole(v, char.worn) /\ v.worn = c.worn
    BY <1>3, <2>2, <2>4, FlagWhole
  <2>6. char' = v
    BY <1>0, <1>5, <1>6, <2>1, <2>4
  <2> QED
    BY <2>3, <2>5, <2>6, Becoming
<1>7. CASE ~(b.zone /\ Mounted(b)) /\ ~b.zone /\ b.wasMounted
  <2>1. PICK c, t : c = Mounting(b) /\ t = FALSE
    OBVIOUS
  <2>2. /\ Whole(c, char.worn)
        /\ \A k \in FieldNames \ {"outfit", "speed", "current", "shown", "refused"} : c[k] = b[k]
    BY <1>2, <2>1, MountingWhole
  <2>3. c.worn = char.worn
    BY <1>2, <2>2 DEF FieldNames
  <2>4. PICK v : v = [c EXCEPT ![y] = t]
    OBVIOUS
  <2>5. Whole(v, char.worn) /\ v.worn = c.worn
    BY <1>3, <2>2, <2>4, FlagWhole
  <2>6. char' = v
    BY <1>0, <1>5, <1>7, <2>1, <2>4
  <2> QED
    BY <2>3, <2>5, <2>6, Becoming
<1>8. CASE ~(b.zone /\ Mounted(b)) /\ ~(~b.zone /\ b.wasMounted)
  BY <1>2, <1>5, <1>8, Becoming
<1> QED
  BY <1>6, <1>7, <1>8
-----------------------------------------------------------------------------
(* Leaving and coming back.                                                *)

\* What loadPlayer makes.
LEMMA FreshWhole ==
  ASSUME NEW c, DOMAIN c = FieldNames, WornOK(c.worn), c.mount \in Mounts \cup {0},
         c.tamed \in SUBSET Mounts, c.stored \in Seq(Spelled)
  PROVE  LET v == Fresh(c)
         IN  Whole(v, c.worn) /\ v.worn = c.worn /\ v.stored = c.stored /\ DOMAIN v = FieldNames
<1>1. PICK p : p = Plain(c.outfit.look)
  OBVIOUS
<1>2. PICK v : v = Fresh(c)
  OBVIOUS
<1>3. v = [c EXCEPT !.conds = <<>>, !.speed = 0, !.skill = 0, !.defends = TRUE, !.suppressed = {},
                    !.enabled = {}, !.outfit = p, !.current = p, !.shown = p,
                    !.wasMounted = FALSE, !.delayed = <<>>, !.left = NothingLeft, !.refused = FALSE]
  BY <1>1, <1>2 DEF Fresh
<1>4. /\ DOMAIN v = FieldNames /\ v.conds = <<>> /\ v.speed = 0 /\ v.skill = 0 /\ v.defends = TRUE
      /\ v.suppressed = {} /\ v.enabled = {} /\ v.outfit = p /\ v.current = p /\ v.shown = p
      /\ v.delayed = <<>> /\ v.worn = c.worn /\ v.mount = c.mount /\ v.tamed = c.tamed
      /\ v.stored = c.stored /\ v.left = NothingLeft
  BY <1>3 DEF FieldNames
<1>5. ~Mounted(v) /\ MountOK(v)
  <2>1. DOMAIN p = {"look", "mount"} /\ p.mount = 0
    BY <1>1 DEF Plain
  <2> QED
    BY <1>4, <2>1 DEF Mounted, MountOK
<1>6. Keyed(v.conds) /\ ToSet(v.conds) = {}
  <2>1. <<>> \in Seq(Condition) /\ DOMAIN <<>> = {}
    BY EmptySeq
  <2>2. ToSet(<<>>) = {}
    BY <2>1 DEF ToSet
  <2> QED
    BY <1>4, <2>1, <2>2 DEF Keyed, Different, KeysDiffer
<1>7. Sound(v)
  <2>1. <<>> \in Seq(Events)
    BY EmptySeq
  <2>2. NothingLeft.speed \in Int /\ NothingLeft.skill \in Int
    BY DEF NothingLeft
  <2> QED
    BY <1>4, <1>5, <1>6, <2>1, <2>2 DEF Sound, ItemShaped
<1>8. SumsOK(v, c.worn)
  <2>1. Speeds({}) = 0 /\ Skills({}) = 0 /\ SpeedOver({}, c.worn) = 0 /\ SkillOver({}, c.worn) = 0
    BY GivenByNone, WornByNone
  <2>2. SpeedRidden(v) = 0
    BY <1>5 DEF SpeedRidden
  <2>3. /\ Speeds(ToSet(v.conds)) = 0 /\ Skills(ToSet(v.conds)) = 0
        /\ SpeedOver(v.enabled, c.worn) = 0 /\ SkillOver(v.enabled, c.worn) = 0
    BY <1>4, <1>6, <2>1
  <2>4. v.speed = 0 /\ v.skill = 0 /\ v.left.speed = 0 /\ v.left.skill = 0
    BY <1>4 DEF NothingLeft
  <2> QED
    BY <2>2, <2>3, <2>4 DEF SumsOK
<1>9. DefenceOK(v) /\ LooksOK(v)
  <2>1. ~Invisible(v)
    BY <1>6, HasIs DEF Invisible
  <2> QED
    BY <1>4, <2>1 DEF DefenceOK, LooksOK
<1>10. InForceOK(v.enabled, c.worn) /\ GearOK(v, c.worn)
  <2>1. Items(v) = {}
    BY <1>6 DEF Items, Pairs, Given
  <2>2. OwnOver({}, c.worn) = {} /\ NothingLeft.conds = {}
    BY DEF OwnOver, NothingLeft
  <2> QED
    BY <1>4, <2>1, <2>2 DEF InForceOK, GearOK
<1> QED
  BY <1>2, <1>4, <1>7, <1>8, <1>9, <1>10 DEF Whole, Base

\* A player is saved and gone.
LEMMA LeaveWhole ==
  ASSUME NEW c, Whole(c, c.worn)
  PROVE  LET v == Leave(c) IN Whole(v, c.worn) /\ v.worn = c.worn
<1>1. PICK b, q : b = Fresh(c) /\ q = Stored(c.conds)
  OBVIOUS
<1>2. /\ DOMAIN c = FieldNames /\ WornOK(c.worn) /\ c.mount \in Mounts \cup {0}
      /\ c.tamed \in SUBSET Mounts /\ c.stored \in Seq(Spelled) /\ c.conds \in Seq(Condition)
  BY DEF Whole, Base, Sound, MountOK, Keyed
<1>3. Whole(b, c.worn) /\ b.worn = c.worn
  BY <1>1, <1>2, FreshWhole
<1>4. q \in Seq(Spelled)
  BY <1>1, <1>2, StoredIs
<1>5. PICK v : v = [b EXCEPT !.online = FALSE, !.stored = q]
  OBVIOUS
<1>6. /\ DOMAIN b = FieldNames /\ b.tamed \in SUBSET Mounts /\ b.delayed \in Seq(Events)
  BY <1>3 DEF Whole, Base, Sound, MountOK
<1>7. /\ DOMAIN v = FieldNames /\ v.stored = q
      /\ \A x \in FieldNames \ {"online", "stored"} : v[x] = b[x]
  BY <1>5, <1>6 DEF FieldNames
<1>8. /\ v.conds = b.conds /\ v.speed = b.speed /\ v.skill = b.skill /\ v.defends = b.defends
      /\ v.enabled = b.enabled /\ v.suppressed = b.suppressed /\ v.outfit = b.outfit
      /\ v.current = b.current /\ v.shown = b.shown /\ v.mount = b.mount /\ v.tamed = b.tamed
      /\ v.delayed = b.delayed /\ v.worn = b.worn /\ v.left = b.left /\ v.refused = b.refused
  BY <1>7 DEF FieldNames
<1>9. Whole(v, c.worn)
  BY <1>3, <1>4, <1>6, <1>7, <1>8, OthersWhole
<1>10. Leave(c) = v
  BY <1>1, <1>5 DEF Leave
<1> QED
  BY <1>3, <1>8, <1>9, <1>10

\* Saving at a logout.
LEMMA CharLogoutKeeps ==
  ASSUME CharInv, CharLogout
  PROVE  CharInv'
<1>1. PICK v : v = Leave(char)
  OBVIOUS
<1>2. Whole(v, char.worn) /\ v.worn = char.worn
  BY <1>1, LeaveWhole DEF CharInv
<1>3. char' = v
  BY <1>1 DEF CharLogout, Becomes
<1> QED
  BY <1>2, <1>3, Becoming

\* Player::death.
LEMMA CharDeathKeeps ==
  ASSUME ConditionsAssumption, CharInv, CharDeath
  PROVE  CharInv'
<1>1. PICK D : D = {d \in ToSet(char.conds) : Persistent(d)}
  OBVIOUS
<1>2. PICK bare : bare = EndAll(char, D)
  OBVIOUS
<1>3. char' = bare \/ char' = Leave(bare)
  BY <1>1, <1>2 DEF CharDeath, Becomes
<1>4. \A d \in Given(ToSet(char.conds)) : d \notin D
  BY <1>1, ItemsAre DEF CharInv, Persistent
<1>5. Whole(bare, char.worn) /\ Kept(char, bare)
  BY <1>2, <1>4, EndAllWhole DEF CharInv
<1>6. bare.worn = char.worn
  BY <1>5 DEF Kept
<1>7. PICK v : v = Leave(bare)
  OBVIOUS
<1>8. Whole(v, char.worn) /\ v.worn = char.worn
  <2>1. Whole(bare, bare.worn)
    BY <1>5, <1>6
  <2>2. Whole(v, bare.worn) /\ v.worn = bare.worn
    BY <1>7, <2>1, LeaveWhole
  <2> QED
    BY <1>6, <2>2
<1> QED
  BY <1>3, <1>5, <1>6, <1>7, <1>8, Becoming

\* onCreatureAppear of the player itself.
LEMMA CharLoginKeeps ==
  ASSUME ConditionsAssumption, CharInv, CharLogin
  PROVE  CharInv'
<1>1. PICK over : char' = RestoreAll(WearAll([char EXCEPT !.online = TRUE, !.stored = <<>>]),
                                     char.stored, over)
  BY DEF CharLogin
<1>2. PICK b : b = [char EXCEPT !.online = TRUE, !.stored = <<>>]
  OBVIOUS
<1>3. /\ DOMAIN char = FieldNames /\ char.delayed \in Seq(Events)
      /\ char.tamed \in SUBSET Mounts /\ char.stored \in Seq(Spelled) /\ <<>> \in Seq(Spelled)
  BY EmptySeq DEF CharInv, Whole, Base, Sound, MountOK
<1>4. /\ DOMAIN b = FieldNames /\ b.stored = <<>>
      /\ \A x \in FieldNames \ {"online", "stored"} : b[x] = char[x]
  BY <1>2, <1>3 DEF FieldNames
<1>5. /\ b.conds = char.conds /\ b.speed = char.speed /\ b.skill = char.skill
      /\ b.defends = char.defends /\ b.enabled = char.enabled
      /\ b.suppressed = char.suppressed /\ b.outfit = char.outfit
      /\ b.current = char.current /\ b.shown = char.shown /\ b.mount = char.mount
      /\ b.tamed = char.tamed /\ b.delayed = char.delayed /\ b.worn = char.worn
      /\ b.left = char.left /\ b.refused = char.refused
  BY <1>4 DEF FieldNames
<1>6. Whole(b, char.worn)
  BY <1>3, <1>4, <1>5, OthersWhole DEF CharInv
<1>7. PICK clad : clad = WearAll(b)
  OBVIOUS
<1>8. Whole(clad, clad.worn)
  <2>1. Whole(b, b.worn)
    BY <1>5, <1>6
  <2> QED
    BY <1>7, <2>1, WearAllWhole
<1>9. PICK v : v = RestoreAll(clad, char.stored, over)
  OBVIOUS
<1>10. Whole(v, clad.worn) /\ Kept(clad, v)
  BY <1>3, <1>8, <1>9, RestoreAllWhole
<1>11. char' = v /\ v.worn = clad.worn
  BY <1>1, <1>2, <1>7, <1>9, <1>10 DEF Kept
<1> QED
  BY <1>10, <1>11, Becoming

\* A new player.
LEMMA CharInvInit ==
  ASSUME ConditionsInit
  PROVE  CharInv
<1>1. PICK c : c =
        [online |-> FALSE, conds |-> <<>>, speed |-> 0, skill |-> 0, defends |-> TRUE,
         suppressed |-> {}, worn |-> [s \in Slots |-> Bare], enabled |-> {}, strong |-> TRUE,
         outfit |-> Plain(1), current |-> Plain(1), shown |-> Plain(1), mount |-> 0,
         tamed |-> Mounts, wasMounted |-> FALSE, zone |-> FALSE, delayed |-> <<>>,
         stored |-> <<>>, left |-> NothingLeft, refused |-> FALSE]
  OBVIOUS
<1>2. DOMAIN c = FieldNames
  BY <1>1 DEF FieldNames
<1>3. c.worn = [s \in Slots |-> Bare] /\ c.mount = 0 /\ c.tamed = Mounts /\ c.stored = <<>>
  BY <1>1
<1>4. WornOK(c.worn)
  BY <1>3 DEF WornOK
<1>5. c.stored \in Seq(Spelled)
  BY <1>3, EmptySeq
<1>6. PICK v : v = Fresh(c)
  OBVIOUS
<1>7. Whole(v, c.worn) /\ v.worn = c.worn
  BY <1>2, <1>3, <1>4, <1>5, <1>6, FreshWhole
<1>8. char = v
  BY <1>1, <1>6 DEF ConditionsInit, Newcomer
<1> QED
  BY <1>7, <1>8 DEF CharInv

\* Every step keeps the invariant.
LEMMA CharInvNext ==
  ASSUME ConditionsAssumption, CharInv, NEW Spells, \A d \in Spells : IsSpell(d), NEW Looks,
         [ConditionsNext(Spells, Looks)]_char
  PROVE  CharInv'
<1>1. CASE UNCHANGED char
  BY <1>1 DEF CharInv
<1>2. CASE SpellNext(Spells)
  <2>1. ASSUME NEW d \in Spells, Cast(d) PROVE CharInv'
    <3>1. d \in Spelled
      BY <2>1 DEF IsSpell, Spelled
    <3> QED
      BY <2>1, <3>1, CastKeeps
  <2>2. ASSUME NEW d \in Spells, Dispel(d.type) PROVE CharInv'
    <3>1. PICK type : type = d.type
      OBVIOUS
    <3> QED
      BY <2>2, <3>1, DispelKeeps
  <2>3. ASSUME NEW i \in DOMAIN char.conds, Expire(i) \/ Lift(i) PROVE CharInv'
    BY <2>3, ExpireKeeps, LiftKeeps
  <2>4. ASSUME NEW i \in DOMAIN char.delayed, DelayedRuns(i) PROVE CharInv'
    BY <2>4, DelayedRunsKeeps
  <2>5. CASE ExecuteConditions
    BY <2>5, ExecuteConditionsKeeps
  <2> QED
    BY <1>2, <2>1, <2>2, <2>3, <2>4, <2>5 DEF SpellNext
<1>3. CASE GearNext(Gear)
  BY <1>3, PutOnKeeps, TakeOffKeeps, UseChargeKeeps DEF GearNext
<1>4. CASE LookNext(Looks, Mounts)
  BY <1>4, PlayerChangeOutfitKeeps DEF LookNext
<1>5. CASE MountNext
  BY <1>5, TameMountKeeps, UntameMountKeeps, ToggleMountKeeps, ChangeZoneKeeps DEF MountNext
<1>6. CASE ComeAndGo
  BY <1>6, CharLoginKeeps, CharLogoutKeeps, CharDeathKeeps DEF ComeAndGo
<1>7. CASE ChangeLevel
  BY <1>7, ChangeLevelKeeps
<1> QED
  BY <1>1, <1>2, <1>3, <1>4, <1>5, <1>6, <1>7 DEF ConditionsNext

\* Every state of a player is whole.
LEMMA CharInvAlways ==
  ASSUME ConditionsAssumption, NEW CONSTANT Spells, \A d \in Spells : IsSpell(d), NEW CONSTANT Looks
  PROVE  ConditionsSpec(Spells, Looks) => []CharInv
<1>1. ConditionsInit => CharInv
  BY CharInvInit
<1>2. CharInv /\ [ConditionsNext(Spells, Looks)]_char => CharInv'
  BY CharInvNext
<1> QED
  BY <1>1, <1>2, PTL DEF ConditionsSpec
-----------------------------------------------------------------------------
(* What follows.                                                           *)

\* The conditions of an item are there exactly while it is in force or left of one that turned.
LEMMA ItemConditionsHold ==
  ASSUME ConditionsAssumption, CharInv
  PROVE  ItemConditions
<1>1. /\ Keyed(char.conds) /\ ItemShaped(ToSet(char.conds)) /\ WornOK(char.worn)
      /\ Items(char) = OwnOver(char.enabled, char.worn) \cup char.left.conds
      /\ InForceOK(char.enabled, char.worn)
  BY DEF CharInv, Whole, Base, Sound, GearOK
<1>2. \A i, j \in DOMAIN char.conds : Key(char.conds[i]) = Key(char.conds[j]) => i = j
  BY <1>1, KeyedIs
<1>3. ASSUME NEW slot \in Slots, NEW type \in {"invisible", "regeneration"}
      PROVE  (\E i \in DOMAIN char.conds : Key(char.conds[i]) = <<type, slot, 0>>)
               <=> \/ slot \in char.enabled /\ <<type, slot>> \in GivenBy(char.worn[slot])
                   \/ <<type, slot>> \in char.left.conds
  <2>1. (\E i \in DOMAIN char.conds : Key(char.conds[i]) = <<type, slot, 0>>)
          <=> <<type, slot>> \in Items(char)
    <3>1. ASSUME NEW i \in DOMAIN char.conds, Key(char.conds[i]) = <<type, slot, 0>>
          PROVE  <<type, slot>> \in Items(char)
      <4>1. PICK d : d = char.conds[i]
        OBVIOUS
      <4>2. d \in ToSet(char.conds) /\ d.type = type /\ d.id = slot
        BY <3>1, <4>1 DEF ToSet, Key
      <4>3. d \in Given(ToSet(char.conds))
        BY <4>2 DEF Given, Slots, Combat
      <4> QED
        BY <4>2, <4>3 DEF Items, Pairs
    <3>2. ASSUME <<type, slot>> \in Items(char)
          PROVE  \E i \in DOMAIN char.conds : Key(char.conds[i]) = <<type, slot, 0>>
      <4>1. PICK d \in Given(ToSet(char.conds)) : <<d.type, d.id>> = <<type, slot>>
        BY <3>2 DEF Items, Pairs
      <4>2. d \in ToSet(char.conds) /\ d.type = type /\ d.id = slot /\ d.sub = 0
        BY <1>1, <4>1 DEF Given, ItemShaped
      <4>3. PICK i \in DOMAIN char.conds : char.conds[i] = d
        BY <4>2 DEF ToSet
      <4> QED
        BY <4>2, <4>3 DEF Key
    <3> QED
      BY <3>1, <3>2
  <2>2. <<type, slot>> \in OwnOver(char.enabled, char.worn)
          <=> slot \in char.enabled /\ <<type, slot>> \in GivenBy(char.worn[slot])
    <3>1. ASSUME NEW s \in char.enabled, <<type, slot>> \in GivenBy(char.worn[s])
          PROVE  s = slot
      <4>1. PICK item, g : item = char.worn[s] /\ g = Gives[item]
        OBVIOUS
      <4>2. g.slot = s
        BY <1>1, <4>1 DEF WornOK, InForceOK, ConditionsAssumption
      <4>3. \A p \in GivenBy(item) : p[2] = g.slot
        BY <4>1, GivenByIs
      <4> QED
        BY <3>1, <4>1, <4>2, <4>3
    <3> QED
      BY <3>1 DEF OwnOver
  <2> QED
    BY <1>1, <2>1, <2>2
<1> QED
  BY <1>2, <1>3 DEF ItemConditions

\* For any items, mounts, spells and looks: what the conditions, the items in force and
\* the mount give is what the player has, together with what is left of items that turned
\* as they were taken off, and what is suppressed or disabled has a cause
\* (Creature::addCondition, Player::updateAbilityConditions, DeEquipItem, Player::dismount).
THEOREM BonusesAddUp ==
  ASSUME ConditionsAssumption, NEW CONSTANT Spells, \A d \in Spells : IsSpell(d), NEW CONSTANT Looks
  PROVE  ConditionsSpec(Spells, Looks) => []BonusesAgree
<1>1. ASSUME CharInv PROVE BonusesAgree
  <2>1. ItemConditions
    BY <1>1, ItemConditionsHold
  <2>2. /\ SpeedWorn(char) = SpeedOver(char.enabled, char.worn)
        /\ SkillWorn(char) = SkillOver(char.enabled, char.worn)
    BY DEF SpeedWorn, SpeedOver, SkillWorn, SkillOver
  <2>3. /\ char.speed = Speeds(ToSet(char.conds)) + SpeedWorn(char) + SpeedRidden(char) + char.left.speed
        /\ char.skill = Skills(ToSet(char.conds)) + SkillWorn(char) + char.left.skill
    BY <1>1, <2>2 DEF CharInv, Whole, Base, SumsOK
  <2>4. char.suppressed \subseteq (UNION {Gives[g].immune : g \in InForce(char)}) \cup char.left.immune
    <3>1. \A x \in ImmuneOver(char.enabled, char.worn) : x \in UNION {Gives[g].immune : g \in InForce(char)}
      BY DEF ImmuneOver, InForce
    <3>2. char.suppressed \subseteq ImmuneOver(char.enabled, char.worn) \cup char.left.immune
      BY <1>1 DEF CharInv, Whole, GearOK
    <3> QED
      BY <3>1, <3>2
  <2>5. ~char.defends =>
           \E i \in DOMAIN char.conds : char.conds[i].type = "attributes" /\ char.conds[i].noDefense
    BY <1>1 DEF CharInv, Whole, Base, DefenceOK, ToSet
  <2> QED
    BY <2>1, <2>3, <2>4, <2>5 DEF BonusesAgree
<1>2. ConditionsSpec(Spells, Looks) => []CharInv
  BY CharInvAlways
<1>3. CharInv => BonusesAgree
  BY <1>1
<1> QED
  BY <1>2, <1>3, PTL

\* And the others see nothing of the player exactly while something hides it, and an
\* outfit that is not its own only while a condition lasts, or on the mount it was taken
\* from with a look that it was refused (ConditionInvisible::endCondition,
\* ConditionOutfit::endCondition, Game::playerChangeOutfit).
THEOREM AppearanceIsRight ==
  ASSUME ConditionsAssumption, NEW CONSTANT Spells, \A d \in Spells : IsSpell(d), NEW CONSTANT Looks
  PROVE  ConditionsSpec(Spells, Looks) => []AppearanceAgrees
<1>1. ConditionsSpec(Spells, Looks) => []CharInv
  BY CharInvAlways
<1>2. CharInv => AppearanceAgrees
  BY DEF CharInv, Whole, Base, LooksOK, AppearanceAgrees
<1> QED
  BY <1>1, <1>2, PTL
=============================================================================
