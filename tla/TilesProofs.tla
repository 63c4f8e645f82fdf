----------------------------- MODULE TilesProofs ----------------------------
(***************************************************************************)
(* Theorems about module Tiles, for any tiles, items, creatures and        *)
(* players: the cached flags of a tile tell what its items are like, and   *)
(* the container of who browses a tile holds the movable items of the tile *)
(* and lives as long as it is referred to.                                 *)
(*                                                                         *)
(* Every operation of the model is a function from a world to a world, put *)
(* together from a few changes.  For each of these there is a lemma that   *)
(* it keeps the invariant of a world; the operations follow from them.     *)
(***************************************************************************)
EXTENDS Tiles, DataInduction

\* A world has these fields, whatever they hold.
FieldNames ==
  {"ground", "top", "down", "crowd", "kind", "parent", "hidden", "flags", "view", "browsed",
   "list", "refs", "timer", "opened", "behind", "missed", "stuck", "leaked", "dangling"}
Shape(s) == DOMAIN s = FieldNames

Distinct(q) == \A m, n \in DOMAIN q : q[m] = q[n] => m = n
Lying(s) == UNION {On(s, t) : t \in Squares}
-----------------------------------------------------------------------------
(* Lists without an element twice.                                         *)

\* std::find and erase: the element goes, the others stay.
LEMMA WithoutIs ==
  ASSUME NEW X, NEW q \in Seq(X), Distinct(q), NEW x
  PROVE  /\ Without(q, x) \in Seq(X) /\ Distinct(Without(q, x))
         /\ Elems(Without(q, x)) = Elems(q) \ {x}
         /\ x \notin Elems(q) => Without(q, x) = q
<1>1. \A r : (Distinct(r) <=> Different(r)) /\ Elems(r) = ToSet(r)
  BY DEF Distinct, Different, Elems, ToSet
<1> QED
  BY <1>1, RemoveFirstIs DEF Without

\* push_front.
LEMMA ConsIs ==
  ASSUME NEW X, NEW q \in Seq(X), Distinct(q), NEW x \in X, x \notin Elems(q)
  PROVE  /\ <<x>> \o q \in Seq(X) /\ Distinct(<<x>> \o q)
         /\ Elems(<<x>> \o q) = Elems(q) \cup {x}
<1>1. PICK w : w = <<x>> \o q
  OBVIOUS
<1>2. /\ w \in Seq(X) /\ Len(w) = Len(q) + 1 /\ w[1] = x
      /\ \A m \in 2..(Len(q) + 1) : w[m] = q[m - 1]
  BY <1>1
<1>3. \A m \in 1..Len(q) : m + 1 \in DOMAIN w /\ w[m + 1] = q[m]
  BY <1>2
<1>4. Distinct(w)
  BY <1>2 DEF Distinct, Elems
<1>5. Elems(w) = Elems(q) \cup {x}
  <2>1. \A y \in Elems(w) : y \in Elems(q) \cup {x}
    <3> TAKE y \in Elems(w)
    <3>1. PICK m \in 1..(Len(q) + 1) : y = w[m]
      BY <1>2 DEF Elems
    <3>2. m > 1 => m - 1 \in DOMAIN q /\ y = q[m - 1]
      BY <1>2, <3>1
    <3> QED
      BY <1>2, <3>1, <3>2 DEF Elems
  <2>2. x \in Elems(w)
    BY <1>2 DEF Elems
  <2>3. \A y \in Elems(q) : y \in Elems(w)
    BY <1>3 DEF Elems
  <2> QED
    BY <2>1, <2>2, <2>3
<1> QED
  BY <1>1, <1>2, <1>4, <1>5

\* push_back.
LEMMA AppendIs ==
  ASSUME NEW X, NEW q \in Seq(X), Distinct(q), NEW x \in X, x \notin Elems(q)
  PROVE  /\ Append(q, x) \in Seq(X) /\ Distinct(Append(q, x))
         /\ Elems(Append(q, x)) = Elems(q) \cup {x}
<1>1. PICK v : v = Append(q, x)
  OBVIOUS
<1>2. /\ v \in Seq(X) /\ Len(v) = Len(q) + 1 /\ v[Len(q) + 1] = x
      /\ \A m \in 1..Len(q) : v[m] = q[m]
  BY <1>1
<1>3. Distinct(v)
  BY <1>2 DEF Distinct, Elems
<1>4. Elems(v) = Elems(q) \cup {x}
  <2>1. \A y \in Elems(v) : y \in Elems(q) \cup {x}
    <3> TAKE y \in Elems(v)
    <3>1. PICK m \in 1..(Len(q) + 1) : y = v[m]
      BY <1>2 DEF Elems
    <3> QED
      BY <1>2, <3>1 DEF Elems
  <2>2. x \in Elems(v)
    BY <1>2 DEF Elems
  <2>3. \A y \in Elems(q) : y \in Elems(v)
    BY <1>2 DEF Elems
  <2> QED
    BY <2>1, <2>2, <2>3
<1> QED
  BY <1>1, <1>2, <1>3, <1>4

\* insert before an element.
LEMMA InsertIs ==
  ASSUME NEW X, NEW q \in Seq(X), Distinct(q), NEW x \in X, x \notin Elems(q), NEW n \in 1..Len(q)
  PROVE  /\ InsertAt(q, n, x) \in Seq(X) /\ Distinct(InsertAt(q, n, x))
         /\ Elems(InsertAt(q, n, x)) = Elems(q) \cup {x}
<1>1. PICK w : w = InsertAt(q, n, x)
  OBVIOUS
<1>2. /\ w \in Seq(X) /\ Len(w) = Len(q) + 1
      /\ \A m \in 1..(Len(q) + 1) : w[m] = IF m < n THEN q[m] ELSE IF m = n THEN x ELSE q[m - 1]
  <2>1. PICK a : a = SubSeq(q, 1, n - 1)
    OBVIOUS
  <2>2. PICK z : z = SubSeq(q, n, Len(q))
    OBVIOUS
  <2>3. a \in Seq(X) /\ Len(a) = n - 1 /\ \A m \in 1..(n - 1) : a[m] = q[m]
    BY <2>1
  <2>4. z \in Seq(X) /\ Len(z) = Len(q) - n + 1 /\ \A m \in 1..(Len(q) - n + 1) : z[m] = q[n - 1 + m]
    BY <2>2
  <2>5. PICK b : b = a \o <<x>>
    OBVIOUS
  <2>6. b \in Seq(X) /\ Len(b) = n /\ b[n] = x /\ \A m \in 1..(n - 1) : b[m] = q[m]
    BY <2>3, <2>5
  <2>7. w = b \o z
    BY <1>1, <2>1, <2>2, <2>5 DEF InsertAt
  <2>8. w \in Seq(X) /\ Len(w) = Len(q) + 1
    <3>0. b \in Seq(X) /\ z \in Seq(X)
      BY <2>4, <2>6
    <3>1. w \in Seq(X) /\ Len(w) = Len(b) + Len(z)
      BY <3>0, <2>7
    <3>2. n \in Int /\ Len(q) \in Int
      OBVIOUS
    <3> QED
      BY <2>4, <2>6, <3>1, <3>2
  <2>9. \A m \in 1..n : w[m] = b[m]
    BY <2>4, <2>6, <2>7
  <2>10. ASSUME NEW m \in (n + 1)..(Len(q) + 1) PROVE w[m] = q[m - 1]
    <3>1. w[m] = z[m - n]
      BY <2>4, <2>6, <2>7
    <3>2. m - n \in 1..(Len(q) - n + 1)
      OBVIOUS
    <3> QED
      BY <2>4, <3>1, <3>2
  <2> QED
    BY <2>6, <2>8, <2>9, <2>10
<1>3. Distinct(w)
  <2> SUFFICES ASSUME NEW k \in DOMAIN w, NEW m \in DOMAIN w, w[k] = w[m] PROVE k = m
    BY DEF Distinct
  <2>1. k \in 1..(Len(q) + 1) /\ m \in 1..(Len(q) + 1)
    BY <1>2
  <2>2. \A j \in 1..(Len(q) + 1) : /\ j < n => j \in DOMAIN q /\ w[j] # x
                                   /\ j > n => j - 1 \in DOMAIN q /\ w[j] # x
    BY <1>2 DEF Elems
  <2> QED
    BY <1>2, <2>1, <2>2 DEF Distinct
<1>4. \A y \in Elems(w) : y \in Elems(q) \cup {x}
  <2> TAKE y \in Elems(w)
  <2>1. PICK m \in 1..(Len(q) + 1) : y = w[m]
    BY <1>2 DEF Elems
  <2>2. /\ m < n => m \in DOMAIN q /\ y = q[m]
        /\ m > n => m - 1 \in DOMAIN q /\ y = q[m - 1]
        /\ m = n => y = x
    BY <1>2, <2>1
  <2> QED
    BY <2>1, <2>2 DEF Elems
<1>5. \A y \in Elems(q) \cup {x} : y \in Elems(w)
  <2> TAKE y \in Elems(q) \cup {x}
  <2>1. CASE y = x
    <3>1. n \in DOMAIN w /\ w[n] = x
      BY <1>2
    <3> QED
      BY <2>1, <3>1 DEF Elems
  <2>2. CASE y \in Elems(q)
    <3>1. PICK m \in 1..Len(q) : y = q[m]
      BY <2>2 DEF Elems
    <3>2. CASE m < n
      <4>1. m \in DOMAIN w /\ w[m] = y
        BY <1>2, <3>1, <3>2
      <4> QED
        BY <4>1 DEF Elems
    <3>3. CASE m >= n
      <4>1. m + 1 \in DOMAIN w /\ w[m + 1] = y
        BY <1>2, <3>1, <3>3
      <4> QED
        BY <4>1 DEF Elems
    <3> QED
      BY <3>1, <3>2, <3>3
  <2> QED
    BY <2>1, <2>2
<1> QED
  BY <1>1, <1>2, <1>3, <1>4, <1>5

\* One element in the place of another.
LEMMA SwapIs ==
  ASSUME NEW X, NEW q \in Seq(X), Distinct(q), NEW i, NEW j \in X, j \notin Elems(q)
  PROVE  /\ Swap(q, i, j) \in Seq(X) /\ Distinct(Swap(q, i, j))
         /\ i \in Elems(q) => Elems(Swap(q, i, j)) = (Elems(q) \ {i}) \cup {j}
         /\ i \notin Elems(q) => Swap(q, i, j) = q
<1>1. PICK w : w = Swap(q, i, j)
  OBVIOUS
<1>2. DOMAIN w = DOMAIN q /\ \A m \in DOMAIN q : w[m] = IF q[m] = i THEN j ELSE q[m]
  BY <1>1 DEF Swap
<1>3. w \in Seq(X)
  <2>1. w \in [1..Len(q) -> X]
    BY <1>1 DEF Swap
  <2> QED
    BY <2>1
<1>4. Distinct(w)
  BY <1>2 DEF Distinct, Elems
<1>5. ASSUME i \in Elems(q) PROVE Elems(w) = (Elems(q) \ {i}) \cup {j}
  BY <1>2, <1>5 DEF Elems
<1>6. ASSUME i \notin Elems(q) PROVE w = q
  <2>1. \A m \in 1..Len(q) : w[m] = q[m]
    BY <1>2, <1>6 DEF Elems
  <2>2. w \in [1..Len(q) -> X] /\ q \in [1..Len(q) -> X]
    BY <1>2, <1>3
  <2> QED
    BY <2>1, <2>2
<1> QED
  BY <1>1, <1>3, <1>4, <1>5, <1>6

\* The same, where one element is found.
LEMMA ReplacedIs ==
  ASSUME NEW X, NEW q \in Seq(X), Distinct(q), NEW i \in Elems(q), NEW j \in X,
         j \notin Elems(q) \/ j = i
  PROVE  /\ [q EXCEPT ![IndexIn(q, i)] = j] \in Seq(X)
         /\ Distinct([q EXCEPT ![IndexIn(q, i)] = j])
         /\ Elems([q EXCEPT ![IndexIn(q, i)] = j]) = (Elems(q) \ {i}) \cup {j}
<1>1. PICK n : n = IndexIn(q, i)
  OBVIOUS
<1>2. n \in DOMAIN q /\ q[n] = i
  BY <1>1 DEF Elems, IndexIn
<1>3. PICK w : w = [q EXCEPT ![n] = j]
  OBVIOUS
<1>4. w \in Seq(X) /\ DOMAIN w = DOMAIN q /\ \A m \in DOMAIN q : w[m] = IF m = n THEN j ELSE q[m]
  BY <1>2, <1>3
<1>5. Distinct(w)
  BY <1>2, <1>4 DEF Distinct, Elems
<1>6. Elems(w) = (Elems(q) \ {i}) \cup {j}
  <2>1. \A y \in Elems(w) : y \in (Elems(q) \ {i}) \cup {j}
    BY <1>2, <1>4 DEF Distinct, Elems
  <2>2. \A y \in (Elems(q) \ {i}) \cup {j} : y \in Elems(w)
    BY <1>2, <1>4 DEF Elems
  <2> QED
    BY <2>1, <2>2
<1> QED
  BY <1>1, <1>3, <1>4, <1>5, <1>6

\* A set of numbers has a least one.
LEMMA LeastIs ==
  ASSUME NEW I \in SUBSET Nat, I # {}
  PROVE  \E n \in I : \A m \in I : n <= m
<1> DEFINE R == {ss \in Nat \X Nat : ss[1] < ss[2]}
<1>1. IsWellFoundedOn(R, Nat)
  BY NatLessThanWellFounded DEF OpToRel
<1>2. PICK n \in I : \A m \in I : <<m, n>> \notin R
  <2> HIDE DEF R
  <2> QED
    BY <1>1, WFMin
<1>3. \A m \in I : n <= m
  <2> TAKE m \in I
  <2>1. n \in Nat /\ m \in Nat /\ ~(m < n)
    BY <1>2
  <2> QED
    BY <2>1
<1> QED
  BY <1>3

\* The search for an item of some kind finds one or nothing.
LEMMA FirstOfIs ==
  ASSUME NEW X, NEW q \in Seq(X), NEW s, NEW ks
  PROVE  FirstOf(s, q, ks) = 0 \/ (FirstOf(s, q, ks) \in 1..Len(q) /\ s.kind[q[FirstOf(s, q, ks)]] \in ks)
<1> DEFINE I == {n \in 1..Len(q) : s.kind[q[n]] \in ks}
<1>1. FirstOf(s, q, ks) = IF I # {} THEN Min(I) ELSE 0
  BY DEF FirstOf, SelectInSeq
<1>2. ASSUME I # {} PROVE Min(I) \in I
  <2>1. I \subseteq Nat
    OBVIOUS
  <2>2. PICK n \in I : \A m \in I : n <= m
    BY <1>2, <2>1, LeastIs
  <2> HIDE DEF I
  <2> QED
    BY <2>2 DEF Min
<1> QED
  BY <1>1, <1>2
-----------------------------------------------------------------------------
(* The invariant of a world: where things lie, what kinds they are, what   *)
(* the flags say, who holds a browsed tile, and what its container holds.  *)
(* An item that dangles, see Unbrowsed, ends what is said of the lists.    *)

AllFlags == Properties \cup {"MAGICFIELD", "TRASHHOLDER", "TELEPORT"}

PlacesOK(s) ==
  /\ s.top \in [Squares -> Seq(Items)] /\ s.down \in [Squares -> Seq(Items)]
  /\ \A t \in Squares :
       /\ Distinct(s.top[t]) /\ Distinct(s.down[t])
       /\ Elems(s.top[t]) \cap Elems(s.down[t]) = {}
       /\ \A u \in Squares : On(s, t) \cap On(s, u) # {} => t = u
KindsOK(s) ==
  /\ s.kind \in [Items -> ItemKinds \cup {"none"}]
  /\ \A t \in Squares :
       /\ \A i \in On(s, t) : s.kind[i] # "none"
       /\ \A i \in Elems(s.top[t]) : s.kind[i] \in TopKinds
FlagsAt(s, t) ==
  /\ s.flags[t] \cap Properties = OtherProperties(s, t, NoItem)
  /\ s.flags[t] \ Properties \subseteq UNION {Special(s.kind[i]) : i \in On(s, t)}
FlagsOK(s) ==
  /\ s.ground \in [Squares -> Grounds \cup {"none"}]
  /\ s.flags \in [Squares -> SUBSET AllFlags]
  /\ \A t \in Squares : FlagsAt(s, t)

\* Whether an item of a browsed tile is in the container.
ListedRight(s, t, i) ==
  IF s.kind[i] \in Movables
  THEN i \notin s.stuck /\ (i \in Elems(s.list[t]) <=> i \notin s.missed)
  ELSE i \notin s.missed /\ (i \in Elems(s.list[t]) <=> i \in s.stuck)
ListOK(s, t) ==
  /\ Distinct(s.list[t]) /\ Elems(s.list[t]) \subseteq On(s, t)
  /\ t \in s.browsed => \A i \in On(s, t) : ListedRight(s, t, i)
  /\ t \notin s.browsed => s.list[t] = <<>> /\ On(s, t) \cap (s.missed \cup s.stuck) = {}
  /\ \A i \in On(s, t) : s.parent[i] = t \/ (s.parent[i] = Field /\ i \in Elems(s.list[t]))
ListsOK(s) ==
  /\ s.list \in [Squares -> Seq(Items)]
  /\ s.parent \in [Items -> Squares \cup {NoItem, Field}]
  /\ s.missed \cup s.stuck \subseteq Lying(s)
  /\ \A t \in Squares : ListOK(s, t)
  /\ \A i \in Items \ Lying(s) : s.parent[i] = NoItem

Holders(s, t) == {x \in Browsers \X (Squares \cup {Extra}) : s.opened[x[1]][x[2]] = t}
RefsOK(s) ==
  /\ s.browsed \subseteq Squares
  /\ s.refs \in [Squares -> Nat] /\ s.leaked \in [Squares -> Nat]
  /\ s.opened \in [Browsers -> [Squares \cup {Extra} -> Squares \cup {NoItem}]]
  /\ \A t \in Squares :
       /\ t \in s.browsed <=> s.refs[t] > 0
       /\ s.refs[t] = (IF t \in s.timer THEN 1 ELSE 0) + s.leaked[t] + Cardinality(Holders(s, t))

TileInv(s) ==
  /\ Shape(s) /\ PlacesOK(s) /\ KindsOK(s) /\ FlagsOK(s) /\ RefsOK(s)
  /\ s.dangling \in BOOLEAN
  /\ s.dangling \/ ListsOK(s)
-----------------------------------------------------------------------------
(* What does not touch a part of a world keeps what is said of it.         *)

SamePlaces(s, v) == v.top = s.top /\ v.down = s.down
SameRefs(s, v) ==
  /\ v.browsed = s.browsed /\ v.refs = s.refs /\ v.timer = s.timer
  /\ v.opened = s.opened /\ v.leaked = s.leaked
SameLists(s, v) ==
  v.list = s.list /\ v.parent = s.parent /\ v.missed = s.missed /\ v.stuck = s.stuck

\* What a client is told, and what creatures do, changes no more than this.
Alike(s, v) ==
  /\ Shape(v) /\ SamePlaces(s, v) /\ SameRefs(s, v) /\ SameLists(s, v)
  /\ v.ground = s.ground /\ v.kind = s.kind /\ v.flags = s.flags /\ v.dangling = s.dangling

\* The same holds of one tile.
SameAt(s, v, u) ==
  /\ On(v, u) = On(s, u) /\ v.ground[u] = s.ground[u] /\ v.flags[u] = s.flags[u]
  /\ v.list[u] = s.list[u] /\ (u \in v.browsed <=> u \in s.browsed)
  /\ \A i \in On(s, u) :
       /\ v.kind[i] = s.kind[i] /\ v.parent[i] = s.parent[i]
       /\ i \in v.missed <=> i \in s.missed
       /\ i \in v.stuck <=> i \in s.stuck

\* Where things lie depends on two fields.
LEMMA OnKept ==
  ASSUME NEW s, NEW v, SamePlaces(s, v)
  PROVE  /\ \A t : On(v, t) = On(s, t)
         /\ Lying(v) = Lying(s)
         /\ PlacesOK(s) => PlacesOK(v)
<1>1. \A t : On(v, t) = On(s, t)
  BY DEF SamePlaces, On
<1>2. Lying(v) = Lying(s)
  BY <1>1 DEF Lying
<1>3. ASSUME PlacesOK(s) PROVE PlacesOK(v)
  BY <1>1, <1>3 DEF PlacesOK, SamePlaces
<1> QED
  BY <1>1, <1>2, <1>3

\* A tile that is the same has the right flags and the right list.
LEMMA AtKept ==
  ASSUME NEW s, NEW v, NEW u, SameAt(s, v, u)
  PROVE  /\ FlagsAt(s, u) => FlagsAt(v, u)
         /\ ListOK(s, u) => ListOK(v, u)
<1>1. ASSUME FlagsAt(s, u) PROVE FlagsAt(v, u)
  <2>1. OtherProperties(v, u, NoItem) = OtherProperties(s, u, NoItem)
    BY DEF OtherProperties, SameAt
  <2>2. UNION {Special(v.kind[i]) : i \in On(v, u)} = UNION {Special(s.kind[i]) : i \in On(s, u)}
    BY DEF SameAt
  <2> QED
    BY <1>1, <2>1, <2>2 DEF FlagsAt, SameAt
<1>2. ASSUME ListOK(s, u) PROVE ListOK(v, u)
  <2>1. \A i \in On(s, u) : ListedRight(s, u, i) <=> ListedRight(v, u, i)
    BY DEF ListedRight, SameAt
  <2>2. On(s, u) \cap (s.missed \cup s.stuck) = {} => On(v, u) \cap (v.missed \cup v.stuck) = {}
    BY DEF SameAt
  <2>3. v.list[u] = s.list[u] /\ (u \in v.browsed <=> u \in s.browsed) /\ On(v, u) = On(s, u)
    BY DEF SameAt
  <2>4. \A i \in On(s, u) : v.parent[i] = s.parent[i]
    BY DEF SameAt
  <2> QED
    BY <1>2, <2>1, <2>2, <2>3, <2>4 DEF ListOK
<1> QED
  BY <1>1, <1>2

\* Who holds a browsed tile depends on few fields.
LEMMA RefsKept ==
  ASSUME NEW s, NEW v, SameRefs(s, v), RefsOK(s)
  PROVE  RefsOK(v)
<1>1. \A t : Holders(v, t) = Holders(s, t)
  BY DEF Holders, SameRefs
<1> QED
  BY <1>1 DEF RefsOK, SameRefs

\* A world that is alike is as right.
LEMMA AlikeInv ==
  ASSUME NEW s, NEW v, TileInv(s), Alike(s, v)
  PROVE  TileInv(v)
<1>1. /\ \A t : On(v, t) = On(s, t)
      /\ Lying(v) = Lying(s)
      /\ PlacesOK(v)
  BY OnKept DEF Alike, TileInv
<1>2. \A u : SameAt(s, v, u)
  BY <1>1 DEF SameAt, Alike, SameRefs, SameLists
<1>3. KindsOK(v)
  BY <1>1 DEF Alike, SamePlaces, TileInv, KindsOK
<1>4. FlagsOK(v)
  BY <1>2, AtKept DEF Alike, TileInv, FlagsOK
<1>5. RefsOK(v)
  BY RefsKept DEF Alike, TileInv
<1>6. ASSUME ListsOK(s) PROVE ListsOK(v)
  BY <1>1, <1>2, <1>6, AtKept DEF Alike, SameLists, ListsOK
<1> QED
  BY <1>1, <1>3, <1>4, <1>5, <1>6 DEF Alike, TileInv

\* A second look.
LEMMA AlikeTwice ==
  ASSUME NEW s, NEW v, NEW w, Alike(s, v), Alike(v, w)
  PROVE  Alike(s, w)
BY DEF Alike, SamePlaces, SameRefs, SameLists

\* What is sent changes what clients show, and no more.
LEMMA SentIs ==
  ASSUME NEW s, Shape(s), NEW t
  PROVE  /\ \A x : Alike(s, Told(s, t, x))
         /\ Alike(s, SentTile(s, t)) /\ Alike(s, PostRemove(s, t))
         /\ \A i : Alike(s, SentUpdate(s, t, i))
<1>1. \A x : Alike(s, Told(s, t, x))
  BY DEF Told, Alike, Shape, FieldNames, SamePlaces, SameRefs, SameLists
<1>2. Alike(s, SentTile(s, t))
  <2>1. PICK z : z = Told(s, t, [w \in Watchers |-> TileDescription(s, w, t)])
    OBVIOUS
  <2>2. Alike(s, z)
    BY <1>1, <2>1
  <2>3. SentTile(s, t) = [z EXCEPT !.behind = {x \in @ : x[2] # t}]
    BY <2>1 DEF SentTile
  <2>4. Alike(z, SentTile(s, t))
    BY <2>2, <2>3 DEF Alike, Shape, FieldNames, SamePlaces, SameRefs, SameLists
  <2> QED
    BY <2>2, <2>4, AlikeTwice
<1>3. Alike(s, s)
  BY DEF Alike, SamePlaces, SameRefs, SameLists
<1> QED
  BY <1>1, <1>2, <1>3 DEF PostRemove, SentUpdate
-----------------------------------------------------------------------------
(* Flags.                                                                  *)

\* What some items are like together.
Props(s, c) == UNION {PropertiesOf(s.kind[j]) : j \in c}

\* One item more.
LEMMA PropsMore ==
  ASSUME NEW s, NEW c, NEW i
  PROVE  Props(s, c \cup {i}) = Props(s, c) \cup PropertiesOf(s.kind[i])
<1>1. \A p : p \in Props(s, c \cup {i}) <=> \E j \in c \cup {i} : p \in PropertiesOf(s.kind[j])
  BY DEF Props
<1>2. \A p : p \in Props(s, c) <=> \E j \in c : p \in PropertiesOf(s.kind[j])
  BY DEF Props
<1> QED
  BY <1>1, <1>2

\* Items that are the same in two worlds.
LEMMA PropsSame ==
  ASSUME NEW s, NEW v, NEW c, \A j \in c : v.kind[j] = s.kind[j]
  PROVE  Props(v, c) = Props(s, c)
BY DEF Props

\* Properties and the flags of special items are apart.
LEMMA FlagsApart ==
  ASSUME NEW k
  PROVE  /\ PropertiesOf(k) \subseteq Properties
         /\ Special(k) \subseteq AllFlags \ Properties
<1>1. Special(k) \in {{"MAGICFIELD"}, {"TRASHHOLDER"}, {"TELEPORT"}, {}}
  BY DEF Special, Fields
<1> QED
  BY <1>1 DEF PropertiesOf, AllFlags, Properties

\* The flags after an item with kind k is gone, where q are the properties of the others.
LEMMA FlagsWithout ==
  ASSUME NEW s, NEW v, NEW t, NEW i, FlagsAt(s, t), NoItem \notin On(s, t), i \in On(s, t),
         On(v, t) = On(s, t) \ {i}, v.ground[t] = s.ground[t],
         \A j \in On(v, t) : v.kind[j] = s.kind[j],
         v.flags[t] = (s.flags[t] \ (PropertiesOf(s.kind[i]) \ OtherProperties(v, t, i)))
                        \ Special(s.kind[i])
  PROVE  FlagsAt(v, t)
<1>1. OtherProperties(v, t, NoItem) = OtherProperties(v, t, i)
  BY DEF OtherProperties
<1>2. OtherProperties(s, t, NoItem) = OtherProperties(v, t, i) \cup PropertiesOf(s.kind[i])
  <2>1. On(s, t) \ {NoItem} = (On(v, t) \ {i}) \cup {i}
    OBVIOUS
  <2>2. PICK c : c = On(v, t) \ {i}
    OBVIOUS
  <2>3. Props(s, c \cup {i}) = Props(s, c) \cup PropertiesOf(s.kind[i])
    BY PropsMore
  <2>4. \A j \in c : v.kind[j] = s.kind[j]
    BY <2>2
  <2>5. Props(v, c) = Props(s, c)
    BY <2>4, PropsSame
  <2> QED
    BY <2>1, <2>2, <2>3, <2>5 DEF OtherProperties, Props
<1>3. /\ PropertiesOf(s.kind[i]) \subseteq Properties
      /\ Special(s.kind[i]) \cap Properties = {}
  BY FlagsApart
<1>4. v.flags[t] \cap Properties = OtherProperties(v, t, NoItem)
  BY <1>1, <1>2, <1>3 DEF FlagsAt
<1>5. v.flags[t] \ Properties \subseteq UNION {Special(v.kind[j]) : j \in On(v, t)}
  <2> SUFFICES ASSUME NEW f \in v.flags[t] \ Properties
               PROVE  f \in UNION {Special(v.kind[j]) : j \in On(v, t)}
    OBVIOUS
  <2>1. f \in s.flags[t] \ Properties /\ f \notin Special(s.kind[i])
    OBVIOUS
  <2>2. PICK j \in On(s, t) : f \in Special(s.kind[j])
    BY <2>1 DEF FlagsAt
  <2>3. j \in On(v, t)
    BY <2>1, <2>2
  <2> QED
    BY <2>2, <2>3
<1> QED
  BY <1>4, <1>5 DEF FlagsAt

\* The flags after an item has come.
LEMMA FlagsWith ==
  ASSUME NEW s, NEW v, NEW t, NEW i, FlagsAt(s, t), NoItem \notin On(s, t) \cup {i},
         On(v, t) = On(s, t) \cup {i}, v.ground[t] = s.ground[t],
         \A j \in On(s, t) : v.kind[j] = s.kind[j],
         v.flags[t] = s.flags[t] \cup PropertiesOf(v.kind[i]) \cup Special(v.kind[i])
  PROVE  FlagsAt(v, t)
<1>1. OtherProperties(v, t, NoItem) = OtherProperties(s, t, NoItem) \cup PropertiesOf(v.kind[i])
  <2>1. On(v, t) \ {NoItem} = (On(s, t) \ {NoItem}) \cup {i}
    OBVIOUS
  <2>2. PICK c : c = On(s, t) \ {NoItem}
    OBVIOUS
  <2>3. Props(v, c \cup {i}) = Props(v, c) \cup PropertiesOf(v.kind[i])
    BY PropsMore
  <2>4. \A j \in c : v.kind[j] = s.kind[j]
    BY <2>2
  <2>5. Props(v, c) = Props(s, c)
    BY <2>4, PropsSame
  <2> QED
    BY <2>1, <2>2, <2>3, <2>5 DEF OtherProperties, Props
<1>2. /\ PropertiesOf(v.kind[i]) \subseteq Properties
      /\ Special(v.kind[i]) \cap Properties = {}
  BY FlagsApart
<1>3. v.flags[t] \cap Properties = OtherProperties(v, t, NoItem)
  BY <1>1, <1>2 DEF FlagsAt
<1>4. v.flags[t] \ Properties \subseteq UNION {Special(v.kind[j]) : j \in On(v, t)}
  <2> SUFFICES ASSUME NEW f \in v.flags[t] \ Properties
               PROVE  \E j \in On(v, t) : f \in Special(v.kind[j])
    OBVIOUS
  <2>1. CASE f \in Special(v.kind[i])
    BY <2>1
  <2>2. CASE f \in s.flags[t] \ Properties
    <3>1. PICK j \in On(s, t) : f \in Special(s.kind[j])
      BY <2>2 DEF FlagsAt
    <3> QED
      BY <3>1
  <2> QED
    BY <1>2, <2>1, <2>2
<1> QED
  BY <1>3, <1>4 DEF FlagsAt

\* The flags after an item i has turned into, or made room for, j.
LEMMA FlagsInstead ==
  ASSUME NEW s, NEW v, NEW t, NEW i, NEW j, FlagsAt(s, t), NoItem \notin On(s, t) \cup {j},
         i \in On(s, t), j \notin On(s, t) \/ j = i,
         On(v, t) = (On(s, t) \ {i}) \cup {j}, v.ground[t] = s.ground[t],
         \A x \in On(s, t) \ {i} : v.kind[x] = s.kind[x],
         NEW o, \A x \in o : x \in OtherProperties(v, t, NoItem),
         OtherProperties(v, t, j) \subseteq o,
         v.flags[t] = ((s.flags[t] \ (PropertiesOf(s.kind[i]) \ o)) \ Special(s.kind[i]))
                        \cup PropertiesOf(v.kind[j]) \cup Special(v.kind[j])
  PROVE  FlagsAt(v, t)
<1>1. OtherProperties(v, t, NoItem) = OtherProperties(v, t, j) \cup PropertiesOf(v.kind[j])
  <2>1. On(v, t) \ {NoItem} = (On(v, t) \ {j}) \cup {j}
    OBVIOUS
  <2>2. Props(v, On(v, t) \ {NoItem}) = Props(v, On(v, t) \ {j}) \cup PropertiesOf(v.kind[j])
    BY <2>1, PropsMore
  <2> QED
    BY <2>2 DEF OtherProperties, Props
<1>2. OtherProperties(s, t, NoItem) = OtherProperties(v, t, j) \cup PropertiesOf(s.kind[i])
  <2>1. On(v, t) \ {j} = On(s, t) \ {i}
    OBVIOUS
  <2>2. On(s, t) \ {NoItem} = (On(v, t) \ {j}) \cup {i}
    BY <2>1
  <2>3. PICK c : c = On(v, t) \ {j}
    OBVIOUS
  <2>4. Props(s, c \cup {i}) = Props(s, c) \cup PropertiesOf(s.kind[i])
    BY PropsMore, SMTT(60)
  <2>5. \A x \in c : v.kind[x] = s.kind[x]
    BY <2>1, <2>3
  <2>6. Props(v, c) = Props(s, c)
    BY <2>5, PropsSame
  <2> QED
    BY <2>2, <2>3, <2>4, <2>6 DEF OtherProperties, Props
<1>3. /\ PropertiesOf(s.kind[i]) \subseteq Properties /\ PropertiesOf(v.kind[j]) \subseteq Properties
      /\ Special(s.kind[i]) \cap Properties = {} /\ Special(v.kind[j]) \cap Properties = {}
  BY FlagsApart
<1>4. v.flags[t] \cap Properties = OtherProperties(v, t, NoItem)
  <2>1. PICK a : a = OtherProperties(v, t, j)
    OBVIOUS
  <2>2. PICK p : p = PropertiesOf(v.kind[j])
    OBVIOUS
  <2>3. PICK q : q = PropertiesOf(s.kind[i])
    OBVIOUS
  <2>4. o \subseteq a \cup p /\ a \subseteq o /\ s.flags[t] \cap Properties = a \cup q
    BY <1>1, <1>2, <2>1, <2>2, <2>3 DEF FlagsAt
  <2>5. v.flags[t] \cap Properties = ((a \cup q) \ (q \ o)) \cup p
    BY <1>3, <2>2, <2>3, <2>4
  <2>6. ((a \cup q) \ (q \ o)) \cup p = a \cup p
    BY <2>4
  <2> QED
    BY <1>1, <2>1, <2>2, <2>5, <2>6
<1>5. v.flags[t] \ Properties \subseteq UNION {Special(v.kind[x]) : x \in On(v, t)}
  <2> SUFFICES ASSUME NEW f \in v.flags[t] \ Properties
               PROVE  \E x \in On(v, t) : f \in Special(v.kind[x])
    OBVIOUS
  <2>1. CASE f \in Special(v.kind[j])
    BY <2>1
  <2>2. CASE f \in s.flags[t] \ Properties /\ f \notin Special(s.kind[i])
    <3>1. PICK x \in On(s, t) : f \in Special(s.kind[x])
      BY <2>2 DEF FlagsAt
    <3>2. x # i
      BY <2>2, <3>1
    <3> QED
      BY <3>1, <3>2
  <2> QED
    BY <1>3, <2>1, <2>2
<1> QED
  BY <1>4, <1>5 DEF FlagsAt
-----------------------------------------------------------------------------
(* An item leaves a tile.                                                  *)

\* What a list of immovable things loses is seen too late.
Dangles(s, v, t, i) ==
  IF s.kind[i] \in Movables THEN v.dangling = s.dangling
  ELSE v.dangling = (s.dangling \/ Listed(s, t, i))

\* The fields after an item has left a tile.
IsRemoved(s, v, t, i) ==
  /\ Shape(v) /\ SameRefs(s, v)
  /\ v.ground = s.ground /\ v.kind = s.kind /\ v.stuck = s.stuck
  /\ v.top = [s.top EXCEPT ![t] = Without(@, i)]
  /\ v.down = [s.down EXCEPT ![t] = Without(@, i)]
  /\ v.parent = [s.parent EXCEPT ![i] = NoItem]
  /\ v.flags = [s.flags EXCEPT ![t] =
                  (@ \ (PropertiesOf(s.kind[i]) \ OtherProperties(v, t, i))) \ Special(s.kind[i])]
  /\ IF s.kind[i] \in Movables
     THEN v.list = [s.list EXCEPT ![t] = Without(@, i)] /\ v.missed = s.missed \ {i}
     ELSE v.list = s.list /\ v.missed = s.missed
  /\ Dangles(s, v, t, i)

\* The code of a removal does that.
LEMMA RemoveThingIs ==
  ASSUME NEW s, Shape(s), NEW t, NEW i
  PROVE  IsRemoved(s, RemoveThing(s, t, i), t, i)
<1>1. PICK a : a = Erased(s, t, i)
  OBVIOUS
<1>2. /\ Shape(a) /\ SameRefs(s, a)
      /\ a.ground = s.ground /\ a.kind = s.kind /\ a.stuck = s.stuck /\ a.flags = s.flags
      /\ a.list = s.list /\ a.missed = s.missed /\ a.dangling = s.dangling
      /\ a.top = [s.top EXCEPT ![t] = Without(@, i)]
      /\ a.down = [s.down EXCEPT ![t] = Without(@, i)]
      /\ a.parent = [s.parent EXCEPT ![i] = NoItem]
  BY <1>1 DEF Erased, Shape, FieldNames, SameRefs
<1>3. PICK b : b = Unbrowsed(a, t, i)
  OBVIOUS
<1>4. /\ Shape(b) /\ SameRefs(a, b)
      /\ b.ground = a.ground /\ b.kind = a.kind /\ b.stuck = a.stuck /\ b.flags = a.flags
      /\ b.top = a.top /\ b.down = a.down /\ b.parent = a.parent
  BY <1>2, <1>3 DEF Unbrowsed, Shape, FieldNames, SameRefs
<1>5. /\ a.kind[i] \in Movables =>
           b.list = [a.list EXCEPT ![t] = Without(@, i)] /\ b.missed = a.missed \ {i}
           /\ b.dangling = a.dangling
      /\ a.kind[i] \notin Movables =>
           b.list = a.list /\ b.missed = a.missed
           /\ b.dangling = (a.dangling \/ Listed(a, t, i))
  BY <1>2, <1>3 DEF Unbrowsed, Shape, FieldNames
<1>6. PICK c : c = ResetTileFlags(b, t, i, b.kind[i])
  OBVIOUS
<1>7. /\ Shape(c) /\ SameRefs(b, c)
      /\ c.ground = b.ground /\ c.kind = b.kind /\ c.stuck = b.stuck
      /\ c.top = b.top /\ c.down = b.down /\ c.parent = b.parent
      /\ c.list = b.list /\ c.missed = b.missed /\ c.dangling = b.dangling
      /\ c.flags = [b.flags EXCEPT ![t] =
                      (@ \ (PropertiesOf(b.kind[i]) \ OtherProperties(b, t, i))) \ Special(b.kind[i])]
  BY <1>4, <1>6 DEF ResetTileFlags, Shape, FieldNames, SameRefs
<1>8. PICK v : v = RemoveThing(s, t, i)
  OBVIOUS
<1>9. Alike(c, v)
  <2>1. c = ResetTileFlags(Unbrowsed(a, t, i), t, i, a.kind[i])
    BY <1>3, <1>4, <1>6
  <2>2. PICK x : v = Told(c, t, x)
    BY <1>1, <1>8, <2>1 DEF RemoveThing, OnRemoveTileItem
  <2> QED
    BY <1>7, <2>2, SentIs
<1>10. OtherProperties(v, t, i) = OtherProperties(b, t, i)
  BY <1>7, <1>9 DEF OtherProperties, On, Alike, SamePlaces
<1>11. Listed(a, t, i) <=> Listed(s, t, i)
  BY <1>2 DEF Listed, SameRefs
<1>12. SameRefs(s, v)
  BY <1>2, <1>4, <1>7, <1>9 DEF Alike, SameRefs
<1>13. Dangles(s, v, t, i)
  BY <1>2, <1>4, <1>5, <1>7, <1>9, <1>11 DEF Alike, Dangles
<1>14. IF s.kind[i] \in Movables
       THEN v.list = [s.list EXCEPT ![t] = Without(@, i)] /\ v.missed = s.missed \ {i}
       ELSE v.list = s.list /\ v.missed = s.missed
  BY <1>2, <1>4, <1>5, <1>7, <1>9 DEF Alike, SameLists
<1>15. v.flags = [s.flags EXCEPT ![t] =
                  (@ \ (PropertiesOf(s.kind[i]) \ OtherProperties(v, t, i))) \ Special(s.kind[i])]
  BY <1>2, <1>4, <1>7, <1>9, <1>10 DEF Alike
<1>16. /\ Shape(v) /\ v.ground = s.ground /\ v.kind = s.kind /\ v.stuck = s.stuck
       /\ v.top = [s.top EXCEPT ![t] = Without(@, i)]
       /\ v.down = [s.down EXCEPT ![t] = Without(@, i)]
       /\ v.parent = [s.parent EXCEPT ![i] = NoItem]
  BY <1>2, <1>4, <1>7, <1>9 DEF Alike, SamePlaces, SameLists
<1> QED
  BY <1>8, <1>12, <1>13, <1>14, <1>15, <1>16 DEF IsRemoved

\* Where things lie after an item has left its tile.
LEMMA PlacesWithout ==
  ASSUME NEW s, NEW v, PlacesOK(s), NEW t \in Squares, NEW i \in On(s, t),
         v.top = [s.top EXCEPT ![t] = Without(@, i)],
         v.down = [s.down EXCEPT ![t] = Without(@, i)]
  PROVE  /\ PlacesOK(v) /\ \A u \in Squares : On(v, u) = On(s, u) \ {i}
         /\ Lying(v) = Lying(s) \ {i}
         /\ \A u \in Squares : Elems(v.top[u]) \subseteq Elems(s.top[u])
<1>1. /\ v.top[t] \in Seq(Items) /\ Distinct(v.top[t]) /\ Elems(v.top[t]) = Elems(s.top[t]) \ {i}
      /\ v.down[t] \in Seq(Items) /\ Distinct(v.down[t]) /\ Elems(v.down[t]) = Elems(s.down[t]) \ {i}
  BY WithoutIs DEF PlacesOK
<1>2. \A u \in Squares \ {t} : v.top[u] = s.top[u] /\ v.down[u] = s.down[u]
  BY DEF PlacesOK
<1>3. v.top \in [Squares -> Seq(Items)] /\ v.down \in [Squares -> Seq(Items)]
  BY <1>1 DEF PlacesOK
<1>4. \A u \in Squares \ {t} : On(v, u) = On(s, u) /\ i \notin On(s, u)
  <2>1. \A u \in Squares \ {t} : i \notin On(s, u)
    BY DEF PlacesOK
  <2> QED
    BY <1>2, <2>1 DEF On
<1>5. On(v, t) = On(s, t) \ {i}
  BY <1>1 DEF On
<1>6. \A u \in Squares : On(v, u) = On(s, u) \ {i}
  BY <1>4, <1>5
<1>7. Lying(v) = Lying(s) \ {i}
  BY <1>6 DEF Lying
<1>8. PlacesOK(v)
  <2>1. \A u \in Squares :
          /\ Distinct(v.top[u]) /\ Distinct(v.down[u])
          /\ Elems(v.top[u]) \cap Elems(v.down[u]) = {}
    BY <1>1, <1>2 DEF PlacesOK
  <2>2. \A u, w \in Squares : On(v, u) \cap On(v, w) # {} => u = w
    BY <1>6 DEF PlacesOK
  <2> QED
    BY <1>3, <2>1, <2>2 DEF PlacesOK
<1> QED
  BY <1>1, <1>2, <1>6, <1>7, <1>8

\* The container of the tile gives it up, unless it was no longer movable.
LEMMA ListsWithout ==
  ASSUME NEW s, NEW v, NEW t \in Squares, NEW i \in On(s, t), ListsOK(s), PlacesOK(s),
         IsRemoved(s, v, t, i), ~v.dangling
  PROVE  ListsOK(v)
<1> DEFINE mov == s.kind[i] \in Movables
<1>1. /\ \A u \in Squares : On(v, u) = On(s, u) \ {i}
      /\ Lying(v) = Lying(s) \ {i}
  BY PlacesWithout DEF IsRemoved
<1>2. i \in Items
  BY DEF On, Elems, PlacesOK
<1>3. v.browsed = s.browsed /\ v.kind = s.kind /\ v.stuck = s.stuck
  BY DEF IsRemoved, SameRefs
<1>4. mov => v.list = [s.list EXCEPT ![t] = Without(@, i)] /\ v.missed = s.missed \ {i}
  BY DEF IsRemoved
<1>5. ~mov => v.list = s.list /\ v.missed = s.missed /\ ~Listed(s, t, i)
  BY DEF IsRemoved, Dangles
<1>6. ListOK(s, t) /\ s.list[t] \in Seq(Items)
  BY DEF ListsOK
<1>7. /\ Without(s.list[t], i) \in Seq(Items) /\ Distinct(Without(s.list[t], i))
      /\ Elems(Without(s.list[t], i)) = Elems(s.list[t]) \ {i}
      /\ i \notin Elems(s.list[t]) => Without(s.list[t], i) = s.list[t]
  BY <1>6, WithoutIs DEF ListOK
<1>8. /\ t \in s.browsed => ListedRight(s, t, i)
      /\ t \notin s.browsed => i \notin s.missed \cup s.stuck /\ s.list[t] = <<>>
  BY <1>6 DEF ListOK
<1>9. i \notin v.missed /\ i \notin v.stuck
  <2>1. CASE mov
    BY <1>3, <1>4, <1>8, <2>1 DEF ListedRight
  <2>2. CASE ~mov
    BY <1>3, <1>5, <1>8, <2>2 DEF ListedRight, Listed
  <2> QED
    BY <2>1, <2>2
<1>10. v.list[t] = Without(s.list[t], i) /\ v.list \in [Squares -> Seq(Items)]
  <2>1. CASE mov
    BY <1>4, <1>7, <2>1 DEF ListsOK
  <2>2. CASE ~mov
    <3>1. i \notin Elems(s.list[t])
      <4>1. <<>> \in Seq(Items) /\ Elems(<<>>) = {}
        BY DEF Elems
      <4> QED
        BY <1>5, <1>8, <2>2, <4>1 DEF Listed
    <3> QED
      BY <1>5, <1>7, <2>2, <3>1 DEF ListsOK
  <2> QED
    BY <2>1, <2>2
<1>11. \A x \in s.missed \cup s.stuck : x # i => (x \in v.missed <=> x \in s.missed)
  BY <1>4, <1>5
<1>12. \A x : x # i => (x \in v.missed <=> x \in s.missed)
  BY <1>4, <1>5
<1>13. \A u \in Squares \ {t} : v.list[u] = s.list[u] /\ On(v, u) = On(s, u)
  <2>1. \A u \in Squares \ {t} : i \notin On(s, u)
    BY DEF PlacesOK
  <2>2. \A u \in Squares \ {t} : v.list[u] = s.list[u]
    BY <1>4, <1>5 DEF ListsOK
  <2> QED
    BY <1>1, <2>1, <2>2
<1>14. v.parent \in [Items -> Squares \cup {NoItem, Field}] /\ v.parent[i] = NoItem
       /\ \A x \in Items \ {i} : v.parent[x] = s.parent[x]
  BY <1>2 DEF IsRemoved, ListsOK
<1>15. \A u \in Squares : On(s, u) \subseteq Items
  BY DEF On, Elems, PlacesOK
<1>16. ListOK(v, t)
  <2>1. Distinct(v.list[t]) /\ Elems(v.list[t]) = Elems(s.list[t]) \ {i}
    BY <1>7, <1>10
  <2>2. Elems(v.list[t]) \subseteq On(v, t)
    BY <1>1, <1>6, <2>1 DEF ListOK
  <2>3. ASSUME t \in v.browsed, NEW x \in On(v, t) PROVE ListedRight(v, t, x)
    <3>1. x \in On(s, t) /\ x # i /\ ListedRight(s, t, x)
      BY <1>1, <1>3, <1>6, <2>3 DEF ListOK
    <3> QED
      BY <1>3, <1>12, <2>1, <3>1 DEF ListedRight
  <2>4. ASSUME t \notin v.browsed PROVE v.list[t] = <<>> /\ On(v, t) \cap (v.missed \cup v.stuck) = {}
    <3>1. s.list[t] = <<>> /\ On(s, t) \cap (s.missed \cup s.stuck) = {}
      BY <1>3, <1>6, <2>4 DEF ListOK
    <3>2. i \notin Elems(s.list[t])
      BY <3>1 DEF Elems
    <3>3. v.list[t] = <<>>
      BY <1>7, <1>10, <3>1, <3>2
    <3>4. On(v, t) \cap (v.missed \cup v.stuck) = {}
      BY <1>1, <1>3, <1>12, <3>1
    <3> QED
      BY <3>3, <3>4
  <2>5. \A x \in On(v, t) : v.parent[x] = t \/ (v.parent[x] = Field /\ x \in Elems(v.list[t]))
    BY <1>1, <1>6, <1>14, <1>15, <2>1 DEF ListOK
  <2> QED
    BY <2>1, <2>2, <2>3, <2>4, <2>5 DEF ListOK
<1>17. ASSUME NEW u \in Squares \ {t} PROVE ListOK(v, u)
  <2>1. ListOK(s, u)
    BY DEF ListsOK
  <2>2. v.list[u] = s.list[u] /\ On(v, u) = On(s, u) /\ (u \in v.browsed <=> u \in s.browsed)
    BY <1>3, <1>13
  <2>3. \A x \in On(s, u) : x # i /\ v.parent[x] = s.parent[x]
    BY <1>1, <1>13, <1>14, <1>15
  <2>4. \A x \in On(s, u) : ListedRight(s, u, x) => ListedRight(v, u, x)
    BY <1>3, <1>12, <2>2, <2>3 DEF ListedRight
  <2>5. On(s, u) \cap (s.missed \cup s.stuck) = {} => On(v, u) \cap (v.missed \cup v.stuck) = {}
    BY <1>3, <1>12, <2>2, <2>3
  <2> QED
    BY <2>1, <2>2, <2>3, <2>4, <2>5 DEF ListOK
<1>18. v.missed \cup v.stuck \subseteq Lying(v)
  <2>1. s.missed \cup s.stuck \subseteq Lying(s)
    BY DEF ListsOK
  <2>2. \A x \in v.missed \cup v.stuck : x # i /\ x \in s.missed \cup s.stuck
    BY <1>3, <1>9, <1>12
  <2> QED
    BY <1>1, <2>1, <2>2
<1>19. \A x \in Items \ Lying(v) : v.parent[x] = NoItem
  BY <1>1, <1>14 DEF ListsOK
<1> QED
  BY <1>10, <1>14, <1>16, <1>17, <1>18, <1>19 DEF ListsOK

\* An item that leaves its tile leaves the world as right as it was.
LEMMA RemoveThingInv ==
  ASSUME TilesAssumption, NEW s, TileInv(s), NEW t \in Squares, NEW i \in On(s, t)
  PROVE  /\ TileInv(RemoveThing(s, t, i))
         /\ RemoveThing(s, t, i).kind = s.kind
         /\ Lying(RemoveThing(s, t, i)) = Lying(s) \ {i}
<1>1. PICK v : v = RemoveThing(s, t, i)
  OBVIOUS
<1>2. IsRemoved(s, v, t, i)
  BY <1>1, RemoveThingIs DEF TileInv
<1>3. /\ PlacesOK(v) /\ \A u \in Squares : On(v, u) = On(s, u) \ {i}
      /\ Lying(v) = Lying(s) \ {i}
      /\ \A u \in Squares : Elems(v.top[u]) \subseteq Elems(s.top[u])
  BY <1>2, PlacesWithout DEF IsRemoved, TileInv
<1>4. KindsOK(v)
  BY <1>2, <1>3 DEF IsRemoved, KindsOK, TileInv
<1>5. FlagsOK(v)
  <2>1. FlagsAt(v, t)
    <3>1. NoItem \notin On(s, t)
      BY DEF TilesAssumption, TileInv, PlacesOK, On, Elems
    <3>2. v.flags[t] = (s.flags[t] \ (PropertiesOf(s.kind[i]) \ OtherProperties(v, t, i)))
                         \ Special(s.kind[i])
      BY <1>2 DEF IsRemoved, TileInv, FlagsOK
    <3>3. FlagsAt(s, t)
      BY DEF TileInv, FlagsOK
    <3>4. v.ground[t] = s.ground[t] /\ \A j \in On(v, t) : v.kind[j] = s.kind[j]
      BY <1>2 DEF IsRemoved
    <3>5. On(v, t) = On(s, t) \ {i}
      BY <1>3
    <3> QED
      BY <3>1, <3>2, <3>3, <3>4, <3>5, FlagsWithout
  <2>2. ASSUME NEW u \in Squares \ {t} PROVE FlagsAt(v, u)
    <3>1. On(v, u) = On(s, u)
      <4>1. i \notin On(s, u)
        BY DEF TileInv, PlacesOK
      <4> QED
        BY <1>3, <4>1
    <3>2. v.flags[u] = s.flags[u] /\ v.kind = s.kind /\ v.ground = s.ground
      BY <1>2 DEF IsRemoved, TileInv, FlagsOK
    <3>3. FlagsAt(s, u)
      BY DEF TileInv, FlagsOK
    <3> QED
      BY <3>1, <3>2, <3>3 DEF FlagsAt, OtherProperties
  <2>3. v.flags \in [Squares -> SUBSET AllFlags]
    BY <1>2 DEF IsRemoved, TileInv, FlagsOK
  <2>4. v.ground \in [Squares -> Grounds \cup {"none"}]
    BY <1>2 DEF IsRemoved, TileInv, FlagsOK
  <2> QED
    BY <2>1, <2>2, <2>3, <2>4 DEF FlagsOK
<1>6. RefsOK(v)
  BY <1>2, RefsKept DEF IsRemoved, TileInv
<1>7. v.dangling \in BOOLEAN /\ (~v.dangling => ~s.dangling)
  BY <1>2 DEF IsRemoved, Dangles, TileInv
<1>8. ~v.dangling => ListsOK(v)
  BY <1>2, <1>7, ListsWithout DEF TileInv
<1> QED
  BY <1>1, <1>2, <1>3, <1>4, <1>5, <1>6, <1>7, <1>8 DEF IsRemoved, TileInv

\* A place in no list, and a name for another item.
LEMMA NamedInv ==
  ASSUME NEW s, TileInv(s), NEW i \in Items \ Lying(s), NEW k \in ItemKinds \cup {"none"}
  PROVE  /\ TileInv(Renamed(s, i, k)) /\ Lying(Renamed(s, i, k)) = Lying(s)
         /\ Renamed(s, i, k).kind[i] = k /\ SamePlaces(s, Renamed(s, i, k))
<1>1. PICK v : v = Renamed(s, i, k)
  OBVIOUS
<1>2. /\ Shape(v) /\ SamePlaces(s, v) /\ SameRefs(s, v) /\ SameLists(s, v)
      /\ v.ground = s.ground /\ v.flags = s.flags /\ v.dangling = s.dangling
      /\ v.kind = [s.kind EXCEPT ![i] = k]
  BY <1>1 DEF Renamed, TileInv, Shape, FieldNames, SamePlaces, SameRefs, SameLists
<1>3. /\ v.kind \in [Items -> ItemKinds \cup {"none"}] /\ v.kind[i] = k
      /\ \A x \in Items \ {i} : v.kind[x] = s.kind[x]
  BY <1>2 DEF TileInv, KindsOK
<1>4. /\ \A t : On(v, t) = On(s, t)
      /\ Lying(v) = Lying(s)
      /\ PlacesOK(v)
  BY <1>2, OnKept DEF TileInv
<1>5. \A t \in Squares : \A x \in On(s, t) : x \in Items \ {i}
  BY DEF Lying, TileInv, PlacesOK, On, Elems
<1>6. \A t \in Squares : SameAt(s, v, t)
  BY <1>2, <1>3, <1>4, <1>5 DEF SameAt, SameRefs, SameLists
<1>7. KindsOK(v)
  <2>1. \A t \in Squares : Elems(v.top[t]) \subseteq On(s, t) /\ v.top[t] = s.top[t]
    BY <1>2 DEF On, SamePlaces
  <2>2. \A t \in Squares : \A x \in On(v, t) : v.kind[x] # "none"
    BY <1>3, <1>4, <1>5 DEF TileInv, KindsOK
  <2>3. \A t \in Squares : \A x \in Elems(v.top[t]) : v.kind[x] \in TopKinds
    BY <1>3, <1>5, <2>1 DEF TileInv, KindsOK
  <2> QED
    BY <1>3, <2>2, <2>3 DEF KindsOK
<1>8. FlagsOK(v)
  BY <1>2, <1>6, AtKept DEF TileInv, FlagsOK
<1>9. RefsOK(v)
  BY <1>2, RefsKept DEF TileInv
<1>10. ASSUME ListsOK(s) PROVE ListsOK(v)
  BY <1>2, <1>4, <1>6, <1>10, AtKept DEF SameLists, ListsOK
<1> QED
  BY <1>1, <1>2, <1>3, <1>4, <1>7, <1>8, <1>9, <1>10 DEF TileInv

\* What is freed.
LEMMA ReleasedInv ==
  ASSUME NEW s, TileInv(s), NEW i \in Items \ Lying(s)
  PROVE  TileInv(Released(s, i)) /\ Lying(Released(s, i)) = Lying(s)
         /\ \A x \in Items \ {i} : Released(s, i).kind[x] = s.kind[x]
<1>1. Released(s, i) = Renamed(s, i, "none")
  BY DEF Released, Renamed
<1>2. Released(s, i).kind = [s.kind EXCEPT ![i] = "none"]
  BY DEF Released, TileInv, Shape, FieldNames
<1> QED
  BY <1>1, <1>2, NamedInv DEF TileInv, KindsOK

\* A tile that is sent again is the same tile.
LEMMA PostRemoveInv ==
  ASSUME NEW s, TileInv(s), NEW t
  PROVE  /\ TileInv(PostRemove(s, t)) /\ PostRemove(s, t).kind = s.kind
         /\ SamePlaces(s, PostRemove(s, t)) /\ Lying(PostRemove(s, t)) = Lying(s)
         /\ PostRemove(s, t).flags = s.flags /\ PostRemove(s, t).ground = s.ground
<1>1. Alike(s, PostRemove(s, t))
  BY SentIs DEF TileInv
<1> QED
  BY <1>1, AlikeInv, OnKept DEF Alike

\* What is taken out and freed leaves the world as right as it was.
LEMMA DroppedInv ==
  ASSUME TilesAssumption, NEW s, TileInv(s), NEW t \in Squares, NEW i \in On(s, t)
  PROVE  /\ TileInv(Dropped(s, t, i)) /\ Lying(Dropped(s, t, i)) = Lying(s) \ {i}
         /\ \A x \in Items \ {i} : Dropped(s, t, i).kind[x] = s.kind[x]
<1>1. i \in Items
  BY DEF TileInv, PlacesOK, On, Elems
<1>2. PICK a : a = RemoveThing(s, t, i)
  OBVIOUS
<1>3. TileInv(a) /\ a.kind = s.kind /\ Lying(a) = Lying(s) \ {i}
  BY <1>2, RemoveThingInv
<1>4. PICK b : b = PostRemove(a, t)
  OBVIOUS
<1>5. TileInv(b) /\ b.kind = s.kind /\ Lying(b) = Lying(s) \ {i}
  BY <1>3, <1>4, PostRemoveInv
<1>6. Dropped(s, t, i) = Released(b, i)
  BY <1>2, <1>4 DEF Dropped
<1> QED
  BY <1>1, <1>5, <1>6, ReleasedInv
-----------------------------------------------------------------------------
(* An item comes to a tile.                                                *)

\* A list with one more element.
HasMore(q, r, i) == r \in Seq(Items) /\ Distinct(r) /\ Elems(r) = Elems(q) \cup {i}

\* The fields after an item has come to a tile.
IsPut(s, v, t, i) ==
  /\ Shape(v) /\ SameRefs(s, v)
  /\ v.ground = s.ground /\ v.kind = s.kind /\ v.stuck = s.stuck /\ v.missed = s.missed
  /\ v.dangling = s.dangling
  /\ v.parent = [s.parent EXCEPT ![i] = t]
  /\ v.flags = [s.flags EXCEPT ![t] = @ \cup PropertiesOf(s.kind[i]) \cup Special(s.kind[i])]
  /\ v.list = IF t \in s.browsed /\ s.kind[i] \in Movables
              THEN [s.list EXCEPT ![t] = Append(@, i)] ELSE s.list

\* The bookkeeping is the same wherever the item is put.
LEMMA OnAddIs ==
  ASSUME NEW s, Shape(s), NEW z, NEW t, NEW i,
         /\ Shape(z) /\ SameRefs(s, z)
         /\ z.ground = s.ground /\ z.kind = s.kind /\ z.stuck = s.stuck /\ z.missed = s.missed
         /\ z.dangling = s.dangling /\ z.flags = s.flags /\ z.list = s.list
         /\ z.parent = [s.parent EXCEPT ![i] = t]
  PROVE  IsPut(s, OnAddTileItem(z, t, i), t, i) /\ SamePlaces(z, OnAddTileItem(z, t, i))
<1>1. PICK b : b = Browsed(z, t, i)
  OBVIOUS
<1>2. /\ Shape(b) /\ SameRefs(z, b) /\ SamePlaces(z, b)
      /\ b.ground = z.ground /\ b.kind = z.kind /\ b.stuck = z.stuck /\ b.missed = z.missed
      /\ b.dangling = z.dangling /\ b.flags = z.flags /\ b.parent = z.parent
      /\ b.list = IF t \in z.browsed /\ z.kind[i] \in Movables
                  THEN [z.list EXCEPT ![t] = Append(@, i)] ELSE z.list
  BY <1>1 DEF Browsed, Shape, FieldNames, SameRefs, SamePlaces
<1>3. PICK c : c = SetTileFlags(b, t, z.kind[i])
  OBVIOUS
<1>4. /\ Shape(c) /\ SameRefs(b, c) /\ SamePlaces(b, c) /\ SameLists(b, c)
      /\ c.ground = b.ground /\ c.kind = b.kind /\ c.dangling = b.dangling
      /\ c.flags = [b.flags EXCEPT ![t] = @ \cup PropertiesOf(z.kind[i]) \cup Special(z.kind[i])]
  BY <1>2, <1>3 DEF SetTileFlags, Shape, FieldNames, SameRefs, SamePlaces, SameLists
<1>5. PICK v : v = OnAddTileItem(z, t, i)
  OBVIOUS
<1>6. Alike(c, v)
  <2>1. PICK x : v = Told(c, t, x)
    BY <1>1, <1>3, <1>5 DEF OnAddTileItem
  <2> QED
    BY <1>4, <2>1, SentIs
<1>7. SameRefs(s, v) /\ SamePlaces(z, v)
  BY <1>2, <1>4, <1>6 DEF Alike, SameRefs, SamePlaces
<1>8. v.list = IF t \in s.browsed /\ s.kind[i] \in Movables
               THEN [s.list EXCEPT ![t] = Append(@, i)] ELSE s.list
  BY <1>2, <1>4, <1>6 DEF Alike, SameRefs, SameLists
<1>9. /\ Shape(v) /\ v.ground = s.ground /\ v.kind = s.kind /\ v.stuck = s.stuck
      /\ v.missed = s.missed /\ v.dangling = s.dangling
      /\ v.parent = [s.parent EXCEPT ![i] = t]
      /\ v.flags = [s.flags EXCEPT ![t] = @ \cup PropertiesOf(s.kind[i]) \cup Special(s.kind[i])]
  BY <1>2, <1>4, <1>6 DEF Alike, SameLists
<1> QED
  BY <1>5, <1>7, <1>8, <1>9 DEF IsPut

\* Where things lie after an item has come to a tile.
LEMMA PlacesWith ==
  ASSUME NEW s, NEW v, PlacesOK(s), NEW t \in Squares, NEW i \in Items \ Lying(s), NEW r,
         \/ v.top = [s.top EXCEPT ![t] = r] /\ v.down = s.down /\ HasMore(s.top[t], r, i)
         \/ v.down = [s.down EXCEPT ![t] = r] /\ v.top = s.top /\ HasMore(s.down[t], r, i)
  PROVE  /\ PlacesOK(v) /\ On(v, t) = On(s, t) \cup {i}
         /\ \A u \in Squares \ {t} : On(v, u) = On(s, u)
         /\ Lying(v) = Lying(s) \cup {i}
<1>1. \A u \in Squares : i \notin On(s, u)
  BY DEF Lying
<1>2. \A u \in Squares : i \notin Elems(s.top[u]) /\ i \notin Elems(s.down[u])
  BY <1>1 DEF On
<1>3. s.top \in [Squares -> Seq(Items)] /\ s.down \in [Squares -> Seq(Items)]
  BY DEF PlacesOK
<1>4. v.top \in [Squares -> Seq(Items)] /\ v.down \in [Squares -> Seq(Items)]
  BY <1>3 DEF HasMore
<1>5. \A u \in Squares \ {t} : v.top[u] = s.top[u] /\ v.down[u] = s.down[u]
  BY <1>3
<1>6. \/ v.top[t] = r /\ v.down[t] = s.down[t] /\ HasMore(s.top[t], r, i)
      \/ v.down[t] = r /\ v.top[t] = s.top[t] /\ HasMore(s.down[t], r, i)
  BY <1>3
<1>7. On(v, t) = On(s, t) \cup {i}
  BY <1>6 DEF On, HasMore
<1>8. \A u \in Squares \ {t} : On(v, u) = On(s, u)
  BY <1>5 DEF On
<1>9. Lying(v) = Lying(s) \cup {i}
  BY <1>7, <1>8 DEF Lying
<1>10. /\ Distinct(v.top[t]) /\ Distinct(v.down[t])
       /\ Elems(v.top[t]) \cap Elems(v.down[t]) = {}
  BY <1>2, <1>6 DEF HasMore, PlacesOK
<1>11. \A u \in Squares :
         /\ Distinct(v.top[u]) /\ Distinct(v.down[u])
         /\ Elems(v.top[u]) \cap Elems(v.down[u]) = {}
  BY <1>5, <1>10 DEF PlacesOK
<1>12. \A u, w \in Squares : On(v, u) \cap On(v, w) # {} => u = w
  <2>1. \A u, w \in Squares : On(s, u) \cap On(s, w) # {} => u = w
    BY DEF PlacesOK
  <2> SUFFICES ASSUME NEW u \in Squares, NEW w \in Squares, NEW x \in On(v, u) \cap On(v, w)
               PROVE  u = w
    OBVIOUS
  <2>2. CASE x = i
    BY <1>1, <1>8, <2>2
  <2>3. CASE x # i
    BY <1>7, <1>8, <2>1, <2>3
  <2> QED
    BY <2>2, <2>3
<1> QED
  BY <1>4, <1>7, <1>8, <1>9, <1>11, <1>12 DEF PlacesOK

\* The container of the tile takes it, if it is movable.
LEMMA ListsWith ==
  ASSUME NEW s, NEW v, NEW t \in Squares, NEW i \in Items \ Lying(s), ListsOK(s), PlacesOK(s),
         IsPut(s, v, t, i), On(v, t) = On(s, t) \cup {i},
         \A u \in Squares \ {t} : On(v, u) = On(s, u),
         Lying(v) = Lying(s) \cup {i}
  PROVE  ListsOK(v)
<1>1. v.browsed = s.browsed /\ v.kind = s.kind /\ v.stuck = s.stuck /\ v.missed = s.missed
  BY DEF IsPut, SameRefs
<1>2. i \notin s.missed /\ i \notin s.stuck /\ \A u \in Squares : i \notin On(s, u)
  BY DEF ListsOK, Lying
<1>3. ListOK(s, t) /\ s.list[t] \in Seq(Items) /\ i \notin Elems(s.list[t])
  BY <1>2 DEF ListsOK, ListOK
<1>4. /\ Append(s.list[t], i) \in Seq(Items) /\ Distinct(Append(s.list[t], i))
      /\ Elems(Append(s.list[t], i)) = Elems(s.list[t]) \cup {i}
  <2>1. PICK q : q = s.list[t]
    OBVIOUS
  <2>2. q \in Seq(Items) /\ Distinct(q) /\ i \notin Elems(q) /\ i \in Items
    BY <1>3, <2>1 DEF ListOK
  <2>3. /\ Append(q, i) \in Seq(Items) /\ Distinct(Append(q, i))
        /\ Elems(Append(q, i)) = Elems(q) \cup {i}
    BY <2>2, AppendIs
  <2> QED
    BY <2>1, <2>3
<1>5. /\ v.parent \in [Items -> Squares \cup {NoItem, Field}] /\ v.parent[i] = t
      /\ \A x \in Items \ {i} : v.parent[x] = s.parent[x]
  BY DEF IsPut, ListsOK
<1>6. \A u \in Squares : On(s, u) \subseteq Items \ {i}
  BY <1>2 DEF On, Elems, PlacesOK
<1>7. v.list \in [Squares -> Seq(Items)] /\ \A u \in Squares \ {t} : v.list[u] = s.list[u]
  BY <1>4 DEF IsPut, ListsOK
<1>8. v.list[t] = IF t \in s.browsed /\ s.kind[i] \in Movables
                  THEN Append(s.list[t], i) ELSE s.list[t]
  BY DEF IsPut, ListsOK
<1>9. ListOK(v, t)
  <2>1. /\ Distinct(v.list[t])
        /\ Elems(v.list[t]) = Elems(s.list[t])
             \cup (IF t \in s.browsed /\ s.kind[i] \in Movables THEN {i} ELSE {})
    BY <1>3, <1>4, <1>8 DEF ListOK
  <2>2. Elems(v.list[t]) \subseteq On(v, t)
    BY <1>3, <2>1 DEF ListOK
  <2>3. ASSUME t \in v.browsed, NEW x \in On(v, t) PROVE ListedRight(v, t, x)
    <3>1. CASE x = i
      BY <1>1, <1>2, <1>3, <2>1, <2>3, <3>1 DEF ListedRight
    <3>2. CASE x \in On(s, t)
      <4>1. ListedRight(s, t, x) /\ x # i
        BY <1>1, <1>2, <1>3, <2>3, <3>2 DEF ListOK
      <4> QED
        BY <1>1, <2>1, <4>1 DEF ListedRight
    <3> QED
      BY <3>1, <3>2
  <2>4. ASSUME t \notin v.browsed PROVE v.list[t] = <<>> /\ On(v, t) \cap (v.missed \cup v.stuck) = {}
    BY <1>1, <1>2, <1>3, <1>8, <2>4 DEF ListOK
  <2>5. \A x \in On(v, t) : v.parent[x] = t \/ (v.parent[x] = Field /\ x \in Elems(v.list[t]))
    BY <1>3, <1>5, <1>6, <2>1 DEF ListOK
  <2> QED
    BY <2>1, <2>2, <2>3, <2>4, <2>5 DEF ListOK
<1>10. ASSUME NEW u \in Squares \ {t} PROVE ListOK(v, u)
  <2>1. ListOK(s, u)
    BY DEF ListsOK
  <2>2. v.list[u] = s.list[u] /\ On(v, u) = On(s, u) /\ (u \in v.browsed <=> u \in s.browsed)
    BY <1>1, <1>7
  <2>3. \A x \in On(s, u) : v.parent[x] = s.parent[x]
    BY <1>5, <1>6
  <2>4. \A x \in On(s, u) : ListedRight(s, u, x) => ListedRight(v, u, x)
    BY <1>1, <2>2 DEF ListedRight
  <2> QED
    BY <1>1, <2>1, <2>2, <2>3, <2>4 DEF ListOK
<1>11. v.missed \cup v.stuck \subseteq Lying(v)
  BY <1>1 DEF ListsOK
<1>12. \A x \in Items \ Lying(v) : v.parent[x] = NoItem
  BY <1>5 DEF ListsOK
<1> QED
  BY <1>5, <1>7, <1>9, <1>10, <1>11, <1>12 DEF ListsOK

\* An item that comes to a tile leaves the world as right as it was.
LEMMA PutInv ==
  ASSUME TilesAssumption, NEW s, TileInv(s), NEW t \in Squares, NEW i \in Items \ Lying(s),
         s.kind[i] # "none", NEW v, IsPut(s, v, t, i), NEW r,
         \/ /\ v.top = [s.top EXCEPT ![t] = r] /\ v.down = s.down /\ HasMore(s.top[t], r, i)
            /\ s.kind[i] \in TopKinds
         \/ v.down = [s.down EXCEPT ![t] = r] /\ v.top = s.top /\ HasMore(s.down[t], r, i)
  PROVE  TileInv(v) /\ i \in On(v, t) /\ Lying(v) = Lying(s) \cup {i}
<1>1. /\ PlacesOK(v) /\ On(v, t) = On(s, t) \cup {i}
      /\ \A u \in Squares \ {t} : On(v, u) = On(s, u)
      /\ Lying(v) = Lying(s) \cup {i}
  BY PlacesWith DEF TileInv
<1>2. KindsOK(v)
  <2>1. v.kind = s.kind
    BY DEF IsPut
  <2>2. \A u \in Squares : \A x \in On(v, u) : v.kind[x] # "none"
    BY <1>1, <2>1 DEF TileInv, KindsOK
  <2>3. \A u \in Squares : \A x \in Elems(v.top[u]) : v.kind[x] \in TopKinds
    <3> SUFFICES ASSUME NEW u \in Squares, NEW x \in Elems(v.top[u]) PROVE v.kind[x] \in TopKinds
      OBVIOUS
    <3>1. x \in Elems(s.top[u]) \/ (x = i /\ s.kind[i] \in TopKinds)
      BY DEF HasMore, TileInv, PlacesOK
    <3> QED
      BY <2>1, <3>1 DEF TileInv, KindsOK
  <2> QED
    BY <2>1, <2>2, <2>3 DEF TileInv, KindsOK
<1>3. FlagsOK(v)
  <2>1. v.flags \in [Squares -> SUBSET AllFlags]
    <3>1. PropertiesOf(s.kind[i]) \cup Special(s.kind[i]) \subseteq AllFlags
      BY FlagsApart DEF AllFlags
    <3> QED
      BY <3>1 DEF IsPut, TileInv, FlagsOK
  <2>2. FlagsAt(v, t)
    <3>1. NoItem \notin On(s, t) \cup {i}
      BY DEF TilesAssumption, TileInv, PlacesOK, On, Elems
    <3>2. v.flags[t] = s.flags[t] \cup PropertiesOf(v.kind[i]) \cup Special(v.kind[i])
      BY DEF IsPut, TileInv, FlagsOK
    <3>3. FlagsAt(s, t)
      BY DEF TileInv, FlagsOK
    <3>4. v.ground[t] = s.ground[t] /\ \A j \in On(s, t) : v.kind[j] = s.kind[j]
      BY DEF IsPut
    <3>5. On(v, t) = On(s, t) \cup {i}
      BY <1>1
    <3> QED
      BY <3>1, <3>2, <3>3, <3>4, <3>5, FlagsWith
  <2>3. ASSUME NEW u \in Squares \ {t} PROVE FlagsAt(v, u)
    <3>1. v.flags[u] = s.flags[u] /\ v.kind = s.kind /\ v.ground = s.ground
      BY DEF IsPut, TileInv, FlagsOK
    <3>2. FlagsAt(s, u) /\ On(v, u) = On(s, u)
      BY <1>1 DEF TileInv, FlagsOK
    <3> QED
      BY <3>1, <3>2 DEF FlagsAt, OtherProperties
  <2>4. v.ground \in [Squares -> Grounds \cup {"none"}]
    BY DEF IsPut, TileInv, FlagsOK
  <2> QED
    BY <2>1, <2>2, <2>3, <2>4 DEF FlagsOK
<1>4. RefsOK(v)
  BY RefsKept DEF IsPut, TileInv
<1>5. v.dangling = s.dangling
  BY DEF IsPut
<1>6. ASSUME ListsOK(s) PROVE ListsOK(v)
  BY <1>1, <1>6, ListsWith DEF TileInv
<1> QED
  BY <1>1, <1>2, <1>3, <1>4, <1>5, <1>6 DEF IsPut, TileInv

\* push_front of the items that are not on top.
LEMMA PutDownInv ==
  ASSUME TilesAssumption, NEW s, TileInv(s), NEW t \in Squares, NEW i \in Items \ Lying(s),
         s.kind[i] # "none"
  PROVE  /\ TileInv(PutDown(s, t, i)) /\ i \in On(PutDown(s, t, i), t)
         /\ Lying(PutDown(s, t, i)) = Lying(s) \cup {i} /\ PutDown(s, t, i).kind = s.kind
<1>1. PICK z : z = [s EXCEPT !.down[t] = <<i>> \o @, !.parent[i] = t]
  OBVIOUS
<1>2. /\ Shape(z) /\ SameRefs(s, z)
      /\ z.ground = s.ground /\ z.kind = s.kind /\ z.stuck = s.stuck /\ z.missed = s.missed
      /\ z.dangling = s.dangling /\ z.flags = s.flags /\ z.list = s.list
      /\ z.parent = [s.parent EXCEPT ![i] = t]
      /\ z.down = [s.down EXCEPT ![t] = <<i>> \o @] /\ z.top = s.top
  BY <1>1 DEF TileInv, Shape, FieldNames, SameRefs
<1>3. PICK v : v = PutDown(s, t, i)
  OBVIOUS
<1>4. IsPut(s, v, t, i) /\ SamePlaces(z, v)
  <2>1. v = OnAddTileItem(z, t, i)
    BY <1>1, <1>3 DEF PutDown
  <2>2. Shape(s)
    BY DEF TileInv
  <2>3. IsPut(s, OnAddTileItem(z, t, i), t, i) /\ SamePlaces(z, OnAddTileItem(z, t, i))
    BY <1>2, <2>2, OnAddIs
  <2> QED
    BY <2>1, <2>3
<1>5. PICK r : r = <<i>> \o s.down[t]
  OBVIOUS
<1>6. HasMore(s.down[t], r, i)
  <2>1. s.down[t] \in Seq(Items) /\ Distinct(s.down[t]) /\ i \notin Elems(s.down[t])
    BY DEF TileInv, PlacesOK, Lying, On
  <2> QED
    BY <1>5, <2>1, ConsIs DEF HasMore
<1>7. v.down = [s.down EXCEPT ![t] = r] /\ v.top = s.top
  BY <1>2, <1>4, <1>5 DEF SamePlaces
<1>8. TileInv(v) /\ i \in On(v, t) /\ Lying(v) = Lying(s) \cup {i}
  <2>1. \/ /\ v.top = [s.top EXCEPT ![t] = r] /\ v.down = s.down /\ HasMore(s.top[t], r, i)
           /\ s.kind[i] \in TopKinds
        \/ v.down = [s.down EXCEPT ![t] = r] /\ v.top = s.top /\ HasMore(s.down[t], r, i)
    BY <1>6, <1>7
  <2>2. IsPut(s, v, t, i)
    BY <1>4
  <2> QED
    BY <2>1, <2>2, PutInv
<1> QED
  BY <1>3, <1>4, <1>8 DEF IsPut

\* insert among the items that are always on top.
LEMMA PutTopInv ==
  ASSUME TilesAssumption, NEW s, TileInv(s), NEW t \in Squares, NEW i \in Items \ Lying(s),
         s.kind[i] \in TopKinds
  PROVE  /\ TileInv(PutTop(s, t, i)) /\ i \in On(PutTop(s, t, i), t)
         /\ Lying(PutTop(s, t, i)) = Lying(s) \cup {i} /\ PutTop(s, t, i).kind = s.kind
<1>1. PICK ps : ps = TopPlaces(s, t, s.kind[i])
  OBVIOUS
<1>2. s.top[t] \in Seq(Items) /\ Distinct(s.top[t]) /\ i \notin Elems(s.top[t])
  BY DEF TileInv, PlacesOK, Lying, On
<1>3. PICK n : n = CHOOSE p \in ps : \A q \in ps : p <= q
  OBVIOUS
<1>4. PICK r : r = IF ps = {} THEN Append(s.top[t], i) ELSE InsertAt(s.top[t], n, i)
  OBVIOUS
<1>5. HasMore(s.top[t], r, i)
  <2>1. CASE ps = {}
    <3>1. PICK q : q = s.top[t]
      OBVIOUS
    <3>2. q \in Seq(Items) /\ Distinct(q) /\ i \notin Elems(q) /\ i \in Items
      BY <1>2, <3>1
    <3>3. /\ Append(q, i) \in Seq(Items) /\ Distinct(Append(q, i))
          /\ Elems(Append(q, i)) = Elems(q) \cup {i}
      BY <3>2, AppendIs
    <3> QED
      BY <1>4, <2>1, <3>1, <3>3 DEF HasMore
  <2>2. CASE ps # {}
    <3>1. ps \subseteq 1..Len(s.top[t])
      BY <1>1, <1>2 DEF TopPlaces
    <3>2. \E p \in ps : \A q \in ps : p <= q
      BY <2>2, <3>1, LeastIs
    <3>3. n \in 1..Len(s.top[t])
      BY <1>3, <3>1, <3>2
    <3> QED
      BY <1>2, <1>4, <2>2, <3>3, InsertIs DEF HasMore
  <2> QED
    BY <2>1, <2>2
<1>6. PICK z : z = InsertedTop(s, t, i, ps)
  OBVIOUS
<1>7. /\ Shape(z) /\ SameRefs(s, z)
      /\ z.ground = s.ground /\ z.kind = s.kind /\ z.stuck = s.stuck /\ z.missed = s.missed
      /\ z.dangling = s.dangling /\ z.flags = s.flags /\ z.list = s.list
      /\ z.parent = [s.parent EXCEPT ![i] = t]
      /\ z.down = s.down /\ z.top = [s.top EXCEPT ![t] = r]
  BY <1>3, <1>4, <1>6 DEF InsertedTop, TileInv, Shape, FieldNames, SameRefs
<1>8. PICK v : v = PutTop(s, t, i)
  OBVIOUS
<1>9. IsPut(s, v, t, i) /\ SamePlaces(z, v)
  BY <1>1, <1>6, <1>7, <1>8, OnAddIs DEF PutTop, TileInv
<1>10. v.top = [s.top EXCEPT ![t] = r] /\ v.down = s.down
  BY <1>7, <1>9 DEF SamePlaces
<1>11. s.kind[i] # "none"
  BY DEF TopKinds
<1>12. TileInv(v) /\ i \in On(v, t) /\ Lying(v) = Lying(s) \cup {i}
  <2>1. \/ /\ v.top = [s.top EXCEPT ![t] = r] /\ v.down = s.down /\ HasMore(s.top[t], r, i)
           /\ s.kind[i] \in TopKinds
        \/ v.down = [s.down EXCEPT ![t] = r] /\ v.top = s.top /\ HasMore(s.down[t], r, i)
    BY <1>5, <1>10
  <2>2. IsPut(s, v, t, i)
    BY <1>9
  <2> QED
    BY <1>11, <2>1, <2>2, PutInv
<1> QED
  BY <1>8, <1>9, <1>12 DEF IsPut

\* One splash takes the place of another.
LEMMA AddTopInv ==
  ASSUME TilesAssumption, NEW s, TileInv(s), NEW t \in Squares, NEW i \in Items \ Lying(s),
         s.kind[i] \in TopKinds
  PROVE  /\ TileInv(AddTop(s, t, i)) /\ i \in On(AddTop(s, t, i), t)
         /\ Lying(AddTop(s, t, i)) \subseteq Lying(s) \cup {i}
         /\ AddTop(s, t, i).kind[i] = s.kind[i]
<1>1. CASE s.kind[i] \in Splashes /\ OldSplash(s, t) > 0
  <2>1. PICK j : j = s.top[t][OldSplash(s, t)]
    OBVIOUS
  <2>2. OldSplash(s, t) \in 1..Len(s.top[t]) /\ s.top[t] \in Seq(Items)
    <3>1. s.top[t] \in Seq(Items)
      BY DEF TileInv, PlacesOK
    <3> QED
      BY <1>1, <3>1, FirstOfIs DEF OldSplash
  <2>3. j \in On(s, t) /\ j \in Items /\ j \in Lying(s)
    BY <2>1, <2>2 DEF On, Elems, Lying
  <2>4. PICK a : a = Dropped(s, t, j)
    OBVIOUS
  <2>5. TileInv(a) /\ Lying(a) = Lying(s) \ {j} /\ \A x \in Items \ {j} : a.kind[x] = s.kind[x]
    BY <2>3, <2>4, DroppedInv
  <2>6. AddTop(s, t, i) = PutTop(a, t, i)
    BY <1>1, <2>1, <2>4 DEF AddTop
  <2>7. i \in Items \ Lying(a) /\ a.kind[i] = s.kind[i]
    BY <2>3, <2>5
  <2> QED
    BY <2>5, <2>6, <2>7, PutTopInv
<1>2. CASE ~(s.kind[i] \in Splashes /\ OldSplash(s, t) > 0)
  <2>1. AddTop(s, t, i) = PutTop(s, t, i)
    BY <1>2 DEF AddTop
  <2> QED
    BY <2>1, PutTopInv
<1> QED
  BY <1>1, <1>2

\* A field takes the place of another, or is refused and freed.
LEMMA AddFieldInv ==
  ASSUME TilesAssumption, NEW s, TileInv(s), NEW t \in Squares, NEW i \in Items \ Lying(s),
         s.kind[i] # "none"
  PROVE  /\ TileInv(AddField(s, t, i))
         /\ Lying(AddField(s, t, i)) \subseteq Lying(s) \cup {i}
<1>1. s.down[t] \in Seq(Items)
  BY DEF TileInv, PlacesOK
<1>2. CASE OldField(s, t) = 0
  <2>1. AddField(s, t, i) = PutDown(s, t, i)
    BY <1>2 DEF AddField
  <2> QED
    BY <2>1, PutDownInv
<1>3. CASE OldField(s, t) # 0 /\ s.kind[s.down[t][OldField(s, t)]] \in Replaceable
  <2>1. PICK j : j = s.down[t][OldField(s, t)]
    OBVIOUS
  <2>2. OldField(s, t) \in 1..Len(s.down[t])
    BY <1>1, <1>3, FirstOfIs DEF OldField
  <2>3. j \in On(s, t) /\ j \in Items /\ j \in Lying(s)
    BY <1>1, <2>1, <2>2 DEF On, Elems, Lying
  <2>4. PICK a : a = Dropped(s, t, j)
    OBVIOUS
  <2>5. TileInv(a) /\ Lying(a) = Lying(s) \ {j} /\ \A x \in Items \ {j} : a.kind[x] = s.kind[x]
    BY <2>3, <2>4, DroppedInv
  <2>6. AddField(s, t, i) = PutDown(a, t, i)
    BY <1>3, <2>1, <2>4 DEF AddField
  <2>7. i \in Items \ Lying(a) /\ a.kind[i] = s.kind[i]
    BY <2>3, <2>5
  <2> QED
    BY <2>5, <2>6, <2>7, PutDownInv
<1>4. CASE OldField(s, t) # 0 /\ s.kind[s.down[t][OldField(s, t)]] \notin Replaceable
  <2>1. PICK a : a = [s EXCEPT !.parent[i] = NoItem]
    OBVIOUS
  <2>2. AddField(s, t, i) = Released(a, i)
    BY <1>4, <2>1 DEF AddField
  <2>3. TileInv(a) /\ Lying(a) = Lying(s)
    <3>1. CASE ~s.dangling
      <4>1. s.parent[i] = NoItem
        BY <3>1 DEF TileInv, ListsOK
      <4>2. a.parent = s.parent
        BY <2>1, <3>1, <4>1 DEF TileInv, Shape, FieldNames, ListsOK
      <4>3. Alike(s, a)
        BY <2>1, <4>2 DEF TileInv, Shape, FieldNames, Alike, SamePlaces, SameRefs, SameLists
      <4> QED
        BY <4>3, AlikeInv, OnKept DEF Alike
    <3>2. CASE s.dangling
      <4>1. /\ Shape(a) /\ SamePlaces(s, a) /\ SameRefs(s, a)
            /\ a.ground = s.ground /\ a.flags = s.flags /\ a.dangling = s.dangling
            /\ a.kind = s.kind
        BY <2>1 DEF TileInv, Shape, FieldNames, SamePlaces, SameRefs
      <4>2. (\A u : On(a, u) = On(s, u)) /\ Lying(a) = Lying(s) /\ PlacesOK(a)
        BY <4>1, OnKept DEF TileInv
      <4>3. RefsOK(a)
        BY <4>1, RefsKept DEF TileInv
      <4>4. KindsOK(a)
        BY <4>1, <4>2 DEF SamePlaces, TileInv, KindsOK
      <4>5. FlagsOK(a)
        BY <4>1, <4>2 DEF TileInv, FlagsOK, FlagsAt, OtherProperties
      <4> QED
        BY <3>2, <4>1, <4>2, <4>3, <4>4, <4>5 DEF TileInv
    <3> QED
      BY <3>1, <3>2 DEF TileInv
  <2> QED
    BY <2>2, <2>3, ReleasedInv
<1> QED
  BY <1>2, <1>3, <1>4

\* Whatever comes to a tile, on top or among the others.
LEMMA AddThingInv ==
  ASSUME TilesAssumption, NEW s, TileInv(s), NEW t \in Squares, NEW i \in Items \ Lying(s),
         s.kind[i] # "none"
  PROVE  /\ TileInv(AddThing(s, t, i))
         /\ Lying(AddThing(s, t, i)) \subseteq Lying(s) \cup {i}
         /\ s.kind[i] \in Movables => i \in On(AddThing(s, t, i), t)
                                      /\ AddThing(s, t, i).kind[i] = s.kind[i]
<1>1. Movables \cap (TopKinds \cup Fields) = {}
  BY DEF Movables, TopKinds, Fields
<1>2. CASE s.kind[i] \in TopKinds
  BY <1>1, <1>2, AddTopInv DEF AddThing
<1>3. CASE s.kind[i] \notin TopKinds /\ s.kind[i] \in Fields
  BY <1>1, <1>3, AddFieldInv DEF AddThing
<1>4. CASE s.kind[i] \notin TopKinds /\ s.kind[i] \notin Fields
  BY <1>4, PutDownInv DEF AddThing
<1> QED
  BY <1>2, <1>3, <1>4
-----------------------------------------------------------------------------
(* An item changes where it lies.                                          *)

\* All but where the item is listed and who owns it.
SameButList(s, v) ==
  /\ Shape(v) /\ SameRefs(s, v) /\ SamePlaces(s, v)
  /\ v.ground = s.ground /\ v.kind = s.kind /\ v.flags = s.flags /\ v.dangling = s.dangling
  /\ v.missed = s.missed /\ v.stuck = s.stuck

\* An item that is listed comes back to the tile, at its place in the list.
LEMMA OnUpdateIs ==
  ASSUME NEW s, Shape(s), NEW t \in Squares, NEW i \in Items, NEW v, v = OnUpdateTileItem(s, t, i, i)
  PROVE  /\ SameButList(s, v)
         /\ /\ s.list \in [Squares -> Seq(Items)]
            /\ s.parent \in [Items -> Squares \cup {NoItem, Field}]
            => /\ v.list = s.list
               /\ v.parent \in [Items -> Squares \cup {NoItem, Field}]
               /\ \A x \in Items \ {i} : v.parent[x] = s.parent[x]
               /\ v.parent[i] \in {s.parent[i], t}
<1>1. PICK b : b = Rebrowsed(s, t, i, i)
  OBVIOUS
<1>2. SameButList(s, b)
  BY <1>1 DEF Rebrowsed, SameButList, Shape, FieldNames, SameRefs, SamePlaces
<1>3. Alike(b, v)
  <2>1. v = SentUpdate(b, t, i)
    BY <1>1 DEF OnUpdateTileItem
  <2> QED
    BY <1>2, <2>1, SentIs DEF SameButList
<1>4. SameButList(s, v) /\ v.list = b.list /\ v.parent = b.parent
  BY <1>2, <1>3 DEF SameButList, Alike, SameRefs, SamePlaces, SameLists
<1>5. ASSUME s.list \in [Squares -> Seq(Items)],
             s.parent \in [Items -> Squares \cup {NoItem, Field}]
      PROVE  /\ b.list = s.list
             /\ b.parent \in [Items -> Squares \cup {NoItem, Field}]
             /\ \A x \in Items \ {i} : b.parent[x] = s.parent[x]
             /\ b.parent[i] \in {s.parent[i], t}
  <2>1. CASE s.kind[i] \in Movables /\ Listed(s, t, i)
    <3>1. PICK n : n = IndexIn(s.list[t], i)
      OBVIOUS
    <3>2. n \in DOMAIN s.list[t] /\ s.list[t][n] = i
      BY <2>1, <3>1 DEF Listed, Elems, IndexIn
    <3>3. b = [s EXCEPT !.list[t][n] = i, !.parent[i] = NoItem, !.parent[i] = t]
      BY <1>1, <2>1, <3>1 DEF Rebrowsed
    <3>4. /\ b.list = [s.list EXCEPT ![t] = [s.list[t] EXCEPT ![n] = i]]
          /\ b.parent = [[s.parent EXCEPT ![i] = NoItem] EXCEPT ![i] = t]
      BY <3>3 DEF Shape, FieldNames
    <3>5. [s.list[t] EXCEPT ![n] = i] = s.list[t]
      <4>1. PICK q : q = s.list[t]
        OBVIOUS
      <4>2. q \in Seq(Items) /\ n \in DOMAIN q /\ q[n] = i
        BY <1>5, <3>2, <4>1
      <4>3. [q EXCEPT ![n] = i] = q
        BY <4>2
      <4> QED
        BY <4>1, <4>3
    <3>6. b.list = s.list
      BY <1>5, <3>4, <3>5
    <3> QED
      BY <1>5, <3>4, <3>6
  <2>2. CASE ~(s.kind[i] \in Movables /\ Listed(s, t, i))
    <3>1. b = s
      BY <1>1, <2>2 DEF Rebrowsed
    <3> QED
      BY <1>5, <3>1
  <2> QED
    BY <2>1, <2>2
<1> QED
  BY <1>4, <1>5

\* The lists are right if they are for the one item that has changed.
LEMMA ListsUpdated ==
  ASSUME NEW s, NEW v, NEW t \in Squares, NEW i \in On(s, t), ListsOK(s), PlacesOK(s),
         SameRefs(s, v), SamePlaces(s, v), v.list = s.list,
         v.parent \in [Items -> Squares \cup {NoItem, Field}],
         \A x \in Items \ {i} :
           /\ v.kind[x] = s.kind[x] /\ v.parent[x] = s.parent[x]
           /\ x \in v.missed <=> x \in s.missed
           /\ x \in v.stuck <=> x \in s.stuck,
         v.parent[i] \in {s.parent[i], t},
         v.missed \cup v.stuck \subseteq Items,
         t \in s.browsed => ListedRight(v, t, i),
         t \notin s.browsed => i \notin v.missed \cup v.stuck
  PROVE  ListsOK(v)
<1>1. (\A u : On(v, u) = On(s, u)) /\ Lying(v) = Lying(s)
  BY OnKept
<1>2. v.browsed = s.browsed
  BY DEF SameRefs
<1>3. \A u \in Squares : On(s, u) \subseteq Items
  BY DEF On, Elems, PlacesOK
<1>4. \A u \in Squares \ {t} : i \notin On(s, u)
  BY DEF PlacesOK
<1>5. i \in Lying(s)
  BY DEF Lying
<1>6. ListOK(v, t)
  <2>1. ListOK(s, t)
    BY DEF ListsOK
  <2>2. ASSUME t \in v.browsed, NEW x \in On(v, t) PROVE ListedRight(v, t, x)
    <3>1. CASE x = i
      BY <1>2, <2>2, <3>1
    <3>2. CASE x # i
      <4>1. ListedRight(s, t, x) /\ x \in Items \ {i}
        BY <1>1, <1>2, <1>3, <2>1, <2>2, <3>2 DEF ListOK
      <4> QED
        BY <4>1 DEF ListedRight
    <3> QED
      BY <3>1, <3>2
  <2>3. ASSUME t \notin v.browsed PROVE v.list[t] = <<>> /\ On(v, t) \cap (v.missed \cup v.stuck) = {}
    <3>1. s.list[t] = <<>> /\ On(s, t) \cap (s.missed \cup s.stuck) = {}
      BY <1>2, <2>1, <2>3 DEF ListOK
    <3>2. \A x \in On(v, t) : x \notin v.missed \cup v.stuck
      BY <1>1, <1>2, <1>3, <2>3, <3>1
    <3> QED
      BY <3>1, <3>2
  <2>4. \A x \in On(v, t) : v.parent[x] = t \/ (v.parent[x] = Field /\ x \in Elems(v.list[t]))
    <3> SUFFICES ASSUME NEW x \in On(v, t)
                 PROVE  v.parent[x] = t \/ (v.parent[x] = Field /\ x \in Elems(v.list[t]))
      OBVIOUS
    <3>1. v.parent[x] \in {s.parent[x], t}
      BY <1>1, <1>3
    <3> QED
      BY <1>1, <2>1, <3>1 DEF ListOK
  <2> QED
    BY <1>1, <2>1, <2>2, <2>3, <2>4 DEF ListOK
<1>7. ASSUME NEW u \in Squares \ {t} PROVE ListOK(v, u)
  <2>1. ListOK(s, u) /\ \A x \in On(s, u) : x \in Items \ {i}
    BY <1>3, <1>4 DEF ListsOK
  <2>2. v.list[u] = s.list[u] /\ On(v, u) = On(s, u) /\ (u \in v.browsed <=> u \in s.browsed)
    BY <1>1, <1>2
  <2>3. \A x \in On(s, u) : ListedRight(s, u, x) => ListedRight(v, u, x)
    BY <2>1, <2>2 DEF ListedRight
  <2>4. On(s, u) \cap (s.missed \cup s.stuck) = {} => On(v, u) \cap (v.missed \cup v.stuck) = {}
    BY <2>1, <2>2
  <2> QED
    BY <2>1, <2>2, <2>3, <2>4 DEF ListOK
<1>8. v.missed \cup v.stuck \subseteq Lying(v)
  BY <1>1, <1>5 DEF ListsOK
<1>9. \A x \in Items \ Lying(v) : v.parent[x] = NoItem
  BY <1>1, <1>5 DEF ListsOK
<1> QED
  BY <1>6, <1>7, <1>8, <1>9 DEF ListsOK

\* The fields after an item has been updated.
IsUpdated(s, v, t, i, k) ==
  /\ Shape(v) /\ SameRefs(s, v) /\ SamePlaces(s, v)
  /\ v.ground = s.ground /\ v.dangling = s.dangling
  /\ v.kind = [s.kind EXCEPT ![i] = k]
  /\ v.flags = [s.flags EXCEPT ![t] =
       ((@ \ (PropertiesOf(s.kind[i]) \ OtherProperties(s, t, i))) \ Special(s.kind[i]))
         \cup PropertiesOf(k) \cup Special(k)]
  /\ v.stuck = Mark(s, t, i, k).stuck /\ v.missed = Mark(s, t, i, k).missed
  /\ /\ s.list \in [Squares -> Seq(Items)]
     /\ s.parent \in [Items -> Squares \cup {NoItem, Field}]
     => /\ v.list = s.list
        /\ v.parent \in [Items -> Squares \cup {NoItem, Field}]
        /\ \A x \in Items \ {i} : v.parent[x] = s.parent[x]
        /\ v.parent[i] \in {s.parent[i], t}

\* The code of an update does that.
LEMMA UpdateThingIs ==
  ASSUME NEW s, TileInv(s), NEW t \in Squares, NEW i \in Items, NEW k
  PROVE  IsUpdated(s, UpdateThing(s, t, i, k), t, i, k)
<1>1. PICK m : m = Mark(s, t, i, k)
  OBVIOUS
<1>2. /\ Shape(m) /\ SameRefs(s, m) /\ SamePlaces(s, m)
      /\ m.ground = s.ground /\ m.dangling = s.dangling /\ m.kind = s.kind /\ m.flags = s.flags
      /\ m.list = s.list /\ m.parent = s.parent
  BY <1>1 DEF Mark, TileInv, Shape, FieldNames, SameRefs, SamePlaces
<1>3. PICK r : r = ResetTileFlags(m, t, i, s.kind[i])
  OBVIOUS
<1>4. /\ Shape(r) /\ SameRefs(m, r) /\ SamePlaces(m, r) /\ SameLists(m, r)
      /\ r.ground = m.ground /\ r.dangling = m.dangling /\ r.kind = m.kind
      /\ r.flags = [m.flags EXCEPT ![t] =
           (@ \ (PropertiesOf(s.kind[i]) \ OtherProperties(m, t, i))) \ Special(s.kind[i])]
  BY <1>2, <1>3 DEF ResetTileFlags, Shape, FieldNames, SameRefs, SamePlaces, SameLists
<1>5. PICK n : n = Renamed(r, i, k)
  OBVIOUS
<1>6. /\ Shape(n) /\ SameRefs(r, n) /\ SamePlaces(r, n) /\ SameLists(r, n)
      /\ n.ground = r.ground /\ n.dangling = r.dangling /\ n.flags = r.flags
      /\ n.kind = [r.kind EXCEPT ![i] = k]
  BY <1>4, <1>5 DEF Renamed, Shape, FieldNames, SameRefs, SamePlaces, SameLists
<1>7. PICK f : f = SetTileFlags(n, t, k)
  OBVIOUS
<1>8. /\ Shape(f) /\ SameRefs(n, f) /\ SamePlaces(n, f) /\ SameLists(n, f)
      /\ f.ground = n.ground /\ f.dangling = n.dangling /\ f.kind = n.kind
      /\ f.flags = [n.flags EXCEPT ![t] = @ \cup PropertiesOf(k) \cup Special(k)]
  BY <1>6, <1>7 DEF SetTileFlags, Shape, FieldNames, SameRefs, SamePlaces, SameLists
<1>9. PICK v : v = UpdateThing(s, t, i, k)
  OBVIOUS
<1>10. v = OnUpdateTileItem(f, t, i, i)
  BY <1>1, <1>3, <1>5, <1>7, <1>9 DEF UpdateThing
<1>11. /\ SameButList(f, v)
       /\ /\ f.list \in [Squares -> Seq(Items)]
          /\ f.parent \in [Items -> Squares \cup {NoItem, Field}]
          => /\ v.list = f.list
             /\ v.parent \in [Items -> Squares \cup {NoItem, Field}]
             /\ \A x \in Items \ {i} : v.parent[x] = f.parent[x]
             /\ v.parent[i] \in {f.parent[i], t}
  BY <1>8, <1>10, OnUpdateIs
<1>12. f.list = s.list /\ f.parent = s.parent
  BY <1>2, <1>4, <1>6, <1>8 DEF SameLists
<1>13. v.stuck = m.stuck /\ v.missed = m.missed
  BY <1>4, <1>6, <1>8, <1>11 DEF SameLists, SameButList
<1>14. SameRefs(s, v)
  BY <1>2, <1>4, <1>6, <1>8, <1>11 DEF SameRefs, SameButList
<1>15. SamePlaces(s, v)
  BY <1>2, <1>4, <1>6, <1>8, <1>11 DEF SamePlaces, SameButList
<1>16. Shape(v) /\ v.ground = s.ground /\ v.dangling = s.dangling
       /\ v.kind = [s.kind EXCEPT ![i] = k]
  BY <1>2, <1>4, <1>6, <1>8, <1>11 DEF SameButList
<1>17. OtherProperties(m, t, i) = OtherProperties(s, t, i)
  BY <1>2 DEF OtherProperties, On, SamePlaces
<1>18. v.flags = [s.flags EXCEPT ![t] =
         ((@ \ (PropertiesOf(s.kind[i]) \ OtherProperties(s, t, i))) \ Special(s.kind[i]))
           \cup PropertiesOf(k) \cup Special(k)]
  <2>1. s.flags \in [Squares -> SUBSET AllFlags]
    BY DEF TileInv, FlagsOK
  <2>2. PICK x : x = (s.flags[t] \ (PropertiesOf(s.kind[i]) \ OtherProperties(s, t, i)))
                       \ Special(s.kind[i])
    OBVIOUS
  <2>3. r.flags = [s.flags EXCEPT ![t] = x]
    BY <1>2, <1>4, <1>17, <2>2
  <2>4. f.flags = [r.flags EXCEPT ![t] = @ \cup PropertiesOf(k) \cup Special(k)]
    BY <1>6, <1>8
  <2>5. f.flags = [s.flags EXCEPT ![t] = x \cup PropertiesOf(k) \cup Special(k)]
    BY <2>1, <2>3, <2>4
  <2> QED
    BY <1>11, <2>2, <2>5 DEF SameButList
<1> QED
  BY <1>1, <1>9, <1>11, <1>12, <1>13, <1>14, <1>15, <1>16, <1>18 DEF IsUpdated

\* An item that turns into another kind, on the same side of the creatures.
LEMMA UpdateThingInv ==
  ASSUME TilesAssumption, NEW s, TileInv(s), NEW t \in Squares, NEW i \in On(s, t),
         NEW k \in ItemKinds, i \in Elems(s.top[t]) => k \in TopKinds
  PROVE  /\ TileInv(UpdateThing(s, t, i, k)) /\ SamePlaces(s, UpdateThing(s, t, i, k))
         /\ Lying(UpdateThing(s, t, i, k)) = Lying(s)
         /\ UpdateThing(s, t, i, k).kind = [s.kind EXCEPT ![i] = k]
<1>1. i \in Items /\ \A u \in Squares : On(s, u) \subseteq Items
  BY DEF TileInv, PlacesOK, On, Elems
<1>2. PICK v : v = UpdateThing(s, t, i, k)
  OBVIOUS
<1>3. IsUpdated(s, v, t, i, k)
  BY <1>1, <1>2, UpdateThingIs
<1>4. (\A u : On(v, u) = On(s, u)) /\ Lying(v) = Lying(s) /\ PlacesOK(v)
  BY <1>3, OnKept DEF IsUpdated, TileInv
<1>5. /\ v.kind \in [Items -> ItemKinds \cup {"none"}] /\ v.kind[i] = k
      /\ \A x \in Items \ {i} : v.kind[x] = s.kind[x]
  BY <1>1, <1>3 DEF IsUpdated, TileInv, KindsOK
<1>6. \A u \in Squares \ {t} : i \notin On(s, u)
  BY DEF TileInv, PlacesOK
<1>7. KindsOK(v)
  <2>1. k # "none"
    BY DEF ItemKinds, TopKinds, Fields, Movables
  <2>2. \A u \in Squares : \A x \in On(v, u) : v.kind[x] # "none"
    BY <1>1, <1>4, <1>5, <2>1 DEF TileInv, KindsOK
  <2>3. ASSUME NEW u \in Squares, NEW x \in Elems(v.top[u]) PROVE v.kind[x] \in TopKinds
    <3>1. x \in Elems(s.top[u]) /\ x \in On(s, u)
      BY <1>3, <1>4 DEF IsUpdated, SamePlaces, On
    <3>2. CASE x = i
      BY <1>5, <1>6, <3>1, <3>2
    <3>3. CASE x # i
      BY <1>1, <1>5, <3>1, <3>3 DEF TileInv, KindsOK
    <3> QED
      BY <3>2, <3>3
  <2> QED
    BY <1>5, <2>2, <2>3 DEF KindsOK
<1>8. FlagsOK(v)
  <2>1. v.flags \in [Squares -> SUBSET AllFlags]
    <3>1. PropertiesOf(k) \cup Special(k) \subseteq AllFlags
      BY FlagsApart DEF AllFlags
    <3> QED
      BY <1>3, <3>1 DEF IsUpdated, TileInv, FlagsOK
  <2>2. FlagsAt(v, t)
    <3>1. NoItem \notin On(s, t) \cup {i}
      BY <1>1 DEF TilesAssumption
    <3>2. PICK o : o = OtherProperties(s, t, i)
      OBVIOUS
    <3>3. v.flags[t] = ((s.flags[t] \ (PropertiesOf(s.kind[i]) \ o)) \ Special(s.kind[i]))
                         \cup PropertiesOf(v.kind[i]) \cup Special(v.kind[i])
      BY <1>3, <1>5, <3>2 DEF IsUpdated, TileInv, FlagsOK
    <3>4. FlagsAt(s, t)
      BY DEF TileInv, FlagsOK
    <3>5. v.ground[t] = s.ground[t] /\ \A x \in On(s, t) \ {i} : v.kind[x] = s.kind[x]
      BY <1>1, <1>3, <1>5 DEF IsUpdated
    <3>6. On(v, t) = (On(s, t) \ {i}) \cup {i}
      BY <1>4
    <3>7. OtherProperties(v, t, i) = o
      BY <1>4, <3>2, <3>5 DEF OtherProperties
    <3>8. \A x \in o : x \in OtherProperties(v, t, NoItem)
      BY <1>4, <3>1, <3>7 DEF OtherProperties
    <3>9. OtherProperties(v, t, i) \subseteq o
      BY <3>7
    <3> QED
      BY <3>1, <3>3, <3>4, <3>5, <3>6, <3>8, <3>9, FlagsInstead
  <2>3. ASSUME NEW u \in Squares \ {t} PROVE FlagsAt(v, u)
    <3>1. v.flags[u] = s.flags[u] /\ v.ground = s.ground
      BY <1>3 DEF IsUpdated, TileInv, FlagsOK
    <3>2. FlagsAt(s, u) /\ On(v, u) = On(s, u)
      BY <1>4 DEF TileInv, FlagsOK
    <3>3. \A x \in On(s, u) : v.kind[x] = s.kind[x]
      BY <1>1, <1>5, <1>6
    <3> QED
      BY <3>1, <3>2, <3>3 DEF FlagsAt, OtherProperties
  <2>4. v.ground \in [Squares -> Grounds \cup {"none"}]
    BY <1>3 DEF IsUpdated, TileInv, FlagsOK
  <2> QED
    BY <2>1, <2>2, <2>3, <2>4 DEF FlagsOK
<1>9. RefsOK(v)
  BY <1>3, RefsKept DEF IsUpdated, TileInv
<1>10. ASSUME ListsOK(s) PROVE ListsOK(v)
  <2>1. /\ s.list \in [Squares -> Seq(Items)]
        /\ s.parent \in [Items -> Squares \cup {NoItem, Field}]
    BY <1>10 DEF ListsOK
  <2>2. /\ v.list = s.list /\ v.parent \in [Items -> Squares \cup {NoItem, Field}]
        /\ \A x \in Items \ {i} : v.parent[x] = s.parent[x]
        /\ v.parent[i] \in {s.parent[i], t}
    BY <1>3, <2>1 DEF IsUpdated
  <2>3. /\ v.stuck = IF k \in Movables THEN s.stuck \ {i}
                     ELSE IF Listed(s, t, i) THEN s.stuck \cup {i} ELSE s.stuck
        /\ v.missed = IF k \notin Movables THEN s.missed \ {i}
                      ELSE IF t \in s.browsed /\ ~Listed(s, t, i) THEN s.missed \cup {i} ELSE s.missed
    BY <1>3 DEF IsUpdated, Mark, TileInv, Shape, FieldNames
  <2>4. ListOK(s, t) /\ s.missed \cup s.stuck \subseteq Lying(s) /\ Lying(s) \subseteq Items
    BY <1>1, <1>10 DEF ListsOK, Lying
  <2>5. \A x \in Items \ {i} : (x \in v.missed <=> x \in s.missed) /\ (x \in v.stuck <=> x \in s.stuck)
    BY <2>3
  <2>6. v.missed \cup v.stuck \subseteq Items
    BY <1>1, <2>3, <2>4
  <2>7. ASSUME t \in s.browsed PROVE ListedRight(v, t, i)
    <3>1. ListedRight(s, t, i)
      BY <2>4, <2>7 DEF ListOK
    <3> QED
      BY <1>5, <2>2, <2>3, <2>7, <3>1 DEF ListedRight, Listed
  <2>8. ASSUME t \notin s.browsed PROVE i \notin v.missed \cup v.stuck
    <3>1. i \notin s.missed \cup s.stuck
      BY <2>4, <2>8 DEF ListOK
    <3> QED
      BY <2>3, <2>8, <3>1 DEF Listed
  <2>9. SameRefs(s, v) /\ SamePlaces(s, v) /\ PlacesOK(s)
    BY <1>3 DEF IsUpdated, TileInv
  <2> QED
    BY <1>5, <1>10, <2>2, <2>5, <2>6, <2>7, <2>8, <2>9, ListsUpdated
<1> QED
  BY <1>2, <1>3, <1>4, <1>7, <1>8, <1>9, <1>10 DEF IsUpdated, TileInv

\* A pile that gets smaller stays what it is to the tile.
LEMMA TakePartInv ==
  ASSUME TilesAssumption, NEW s, TileInv(s), NEW t \in Squares, NEW i \in On(s, t),
         s.kind[i] = "coins"
  PROVE  TileInv(TakePart(s, t, i))
<1>1. i \in Items /\ \A u \in Squares : On(s, u) \subseteq Items
  BY DEF TileInv, PlacesOK, On, Elems
<1>2. PICK a : a = Renamed(s, i, "coin")
  OBVIOUS
<1>3. /\ Shape(a) /\ SameRefs(s, a) /\ SamePlaces(s, a) /\ SameLists(s, a)
      /\ a.ground = s.ground /\ a.dangling = s.dangling /\ a.flags = s.flags
      /\ a.kind = [s.kind EXCEPT ![i] = "coin"]
  BY <1>2 DEF Renamed, TileInv, Shape, FieldNames, SameRefs, SamePlaces, SameLists
<1>4. PICK v : v = TakePart(s, t, i)
  OBVIOUS
<1>5. v = OnUpdateTileItem(a, t, i, i)
  BY <1>2, <1>4 DEF TakePart
<1>6. /\ SameButList(a, v)
      /\ /\ a.list \in [Squares -> Seq(Items)]
         /\ a.parent \in [Items -> Squares \cup {NoItem, Field}]
         => /\ v.list = a.list
            /\ v.parent \in [Items -> Squares \cup {NoItem, Field}]
            /\ \A x \in Items \ {i} : v.parent[x] = a.parent[x]
            /\ v.parent[i] \in {a.parent[i], t}
  BY <1>1, <1>3, <1>5, OnUpdateIs
<1>7. SamePlaces(s, v) /\ SameRefs(s, v)
  BY <1>3, <1>6 DEF SameButList, SamePlaces, SameRefs
<1>8. (\A u : On(v, u) = On(s, u)) /\ Lying(v) = Lying(s) /\ PlacesOK(v)
  BY <1>7, OnKept DEF TileInv
<1>9. /\ v.kind = a.kind /\ v.kind[i] = "coin" /\ \A x \in Items \ {i} : v.kind[x] = s.kind[x]
  BY <1>1, <1>3, <1>6 DEF SameButList, TileInv, KindsOK
<1>10. KindsOK(v)
  <2>1. v.kind \in [Items -> ItemKinds \cup {"none"}]
    BY <1>3, <1>9 DEF TileInv, KindsOK, ItemKinds, Movables
  <2>2. \A u \in Squares : \A x \in On(v, u) : v.kind[x] # "none"
    BY <1>1, <1>8, <1>9 DEF TileInv, KindsOK
  <2>3. ASSUME NEW u \in Squares, NEW x \in Elems(v.top[u]) PROVE v.kind[x] \in TopKinds
    <3>1. x \in Elems(s.top[u]) /\ x \in On(s, u)
      BY <1>7, <1>8 DEF SamePlaces, On
    <3>2. s.kind[x] \in TopKinds
      BY <3>1 DEF TileInv, KindsOK
    <3>3. x # i
      BY <3>2 DEF TopKinds
    <3> QED
      BY <1>1, <1>9, <3>1, <3>2, <3>3
  <2> QED
    BY <2>1, <2>2, <2>3 DEF KindsOK
<1>11. FlagsOK(v)
  <2>1. PropertiesOf("coin") = PropertiesOf("coins") /\ Special("coin") = Special("coins")
    <3>1. \A p \in Properties : HasProperty("coin", p) <=> HasProperty("coins", p)
      BY DEF Properties, HasProperty, Solids, PathBlocks, Movables, Fields
    <3>2. Special("coin") = Special("coins")
      BY DEF Special, Fields
    <3> QED
      BY <3>1, <3>2 DEF PropertiesOf
  <2>2. \A u \in Squares : \A x \in On(s, u) :
          PropertiesOf(v.kind[x]) = PropertiesOf(s.kind[x]) /\ Special(v.kind[x]) = Special(s.kind[x])
    BY <1>1, <1>9, <2>1
  <2>3. v.flags = s.flags /\ v.ground = s.ground
    BY <1>3, <1>6 DEF SameButList
  <2>4. ASSUME NEW u \in Squares PROVE FlagsAt(v, u)
    <3>1. OtherProperties(v, u, NoItem) = OtherProperties(s, u, NoItem)
      BY <1>8, <2>2, <2>3 DEF OtherProperties
    <3>2. UNION {Special(v.kind[x]) : x \in On(v, u)} = UNION {Special(s.kind[x]) : x \in On(s, u)}
      BY <1>8, <2>2
    <3> QED
      BY <2>3, <3>1, <3>2 DEF TileInv, FlagsOK, FlagsAt
  <2> QED
    BY <2>3, <2>4 DEF TileInv, FlagsOK
<1>12. RefsOK(v)
  BY <1>7, RefsKept DEF TileInv
<1>13. ASSUME ListsOK(s) PROVE ListsOK(v)
  <2>1. /\ s.list \in [Squares -> Seq(Items)]
        /\ s.parent \in [Items -> Squares \cup {NoItem, Field}]
        /\ a.list = s.list /\ a.parent = s.parent
    BY <1>3, <1>13 DEF ListsOK, SameLists
  <2>2. /\ v.list = s.list /\ v.parent \in [Items -> Squares \cup {NoItem, Field}]
        /\ \A x \in Items \ {i} : v.parent[x] = s.parent[x]
        /\ v.parent[i] \in {s.parent[i], t}
    BY <1>6, <2>1
  <2>3. v.missed = s.missed /\ v.stuck = s.stuck
    BY <1>3, <1>6 DEF SameButList, SameLists
  <2>4. ListOK(s, t) /\ s.missed \cup s.stuck \subseteq Lying(s) /\ Lying(s) \subseteq Items
    BY <1>1, <1>13 DEF ListsOK, Lying
  <2>5. \A x \in Items \ {i} : (x \in v.missed <=> x \in s.missed) /\ (x \in v.stuck <=> x \in s.stuck)
    BY <2>3
  <2>6. v.missed \cup v.stuck \subseteq Items
    BY <2>3, <2>4
  <2>7. ASSUME t \in s.browsed PROVE ListedRight(v, t, i)
    <3>1. ListedRight(s, t, i)
      BY <2>4, <2>7 DEF ListOK
    <3> QED
      BY <1>9, <2>2, <2>3, <3>1 DEF ListedRight, Movables
  <2>8. ASSUME t \notin s.browsed PROVE i \notin v.missed \cup v.stuck
    BY <2>3, <2>4, <2>8 DEF ListOK
  <2>9. SameRefs(s, v) /\ SamePlaces(s, v) /\ PlacesOK(s)
    BY <1>7 DEF TileInv
  <2> QED
    BY <1>9, <1>13, <2>2, <2>5, <2>6, <2>7, <2>8, <2>9, ListsUpdated
<1>14. Shape(v) /\ v.dangling = s.dangling
  BY <1>3, <1>6 DEF SameButList
<1> QED
  BY <1>4, <1>8, <1>10, <1>11, <1>12, <1>13, <1>14 DEF TileInv
-----------------------------------------------------------------------------
(* An item takes the place of another.                                     *)

\* The list of the container after j has come for i.
IsRelisted(s, v, t, i, j) ==
  v.list =
    IF s.kind[j] \in Movables
    THEN IF Listed(s, t, i)
         THEN [s.list EXCEPT ![t] = [s.list[t] EXCEPT ![IndexIn(s.list[t], i)] = j]] ELSE s.list
    ELSE IF s.kind[i] \in Movables THEN [s.list EXCEPT ![t] = Without(@, i)] ELSE s.list

\* The fields after j has come for i.
IsReplaced(s, v, t, i, j) ==
  /\ Shape(v) /\ SameRefs(s, v)
  /\ v.ground = s.ground /\ v.kind = s.kind
  /\ v.top = [s.top EXCEPT ![t] = Swap(@, i, j)]
  /\ v.down = [s.down EXCEPT ![t] = Swap(@, i, j)]
  /\ v.flags = [s.flags EXCEPT ![t] =
       ((@ \ (PropertiesOf(s.kind[i]) \ OtherProperties(v, t, i))) \ Special(s.kind[i]))
         \cup PropertiesOf(s.kind[j]) \cup Special(s.kind[j])]
  /\ v.missed = (s.missed \cup NewlyMovable(s, t, i, j)) \ {i} /\ v.stuck = s.stuck \ {i}
  /\ IsRelisted(s, v, t, i, j)
  /\ v.dangling = (s.dangling \/ Listed(v, t, i))
  /\ s.parent \in [Items -> Squares \cup {NoItem, Field}]
     => v.parent = [[s.parent EXCEPT ![j] = t] EXCEPT ![i] = NoItem]

\* The code of a replacement does that.
LEMMA ReplaceThingIs ==
  ASSUME NEW s, TileInv(s), NEW t \in Squares, NEW i \in Items, NEW j \in Items, i # j
  PROVE  IsReplaced(s, ReplaceThing(s, t, i, j), t, i, j)
<1>1. PICK a : a = [Swapped(s, t, i, j) EXCEPT !.missed = @ \cup NewlyMovable(s, t, i, j)]
  OBVIOUS
<1>2. /\ Shape(a) /\ SameRefs(s, a)
      /\ a.ground = s.ground /\ a.dangling = s.dangling /\ a.kind = s.kind /\ a.flags = s.flags
      /\ a.list = s.list /\ a.stuck = s.stuck
      /\ a.missed = s.missed \cup NewlyMovable(s, t, i, j)
      /\ a.parent = [s.parent EXCEPT ![j] = t]
      /\ a.top = [s.top EXCEPT ![t] = Swap(@, i, j)]
      /\ a.down = [s.down EXCEPT ![t] = Swap(@, i, j)]
  <2>1. PICK z : z = Swapped(s, t, i, j)
    OBVIOUS
  <2>2. /\ Shape(z) /\ SameRefs(s, z)
        /\ z.ground = s.ground /\ z.dangling = s.dangling /\ z.kind = s.kind /\ z.flags = s.flags
        /\ z.list = s.list /\ z.stuck = s.stuck /\ z.missed = s.missed
        /\ z.parent = [s.parent EXCEPT ![j] = t]
        /\ z.top = [s.top EXCEPT ![t] = Swap(@, i, j)]
        /\ z.down = [s.down EXCEPT ![t] = Swap(@, i, j)]
    BY <2>1 DEF Swapped, TileInv, Shape, FieldNames, SameRefs
  <2>3. a = [z EXCEPT !.missed = @ \cup NewlyMovable(s, t, i, j)]
    BY <1>1, <2>1
  <2> QED
    BY <2>2, <2>3 DEF Shape, FieldNames, SameRefs
<1>3. PICK r : r = ResetTileFlags(a, t, i, s.kind[i])
  OBVIOUS
<1>4. /\ Shape(r) /\ SameRefs(a, r) /\ SamePlaces(a, r) /\ SameLists(a, r)
      /\ r.ground = a.ground /\ r.dangling = a.dangling /\ r.kind = a.kind
      /\ r.flags = [a.flags EXCEPT ![t] =
           (@ \ (PropertiesOf(s.kind[i]) \ OtherProperties(a, t, i))) \ Special(s.kind[i])]
  BY <1>2, <1>3 DEF ResetTileFlags, Shape, FieldNames, SameRefs, SamePlaces, SameLists
<1>5. PICK f : f = SetTileFlags(r, t, s.kind[j])
  OBVIOUS
<1>6. /\ Shape(f) /\ SameRefs(r, f) /\ SamePlaces(r, f) /\ SameLists(r, f)
      /\ f.ground = r.ground /\ f.dangling = r.dangling /\ f.kind = r.kind
      /\ f.flags = [r.flags EXCEPT ![t] = @ \cup PropertiesOf(s.kind[j]) \cup Special(s.kind[j])]
  BY <1>4, <1>5 DEF SetTileFlags, Shape, FieldNames, SameRefs, SamePlaces, SameLists
<1>7. PICK b : b = Rebrowsed(f, t, i, j)
  OBVIOUS
<1>8. /\ SameButList(f, b)
      /\ IsRelisted(f, b, t, i, j)
      /\ b.parent = IF f.kind[j] \in Movables /\ Listed(f, t, i)
                    THEN [[f.parent EXCEPT ![i] = NoItem] EXCEPT ![j] = t] ELSE f.parent
  <2>1. CASE f.kind[j] \in Movables /\ Listed(f, t, i)
    BY <1>6, <1>7, <2>1
       DEF Rebrowsed, SameButList, IsRelisted, Shape, FieldNames, SameRefs, SamePlaces
  <2>2. CASE f.kind[j] \in Movables /\ ~Listed(f, t, i)
    BY <1>6, <1>7, <2>2
       DEF Rebrowsed, SameButList, IsRelisted, SameRefs, SamePlaces
  <2>3. CASE f.kind[j] \notin Movables
    BY <1>6, <1>7, <2>3
       DEF Rebrowsed, SameButList, IsRelisted, Shape, FieldNames, SameRefs, SamePlaces
  <2> QED
    BY <2>1, <2>2, <2>3
<1>9. PICK u : u = SentUpdate(b, t, j)
  OBVIOUS
<1>10. Alike(b, u)
  BY <1>8, <1>9, SentIs DEF SameButList
<1>11. PICK v : v = ReplaceThing(s, t, i, j)
  OBVIOUS
<1>12. v = Orphaned(u, t, i)
  <2>1. a.kind = s.kind
    BY <1>2
  <2> QED
    BY <1>1, <1>3, <1>5, <1>7, <1>9, <1>11, <2>1 DEF ReplaceThing, OnUpdateTileItem
<1>13. /\ Shape(v) /\ SameRefs(u, v) /\ SamePlaces(u, v)
       /\ v.ground = u.ground /\ v.kind = u.kind /\ v.flags = u.flags /\ v.list = u.list
       /\ v.parent = [u.parent EXCEPT ![i] = NoItem]
       /\ v.missed = u.missed \ {i} /\ v.stuck = u.stuck \ {i}
       /\ v.dangling = (u.dangling \/ Listed(u, t, i))
  BY <1>10, <1>12 DEF Alike, Orphaned, Shape, FieldNames, SameRefs, SamePlaces
<1>14. SameRefs(s, v)
  BY <1>2, <1>4, <1>6, <1>8, <1>10, <1>13 DEF SameRefs, SameButList, Alike
<1>15. SamePlaces(a, v)
  BY <1>4, <1>6, <1>8, <1>10, <1>13 DEF SamePlaces, SameButList, Alike
<1>16. v.missed = (s.missed \cup NewlyMovable(s, t, i, j)) \ {i} /\ v.stuck = s.stuck \ {i}
  BY <1>2, <1>4, <1>6, <1>8, <1>10, <1>13 DEF SameLists, SameButList, Alike
<1>17. f.kind = s.kind /\ f.list = s.list /\ f.browsed = s.browsed /\ v.list = b.list
  BY <1>2, <1>4, <1>6, <1>10, <1>13 DEF SameLists, Alike, SameRefs
<1>18. IsRelisted(s, v, t, i, j)
  BY <1>8, <1>17 DEF IsRelisted, Listed
<1>19. v.dangling = (s.dangling \/ Listed(v, t, i))
  <2>1. Listed(u, t, i) <=> Listed(v, t, i)
    BY <1>13 DEF Listed, SameRefs
  <2>2. u.dangling = s.dangling
    BY <1>2, <1>4, <1>6, <1>8, <1>10 DEF SameButList, Alike
  <2> QED
    BY <1>13, <2>1, <2>2
<1>20. v.ground = s.ground /\ v.kind = s.kind /\ v.flags = f.flags
  BY <1>2, <1>4, <1>6, <1>8, <1>10, <1>13 DEF SameButList, Alike
<1>21. OtherProperties(a, t, i) = OtherProperties(v, t, i)
  BY <1>2, <1>15, <1>20 DEF OtherProperties, On, SamePlaces
<1>22. v.flags = [s.flags EXCEPT ![t] =
         ((@ \ (PropertiesOf(s.kind[i]) \ OtherProperties(v, t, i))) \ Special(s.kind[i]))
           \cup PropertiesOf(s.kind[j]) \cup Special(s.kind[j])]
  <2>1. s.flags \in [Squares -> SUBSET AllFlags]
    BY DEF TileInv, FlagsOK
  <2>2. PICK x : x = (s.flags[t] \ (PropertiesOf(s.kind[i]) \ OtherProperties(v, t, i)))
                       \ Special(s.kind[i])
    OBVIOUS
  <2>3. r.flags = [s.flags EXCEPT ![t] = x]
    BY <1>2, <1>4, <1>21, <2>2
  <2>4. f.flags = [s.flags EXCEPT ![t] = x \cup PropertiesOf(s.kind[j]) \cup Special(s.kind[j])]
    BY <1>6, <2>1, <2>3
  <2> QED
    BY <1>20, <2>2, <2>4
<1>23. ASSUME s.parent \in [Items -> Squares \cup {NoItem, Field}]
       PROVE  v.parent = [[s.parent EXCEPT ![j] = t] EXCEPT ![i] = NoItem]
  <2>1. f.parent = [s.parent EXCEPT ![j] = t]
    BY <1>2, <1>4, <1>6 DEF SameLists
  <2>2. \/ u.parent = [[f.parent EXCEPT ![i] = NoItem] EXCEPT ![j] = t]
        \/ u.parent = f.parent
    BY <1>8, <1>10 DEF Alike, SameLists
  <2>3. v.parent = [u.parent EXCEPT ![i] = NoItem]
    BY <1>13
  <2>4. f.parent \in [Items -> Squares \cup {NoItem, Field}] /\ f.parent[j] = t
    BY <1>23, <2>1
  <2>5. v.parent = [f.parent EXCEPT ![i] = NoItem]
    BY <2>2, <2>3, <2>4
  <2> QED
    BY <2>1, <2>5
<1>24. /\ v.top = [s.top EXCEPT ![t] = Swap(@, i, j)]
       /\ v.down = [s.down EXCEPT ![t] = Swap(@, i, j)]
  BY <1>2, <1>15 DEF SamePlaces
<1> QED
  BY <1>11, <1>13, <1>14, <1>16, <1>18, <1>19, <1>20, <1>22, <1>23, <1>24 DEF IsReplaced

\* Where things lie after j has come for i.
LEMMA PlacesInstead ==
  ASSUME NEW s, NEW v, PlacesOK(s), NEW t \in Squares, NEW i \in On(s, t),
         NEW j \in Items \ Lying(s),
         v.top = [s.top EXCEPT ![t] = Swap(@, i, j)],
         v.down = [s.down EXCEPT ![t] = Swap(@, i, j)]
  PROVE  /\ PlacesOK(v) /\ On(v, t) = (On(s, t) \ {i}) \cup {j}
         /\ \A u \in Squares \ {t} : On(v, u) = On(s, u) /\ v.top[u] = s.top[u]
         /\ Lying(v) = (Lying(s) \ {i}) \cup {j}
         /\ Elems(v.top[t]) \subseteq Elems(s.top[t]) \cup (IF i \in Elems(s.top[t]) THEN {j} ELSE {})
<1>1. \A u \in Squares : j \notin On(s, u)
  BY DEF Lying
<1>2. \A u \in Squares \ {t} : i \notin On(s, u)
  BY DEF PlacesOK
<1>3. s.top \in [Squares -> Seq(Items)] /\ s.down \in [Squares -> Seq(Items)]
  BY DEF PlacesOK
<1>4. PICK p : p = s.top[t]
  OBVIOUS
<1>5. PICK q : q = s.down[t]
  OBVIOUS
<1>6. /\ p \in Seq(Items) /\ q \in Seq(Items) /\ Distinct(p) /\ Distinct(q)
      /\ Elems(p) \cap Elems(q) = {} /\ On(s, t) = Elems(p) \cup Elems(q)
      /\ j \notin Elems(p) /\ j \notin Elems(q)
  BY <1>1, <1>3, <1>4, <1>5 DEF PlacesOK, On
<1>7. /\ Swap(p, i, j) \in Seq(Items) /\ Distinct(Swap(p, i, j))
      /\ i \in Elems(p) => Elems(Swap(p, i, j)) = (Elems(p) \ {i}) \cup {j}
      /\ i \notin Elems(p) => Swap(p, i, j) = p
  BY <1>6, SwapIs
<1>8. /\ Swap(q, i, j) \in Seq(Items) /\ Distinct(Swap(q, i, j))
      /\ i \in Elems(q) => Elems(Swap(q, i, j)) = (Elems(q) \ {i}) \cup {j}
      /\ i \notin Elems(q) => Swap(q, i, j) = q
  BY <1>6, SwapIs
<1>9. v.top[t] = Swap(p, i, j) /\ v.down[t] = Swap(q, i, j)
  BY <1>3, <1>4, <1>5
<1>10. v.top \in [Squares -> Seq(Items)] /\ v.down \in [Squares -> Seq(Items)]
  BY <1>3, <1>4, <1>5, <1>7, <1>8
<1>11. \A u \in Squares \ {t} : v.top[u] = s.top[u] /\ v.down[u] = s.down[u]
  BY <1>3
<1>12. \/ i \in Elems(p) /\ i \notin Elems(q)
       \/ i \in Elems(q) /\ i \notin Elems(p)
  BY <1>6
<1>13. /\ On(v, t) = (On(s, t) \ {i}) \cup {j}
       /\ Distinct(v.top[t]) /\ Distinct(v.down[t]) /\ Elems(v.top[t]) \cap Elems(v.down[t]) = {}
       /\ Elems(v.top[t]) \subseteq Elems(p) \cup (IF i \in Elems(p) THEN {j} ELSE {})
  BY <1>6, <1>7, <1>8, <1>9, <1>12 DEF On
<1>14. \A u \in Squares \ {t} : On(v, u) = On(s, u)
  BY <1>11 DEF On
<1>15. Lying(v) = (Lying(s) \ {i}) \cup {j}
  BY <1>1, <1>2, <1>13, <1>14 DEF Lying
<1>16. \A u, w \in Squares : On(v, u) \cap On(v, w) # {} => u = w
  <2>1. \A u, w \in Squares : On(s, u) \cap On(s, w) # {} => u = w
    BY DEF PlacesOK
  <2> SUFFICES ASSUME NEW u \in Squares, NEW w \in Squares, NEW x \in On(v, u) \cap On(v, w)
               PROVE  u = w
    OBVIOUS
  <2>2. CASE x = j
    BY <1>1, <1>14, <2>2
  <2>3. CASE x # j
    BY <1>13, <1>14, <2>1, <2>3
  <2> QED
    BY <2>2, <2>3
<1>17. \A u \in Squares :
         /\ Distinct(v.top[u]) /\ Distinct(v.down[u])
         /\ Elems(v.top[u]) \cap Elems(v.down[u]) = {}
  BY <1>11, <1>13 DEF PlacesOK
<1>18. PlacesOK(v)
  BY <1>10, <1>16, <1>17 DEF PlacesOK
<1> QED
  BY <1>4, <1>11, <1>13, <1>14, <1>15, <1>18

\* The container has j where it had i, unless one of the two is not movable.
LEMMA ListsInstead ==
  ASSUME NEW s, NEW v, NEW t \in Squares, NEW i \in On(s, t), NEW j \in Items \ Lying(s),
         ListsOK(s), PlacesOK(s), IsReplaced(s, v, t, i, j), ~v.dangling
  PROVE  ListsOK(v)
<1>1. /\ On(v, t) = (On(s, t) \ {i}) \cup {j}
      /\ \A u \in Squares \ {t} : On(v, u) = On(s, u)
      /\ Lying(v) = (Lying(s) \ {i}) \cup {j}
  BY PlacesInstead DEF IsReplaced
<1>2. i \in Items /\ i # j /\ \A u \in Squares : On(s, u) \subseteq Items \ {j}
  BY DEF On, Elems, PlacesOK, Lying
<1>3. v.browsed = s.browsed /\ v.kind = s.kind
  BY DEF IsReplaced, SameRefs
<1>4. ListOK(s, t) /\ s.list[t] \in Seq(Items) /\ Distinct(s.list[t])
      /\ j \notin Elems(s.list[t])
  BY <1>2 DEF ListsOK, ListOK
<1>5. j \notin s.missed /\ j \notin s.stuck
  BY DEF ListsOK
<1>6. ~Listed(v, t, i)
  BY DEF IsReplaced
<1>7. PICK q : q = s.list[t]
  OBVIOUS
<1>8. /\ Without(q, i) \in Seq(Items) /\ Distinct(Without(q, i))
      /\ Elems(Without(q, i)) = Elems(q) \ {i}
      /\ i \notin Elems(q) => Without(q, i) = q
  BY <1>4, <1>7, WithoutIs
<1>9. ASSUME i \in Elems(q)
      PROVE  /\ [q EXCEPT ![IndexIn(q, i)] = j] \in Seq(Items)
             /\ Distinct([q EXCEPT ![IndexIn(q, i)] = j])
             /\ Elems([q EXCEPT ![IndexIn(q, i)] = j]) = (Elems(q) \ {i}) \cup {j}
  BY <1>4, <1>7, <1>9, ReplacedIs
<1>10. v.list[t] = IF s.kind[j] \in Movables
                   THEN IF Listed(s, t, i) THEN [q EXCEPT ![IndexIn(q, i)] = j] ELSE q
                   ELSE IF s.kind[i] \in Movables THEN Without(q, i) ELSE q
  BY <1>7 DEF IsReplaced, IsRelisted, ListsOK
<1>11. \A u \in Squares \ {t} : v.list[u] = s.list[u]
  BY DEF IsReplaced, IsRelisted, ListsOK
<1>12. v.list[t] \in Seq(Items) /\ Distinct(v.list[t])
  BY <1>4, <1>7, <1>8, <1>9, <1>10 DEF Listed
<1>13. v.list \in [Squares -> Seq(Items)]
  <2>1. \/ v.list = s.list \/ \E r : v.list = [s.list EXCEPT ![t] = r]
    BY DEF IsReplaced, IsRelisted
  <2> QED
    BY <1>12, <2>1 DEF ListsOK
<1>14. /\ v.missed = (s.missed \cup NewlyMovable(s, t, i, j)) \ {i} /\ v.stuck = s.stuck \ {i}
       /\ v.parent = [[s.parent EXCEPT ![j] = t] EXCEPT ![i] = NoItem]
  BY DEF IsReplaced, ListsOK
<1>15. /\ v.parent \in [Items -> Squares \cup {NoItem, Field}]
       /\ v.parent[j] = t /\ v.parent[i] = NoItem
       /\ \A x \in Items \ {i, j} : v.parent[x] = s.parent[x]
  BY <1>2, <1>14 DEF ListsOK
<1>16. \A x : x # i /\ x # j => (x \in v.missed <=> x \in s.missed) /\ (x \in v.stuck <=> x \in s.stuck)
  BY <1>14 DEF NewlyMovable
<1>17. ListOK(v, t)
  <2>1. CASE t \in s.browsed
    <3>1. Listed(s, t, i) <=> i \in Elems(q)
      BY <1>7, <2>1 DEF Listed
    <3>2. i \notin Elems(v.list[t])
      BY <1>3, <1>6, <2>1 DEF Listed
    <3>3. Elems(v.list[t]) = (Elems(q) \ {i})
            \cup (IF s.kind[j] \in Movables /\ i \in Elems(q) THEN {j} ELSE {})
      <4>1. CASE s.kind[j] \in Movables /\ i \in Elems(q)
        BY <1>9, <1>10, <3>1, <4>1
      <4>2. CASE s.kind[j] \in Movables /\ i \notin Elems(q)
        BY <1>10, <3>1, <4>2
      <4>3. CASE s.kind[j] \notin Movables /\ s.kind[i] \in Movables
        BY <1>8, <1>10, <4>3
      <4>4. CASE s.kind[j] \notin Movables /\ s.kind[i] \notin Movables
        BY <1>10, <3>2, <4>4
      <4> QED
        BY <4>1, <4>2, <4>3, <4>4
    <3>4. Elems(q) \subseteq On(s, t) /\ \A x \in On(s, t) : ListedRight(s, t, x)
      BY <1>4, <1>7, <2>1 DEF ListOK
    <3>5. Elems(v.list[t]) \subseteq On(v, t)
      BY <1>1, <3>3, <3>4
    <3>6. ASSUME NEW x \in On(v, t) PROVE ListedRight(v, t, x)
      <4>1. CASE x = j
        <5>1. NewlyMovable(s, t, i, j) = IF s.kind[j] \in Movables /\ i \notin Elems(q) THEN {j} ELSE {}
          BY <2>1, <3>1 DEF NewlyMovable
        <5>2. j \in v.missed <=> (s.kind[j] \in Movables /\ i \notin Elems(q))
          BY <1>2, <1>5, <1>14, <5>1
        <5>3. j \notin v.stuck
          BY <1>5, <1>14
        <5>4. j \in Elems(v.list[t]) <=> (s.kind[j] \in Movables /\ i \in Elems(q))
          BY <1>4, <1>7, <3>3
        <5> QED
          BY <1>3, <4>1, <5>2, <5>3, <5>4 DEF ListedRight
      <4>2. CASE x # j
        <5>1. x \in On(s, t) /\ x # i
          BY <1>1, <3>6, <4>2
        <5>2. ListedRight(s, t, x)
          BY <3>4, <5>1
        <5>3. x \in Elems(v.list[t]) <=> x \in Elems(s.list[t])
          BY <1>7, <3>3, <4>2, <5>1
        <5> QED
          BY <1>3, <1>16, <4>2, <5>1, <5>2, <5>3 DEF ListedRight
      <4> QED
        BY <4>1, <4>2
    <3>7. ASSUME NEW x \in On(v, t)
          PROVE  v.parent[x] = t \/ (v.parent[x] = Field /\ x \in Elems(v.list[t]))
      <4>1. CASE x = j
        BY <1>15, <4>1
      <4>2. CASE x # j
        <5>1. x \in On(s, t) /\ x # i /\ x \in Items
          BY <1>1, <1>2, <3>7, <4>2
        <5>2. v.parent[x] = s.parent[x]
          BY <1>15, <4>2, <5>1
        <5>3. s.parent[x] = t \/ (s.parent[x] = Field /\ x \in Elems(q))
          BY <1>4, <1>7, <5>1 DEF ListOK
        <5> QED
          BY <3>3, <5>1, <5>2, <5>3
      <4> QED
        BY <4>1, <4>2
    <3> QED
      BY <1>3, <1>12, <2>1, <3>5, <3>6, <3>7 DEF ListOK
  <2>2. CASE t \notin s.browsed
    <3>1. q = <<>> /\ On(s, t) \cap (s.missed \cup s.stuck) = {} /\ Elems(q) = {}
      BY <1>4, <1>7, <2>2 DEF ListOK, Elems
    <3>2. v.list[t] = <<>>
      BY <1>8, <1>10, <2>2, <3>1 DEF Listed
    <3>3. NewlyMovable(s, t, i, j) = {}
      BY <2>2 DEF NewlyMovable
    <3>4. On(v, t) \cap (v.missed \cup v.stuck) = {}
      BY <1>1, <1>5, <1>14, <3>1, <3>3
    <3>5. \A x \in On(v, t) : v.parent[x] = t
      <4> TAKE x \in On(v, t)
      <4>1. CASE x = j
        BY <1>15, <4>1
      <4>2. CASE x # j
        <5>1. x \in On(s, t) /\ x # i /\ x \in Items
          BY <1>1, <1>2, <4>2
        <5>2. v.parent[x] = s.parent[x]
          BY <1>15, <4>2, <5>1
        <5>3. s.parent[x] = t \/ (s.parent[x] = Field /\ x \in Elems(q))
          BY <1>4, <1>7, <5>1 DEF ListOK
        <5> QED
          BY <3>1, <5>2, <5>3
      <4> QED
        BY <4>1, <4>2
    <3>6. Elems(v.list[t]) \subseteq On(v, t)
      BY <3>2 DEF Elems
    <3> QED
      BY <1>3, <1>12, <2>2, <3>2, <3>4, <3>5, <3>6 DEF ListOK
  <2> QED
    BY <2>1, <2>2
<1>18. ASSUME NEW u \in Squares \ {t} PROVE ListOK(v, u)
  <2>1. ListOK(s, u) /\ \A x \in On(s, u) : x \in Items \ {i, j}
    <3>1. i \notin On(s, u)
      BY DEF PlacesOK
    <3> QED
      BY <1>2, <3>1 DEF ListsOK
  <2>2. v.list[u] = s.list[u] /\ On(v, u) = On(s, u) /\ (u \in v.browsed <=> u \in s.browsed)
    BY <1>1, <1>3, <1>11
  <2>3. \A x \in On(s, u) : ListedRight(s, u, x) => ListedRight(v, u, x)
    BY <1>3, <1>16, <2>1, <2>2 DEF ListedRight
  <2>4. On(s, u) \cap (s.missed \cup s.stuck) = {} => On(v, u) \cap (v.missed \cup v.stuck) = {}
    BY <1>16, <2>1, <2>2
  <2>5. \A x \in On(s, u) : v.parent[x] = s.parent[x]
    BY <1>15, <2>1
  <2> QED
    BY <2>1, <2>2, <2>3, <2>4, <2>5 DEF ListOK
<1>19. v.missed \cup v.stuck \subseteq Lying(v)
  <2>1. NewlyMovable(s, t, i, j) \subseteq {j}
    BY DEF NewlyMovable
  <2>2. s.missed \cup s.stuck \subseteq Lying(s)
    BY DEF ListsOK
  <2> QED
    BY <1>1, <1>14, <2>1, <2>2
<1>20. \A x \in Items \ Lying(v) : v.parent[x] = NoItem
  BY <1>1, <1>15 DEF ListsOK
<1> QED
  BY <1>13, <1>15, <1>17, <1>18, <1>19, <1>20 DEF ListsOK

\* An item that takes the place of another leaves the world as right as it was.
LEMMA ReplaceThingInv ==
  ASSUME TilesAssumption, NEW s, TileInv(s), NEW t \in Squares, NEW i \in On(s, t),
         NEW j \in Items \ Lying(s), s.kind[j] # "none",
         i \in Elems(s.top[t]) => s.kind[j] \in TopKinds
  PROVE  /\ TileInv(ReplaceThing(s, t, i, j)) /\ j \in On(ReplaceThing(s, t, i, j), t)
         /\ Lying(ReplaceThing(s, t, i, j)) = (Lying(s) \ {i}) \cup {j}
<1>1. i \in Items /\ i # j /\ \A u \in Squares : On(s, u) \subseteq Items \ {j}
  BY DEF On, Elems, TileInv, PlacesOK, Lying
<1>2. PICK v : v = ReplaceThing(s, t, i, j)
  OBVIOUS
<1>3. IsReplaced(s, v, t, i, j)
  BY <1>1, <1>2, ReplaceThingIs
<1>4. /\ PlacesOK(v) /\ On(v, t) = (On(s, t) \ {i}) \cup {j}
      /\ \A u \in Squares \ {t} : On(v, u) = On(s, u) /\ v.top[u] = s.top[u]
      /\ Lying(v) = (Lying(s) \ {i}) \cup {j}
      /\ Elems(v.top[t]) \subseteq Elems(s.top[t]) \cup (IF i \in Elems(s.top[t]) THEN {j} ELSE {})
  <2>1. /\ v.top = [s.top EXCEPT ![t] = Swap(@, i, j)]
        /\ v.down = [s.down EXCEPT ![t] = Swap(@, i, j)]
    BY <1>3 DEF IsReplaced
  <2>2. PlacesOK(s)
    BY DEF TileInv
  <2> QED
    BY <2>1, <2>2, PlacesInstead
<1>5. KindsOK(v)
  <2>1. v.kind = s.kind
    BY <1>3 DEF IsReplaced
  <2>2. \A u \in Squares : \A x \in On(v, u) : v.kind[x] # "none"
    <3> SUFFICES ASSUME NEW u \in Squares, NEW x \in On(v, u) PROVE v.kind[x] # "none"
      OBVIOUS
    <3>1. x = j \/ x \in On(s, u)
      BY <1>4
    <3> QED
      BY <2>1, <3>1 DEF TileInv, KindsOK
  <2>3. \A u \in Squares : \A x \in Elems(v.top[u]) : v.kind[x] \in TopKinds
    <3> SUFFICES ASSUME NEW u \in Squares, NEW x \in Elems(v.top[u]) PROVE v.kind[x] \in TopKinds
      OBVIOUS
    <3>1. x \in Elems(s.top[u]) \/ (x = j /\ s.kind[j] \in TopKinds)
      BY <1>4
    <3> QED
      BY <2>1, <3>1 DEF TileInv, KindsOK
  <2> QED
    BY <2>1, <2>2, <2>3 DEF TileInv, KindsOK
<1>6. FlagsOK(v)
  <2>1. v.flags \in [Squares -> SUBSET AllFlags]
    <3>1. PropertiesOf(s.kind[j]) \cup Special(s.kind[j]) \subseteq AllFlags
      BY FlagsApart DEF AllFlags
    <3> QED
      BY <1>3, <3>1 DEF IsReplaced, TileInv, FlagsOK
  <2>2. FlagsAt(v, t)
    <3>1. NoItem \notin On(s, t) \cup {j}
      BY <1>1 DEF TilesAssumption
    <3>2. PICK o : o = OtherProperties(v, t, i)
      OBVIOUS
    <3>3. v.kind = s.kind /\ v.ground = s.ground
      BY <1>3 DEF IsReplaced
    <3>4. v.flags[t] = ((s.flags[t] \ (PropertiesOf(s.kind[i]) \ o)) \ Special(s.kind[i]))
                         \cup PropertiesOf(v.kind[j]) \cup Special(v.kind[j])
      BY <1>3, <3>2, <3>3 DEF IsReplaced, TileInv, FlagsOK
    <3>5. FlagsAt(s, t)
      BY DEF TileInv, FlagsOK
    <3>6. v.ground[t] = s.ground[t] /\ \A x \in On(s, t) \ {i} : v.kind[x] = s.kind[x]
      BY <3>3
    <3>7. j \notin On(s, t) /\ On(v, t) = (On(s, t) \ {i}) \cup {j}
      BY <1>1, <1>4
    <3>8. i \notin On(v, t) /\ NoItem \notin On(v, t)
      BY <1>1, <3>1, <3>7
    <3>9. o = OtherProperties(v, t, NoItem)
      BY <3>2, <3>8 DEF OtherProperties
    <3>10. OtherProperties(v, t, j) \subseteq o
      BY <3>8, <3>9 DEF OtherProperties
    <3>11. \A x \in o : x \in OtherProperties(v, t, NoItem)
      BY <3>9
    <3> QED
      BY <3>1, <3>4, <3>5, <3>6, <3>7, <3>10, <3>11, FlagsInstead
  <2>3. ASSUME NEW u \in Squares \ {t} PROVE FlagsAt(v, u)
    <3>1. v.flags[u] = s.flags[u] /\ v.ground = s.ground /\ v.kind = s.kind
      BY <1>3 DEF IsReplaced, TileInv, FlagsOK
    <3>2. FlagsAt(s, u) /\ On(v, u) = On(s, u)
      BY <1>4 DEF TileInv, FlagsOK
    <3> QED
      BY <3>1, <3>2 DEF FlagsAt, OtherProperties
  <2>4. v.ground \in [Squares -> Grounds \cup {"none"}]
    BY <1>3 DEF IsReplaced, TileInv, FlagsOK
  <2> QED
    BY <2>1, <2>2, <2>3, <2>4 DEF FlagsOK
<1>7. RefsOK(v)
  BY <1>3, RefsKept DEF IsReplaced, TileInv
<1>8. v.dangling = (s.dangling \/ Listed(v, t, i))
  BY <1>3 DEF IsReplaced
<1>9. v.dangling \in BOOLEAN /\ (~v.dangling => ~s.dangling)
  BY <1>8 DEF TileInv, Listed
<1>10. ~v.dangling => ListsOK(v)
  BY <1>3, <1>9, ListsInstead DEF TileInv
<1>11. Shape(v)
  BY <1>3 DEF IsReplaced
<1> QED
  BY <1>2, <1>4, <1>5, <1>6, <1>7, <1>9, <1>10, <1>11 DEF TileInv
-----------------------------------------------------------------------------
(* The operations on items.                                                *)

\* A trash holder drops what is movable.
LEMMA TrashInv ==
  ASSUME TilesAssumption, NEW s, TileInv(s), NEW t \in Squares, NEW i
  PROVE  TileInv(Trash(s, t, i)) /\ Lying(Trash(s, t, i)) \subseteq Lying(s)
BY DroppedInv DEF Trash

\* What meets a pile meets an item of the tile, which is not on top.
LEMMA PileIs ==
  ASSUME NEW s, TileInv(s), NEW t \in Squares, NEW i, Joins(s, t, i)
  PROVE  /\ s.down[t][1] \in On(s, t) /\ s.down[t][1] \in Lying(s)
         /\ s.down[t][1] \notin Elems(s.top[t])
<1>1. s.down[t] \in Seq(Items) /\ s.down[t] # <<>>
  BY DEF Joins, TileInv, PlacesOK
<1>2. 1 \in DOMAIN s.down[t]
  BY <1>1, EmptySeq
<1>3. s.down[t][1] \in Elems(s.down[t])
  BY <1>1, <1>2 DEF Elems
<1>4. s.down[t][1] \in On(s, t)
  BY <1>3 DEF On
<1>5. Elems(s.top[t]) \cap Elems(s.down[t]) = {}
  BY DEF TileInv, PlacesOK
<1> QED
  BY <1>3, <1>4, <1>5 DEF Lying

\* An item joins a pile, fills it, or lies on its own.
LEMMA StackedInv ==
  ASSUME TilesAssumption, NEW s, TileInv(s), NEW t \in Squares, NEW i \in Items \ Lying(s),
         s.kind[i] # "none"
  PROVE  TileInv(Stacked(s, t, i)) /\ Lying(Stacked(s, t, i)) \subseteq Lying(s) \cup {i}
<1>1. CASE ~Joins(s, t, i)
  BY <1>1, AddThingInv DEF Stacked
<1>2. CASE Joins(s, t, i)
  <2>1. PICK d : d = s.down[t][1]
    OBVIOUS
  <2>2. d \in On(s, t) /\ d \in Lying(s) /\ d \notin Elems(s.top[t])
    BY <1>2, <2>1, PileIs
  <2>3. "coins" \in ItemKinds
    BY DEF ItemKinds, Movables
  <2>4. PICK a : a = UpdateThing(s, t, d, "coins")
    OBVIOUS
  <2>5. TileInv(a) /\ Lying(a) = Lying(s)
    <3>1. d \in Elems(s.top[t]) => "coins" \in TopKinds
      BY <2>2
    <3>2. ASSUME NEW x \in On(s, t), x \in Elems(s.top[t]) => "coins" \in TopKinds
          PROVE  /\ TileInv(UpdateThing(s, t, x, "coins"))
                 /\ SamePlaces(s, UpdateThing(s, t, x, "coins"))
                 /\ Lying(UpdateThing(s, t, x, "coins")) = Lying(s)
                 /\ UpdateThing(s, t, x, "coins").kind = [s.kind EXCEPT ![x] = "coins"]
      BY <2>3, <3>2, UpdateThingInv
    <3>3. TileInv(UpdateThing(s, t, d, "coins")) /\ Lying(UpdateThing(s, t, d, "coins")) = Lying(s)
      BY <2>2, <3>1, <3>2
    <3> QED
      BY <2>4, <3>3
  <2>6. i \in Items \ Lying(a)
    BY <2>5
  <2>7. CASE Vanishes(s, t, i)
    <3>1. Stacked(s, t, i) = Released(a, i)
      BY <1>2, <2>1, <2>4, <2>7 DEF Stacked
    <3> QED
      BY <2>5, <2>6, <3>1, ReleasedInv
  <2>8. CASE ~Vanishes(s, t, i)
    <3>1. PICK k : k = Rest(s, t, i)
      OBVIOUS
    <3>2. k \in ItemKinds /\ k # "none"
      BY <1>2, <3>1 DEF Rest, Joins, Piles, ItemKinds, Movables
    <3>3. PICK b : b = Renamed(a, i, k)
      OBVIOUS
    <3>4. TileInv(b) /\ i \in Items \ Lying(b) /\ Lying(b) = Lying(s) /\ b.kind[i] # "none"
      BY <2>5, <2>6, <3>2, <3>3, NamedInv
    <3>5. Stacked(s, t, i) = AddThing(b, t, i)
      BY <1>2, <2>1, <2>4, <2>8, <3>1, <3>3 DEF Stacked
    <3> QED
      BY <3>4, <3>5, AddThingInv
  <2> QED
    BY <2>7, <2>8
<1> QED
  BY <1>1, <1>2

\* From one tile to another.
LEMMA CarryInv ==
  ASSUME TilesAssumption, NEW s, TileInv(s), NEW from \in Squares, NEW to \in Squares,
         NEW i \in On(s, from), s.kind[i] \in Movables
  PROVE  TileInv(Carry(s, from, to, i)) /\ Lying(Carry(s, from, to, i)) \subseteq Lying(s)
<1>1. i \in Items /\ i \in Lying(s)
  BY DEF TileInv, PlacesOK, On, Elems, Lying
<1>2. PICK a : a = RemoveThing(s, from, i)
  OBVIOUS
<1>3. TileInv(a) /\ a.kind = s.kind /\ Lying(a) = Lying(s) \ {i}
  BY <1>2, RemoveThingInv
<1>4. PICK b : b = Stacked(a, to, i)
  OBVIOUS
<1>5. a.kind[i] # "none" /\ i \in Items \ Lying(a)
  BY <1>1, <1>3 DEF Movables
<1>6. TileInv(b) /\ Lying(b) \subseteq Lying(a) \cup {i}
  BY <1>3, <1>4, <1>5, StackedInv
<1>7. PICK v : v = PostRemove(b, from)
  OBVIOUS
<1>8. TileInv(v) /\ Lying(v) = Lying(b)
  BY <1>6, <1>7, PostRemoveInv
<1>9. v = Carry(s, from, to, i)
  BY <1>2, <1>4, <1>7 DEF Carry
<1> QED
  BY <1>1, <1>3, <1>6, <1>8, <1>9

\* A teleport or a trash holder takes what has come.
LEMMA PostAddInv ==
  ASSUME TilesAssumption, NEW s, TileInv(s), NEW t \in Squares, NEW i \in On(s, t)
  PROVE  TileInv(PostAdd(s, t, i)) /\ Lying(PostAdd(s, t, i)) \subseteq Lying(s)
<1>1. Beyond \in Squares
  BY DEF TilesAssumption
<1>2. CASE "TELEPORT" \notin s.flags[t] \/ t = Beyond
  BY <1>2, TrashInv DEF PostAdd
<1>3. CASE ~("TELEPORT" \notin s.flags[t] \/ t = Beyond) /\ Movable(s, Beyond, i)
  <2>1. PICK a : a = Carry(s, t, Beyond, i)
    OBVIOUS
  <2>2. TileInv(a) /\ Lying(a) \subseteq Lying(s)
    BY <1>1, <1>3, <2>1, CarryInv DEF Movable
  <2>3. PICK b : b = Trash(a, Beyond, i)
    OBVIOUS
  <2>4. TileInv(b) /\ Lying(b) \subseteq Lying(a)
    BY <1>1, <2>2, <2>3, TrashInv
  <2>5. PICK d : d = Pile(s, Beyond, i)
    OBVIOUS
  <2>6. PostAdd(s, t, i) = Trash(b, Beyond, d)
    BY <1>3, <2>1, <2>3, <2>5 DEF PostAdd
  <2>7. TileInv(Trash(b, Beyond, d)) /\ Lying(Trash(b, Beyond, d)) \subseteq Lying(b)
    BY <1>1, <2>4, TrashInv
  <2> QED
    BY <2>2, <2>4, <2>6, <2>7
<1>4. CASE ~("TELEPORT" \notin s.flags[t] \/ t = Beyond) /\ ~Movable(s, Beyond, i)
  BY <1>4 DEF PostAdd
<1> QED
  BY <1>2, <1>3, <1>4

\* What was not refused goes on.
LEMMA ArrivedInv ==
  ASSUME TilesAssumption, NEW s, TileInv(s), NEW t \in Squares, NEW i
  PROVE  TileInv(Arrived(s, t, i))
BY PostAddInv DEF Arrived

\* What is thrown to a tile lies there, or goes on from there.
LEMMA MoveItemInv ==
  ASSUME TilesAssumption, NEW s, TileInv(s), NEW from \in Squares, NEW to \in Squares,
         NEW i \in On(s, from)
  PROVE  TileInv(MoveItem(s, from, to, i))
<1>1. CASE Movable(s, to, i)
  <2>1. PICK a : a = Carry(s, from, to, i)
    OBVIOUS
  <2>2. TileInv(a)
    BY <1>1, <2>1, CarryInv DEF Movable
  <2>3. PICK b : b = Arrived(a, to, i)
    OBVIOUS
  <2>4. TileInv(b)
    BY <2>2, <2>3, ArrivedInv
  <2>5. PICK d : d = Pile(s, to, i)
    OBVIOUS
  <2>6. MoveItem(s, from, to, i) = Arrived(b, to, d)
    BY <1>1, <2>1, <2>3, <2>5 DEF MoveItem
  <2> QED
    BY <2>4, <2>6, ArrivedInv
<1>2. CASE ~Movable(s, to, i)
  BY <1>2 DEF MoveItem
<1> QED
  BY <1>1, <1>2

\* A new item lies on the tile, or joins what lies there, and goes on.
LEMMA AddItemInv ==
  ASSUME TilesAssumption, NEW s, TileInv(s), NEW t \in Squares, NEW i \in Items \ Lying(s),
         s.kind[i] # "none"
  PROVE  TileInv(AddItem(s, t, i))
<1>1. PICK a : a = Stacked(s, t, i)
  OBVIOUS
<1>2. TileInv(a)
  BY <1>1, StackedInv
<1>3. PICK d : d = IF Vanishes(s, t, i) THEN Pile(s, t, i) ELSE i
  OBVIOUS
<1>4. AddItem(s, t, i) = Arrived(a, t, d)
  BY <1>1, <1>3 DEF AddItem
<1> QED
  BY <1>2, <1>4, ArrivedInv

\* A new kind: the item moves, is updated, or is replaced by another.
LEMMA TransformInv ==
  ASSUME TilesAssumption, NEW s, TileInv(s), NEW t \in Squares, NEW i \in On(s, t),
         NEW j \in Items \ Lying(s), NEW k \in ItemKinds
  PROVE  TileInv(Transform(s, t, i, j, k))
<1>1. i \in Items /\ i \in Lying(s) /\ i # j
  BY DEF TileInv, PlacesOK, On, Elems, Lying
<1>2. k # "none"
  BY DEF ItemKinds, TopKinds, Fields, Movables
<1>3. i \in Elems(s.top[t]) => s.kind[i] \in TopKinds
  BY DEF TileInv, KindsOK
<1>4. CASE OnTop(s.kind[i]) # OnTop(k)
  <2>1. PICK a : a = RemoveThing(s, t, i)
    OBVIOUS
  <2>2. TileInv(a) /\ Lying(a) = Lying(s) \ {i}
    BY <2>1, RemoveThingInv
  <2>3. PICK b : b = PostRemove(a, t)
    OBVIOUS
  <2>4. TileInv(b) /\ i \in Items \ Lying(b)
    BY <1>1, <2>2, <2>3, PostRemoveInv
  <2>5. PICK c : c = Renamed(b, i, k)
    OBVIOUS
  <2>6. TileInv(c) /\ i \in Items \ Lying(c) /\ c.kind[i] # "none"
    BY <1>2, <2>4, <2>5, NamedInv
  <2>7. PICK d : d = AddThing(c, t, i)
    OBVIOUS
  <2>8. TileInv(d)
    BY <2>6, <2>7, AddThingInv
  <2>9. Transform(s, t, i, j, k) = Arrived(d, t, i)
    BY <1>4, <2>1, <2>3, <2>5, <2>7 DEF Transform
  <2> QED
    BY <2>8, <2>9, ArrivedInv
<1>5. CASE OnTop(s.kind[i]) = OnTop(k) /\ TypeOf(s.kind[i]) = TypeOf(k)
  <2>1. PICK a : a = PostRemove(s, t)
    OBVIOUS
  <2>2. TileInv(a) /\ a.kind = s.kind /\ SamePlaces(s, a)
    BY <2>1, PostRemoveInv
  <2>3. i \in On(a, t) /\ (i \in Elems(a.top[t]) => k \in TopKinds)
    BY <1>3, <1>5, <2>2 DEF On, SamePlaces, OnTop
  <2>4. PICK b : b = UpdateThing(a, t, i, k)
    OBVIOUS
  <2>5. TileInv(b) /\ SamePlaces(a, b)
    BY <2>2, <2>3, <2>4, UpdateThingInv
  <2>6. i \in On(b, t)
    BY <2>3, <2>5 DEF On, SamePlaces
  <2>7. Transform(s, t, i, j, k) = PostAdd(b, t, i)
    BY <1>5, <2>1, <2>4 DEF Transform
  <2> QED
    BY <2>5, <2>6, <2>7, PostAddInv
<1>6. CASE OnTop(s.kind[i]) = OnTop(k) /\ TypeOf(s.kind[i]) # TypeOf(k)
  <2>1. PICK a : a = Renamed(s, j, k)
    OBVIOUS
  <2>2. TileInv(a) /\ Lying(a) = Lying(s) /\ a.kind[j] = k /\ SamePlaces(s, a)
    BY <2>1, NamedInv
  <2>3. i \in On(a, t) /\ (i \in Elems(a.top[t]) => a.kind[j] \in TopKinds)
    BY <1>3, <1>6, <2>2 DEF On, SamePlaces, OnTop
  <2>4. PICK b : b = ReplaceThing(a, t, i, j)
    OBVIOUS
  <2>5. TileInv(b) /\ j \in On(b, t) /\ Lying(b) = (Lying(s) \ {i}) \cup {j}
    BY <1>2, <2>2, <2>3, <2>4, ReplaceThingInv
  <2>6. PICK c : c = PostAdd(b, t, j)
    OBVIOUS
  <2>7. TileInv(c) /\ Lying(c) \subseteq Lying(b)
    BY <2>5, <2>6, PostAddInv
  <2>8. PICK d : d = PostRemove(c, t)
    OBVIOUS
  <2>9. TileInv(d) /\ i \in Items \ Lying(d)
    BY <1>1, <2>5, <2>7, <2>8, PostRemoveInv
  <2>10. Transform(s, t, i, j, k) = Released(d, i)
    BY <1>6, <2>1, <2>4, <2>6, <2>8 DEF Transform
  <2> QED
    BY <2>9, <2>10, ReleasedInv
<1> QED
  BY <1>4, <1>5, <1>6

\* A world whose ground and flags are another.
SameButGround(s, v) ==
  Shape(v) /\ SamePlaces(s, v) /\ SameRefs(s, v) /\ SameLists(s, v) /\ v.kind = s.kind
  /\ v.dangling = s.dangling

\* The flags tell what the ground is like.
LEMMA GroundInv ==
  ASSUME TilesAssumption, NEW s, TileInv(s), NEW t \in Squares, NEW v, SameButGround(s, v),
         NEW k \in Grounds \cup {"none"}, v.ground = [s.ground EXCEPT ![t] = k],
         v.flags \in [Squares -> SUBSET AllFlags], FlagsAt(v, t),
         \A u \in Squares \ {t} : v.flags[u] = s.flags[u]
  PROVE  TileInv(v)
<1>1. (\A u : On(v, u) = On(s, u)) /\ Lying(v) = Lying(s) /\ PlacesOK(v)
  BY OnKept DEF SameButGround, TileInv
<1>2. KindsOK(v)
  BY <1>1 DEF SameButGround, SamePlaces, TileInv, KindsOK
<1>3. FlagsOK(v)
  <2>1. \A u \in Squares \ {t} : FlagsAt(v, u)
    BY <1>1 DEF SameButGround, TileInv, FlagsOK, FlagsAt, OtherProperties
  <2>2. v.ground \in [Squares -> Grounds \cup {"none"}]
    BY DEF TileInv, FlagsOK
  <2> QED
    BY <2>1, <2>2 DEF FlagsOK
<1>4. RefsOK(v)
  BY RefsKept DEF SameButGround, TileInv
<1>5. ASSUME ListsOK(s) PROVE ListsOK(v)
  <2>1. \A u \in Squares : ListOK(s, u) => ListOK(v, u)
    BY <1>1 DEF SameButGround, SameRefs, SameLists, ListOK, ListedRight
  <2> QED
    BY <1>1, <1>5, <2>1 DEF SameButGround, SameLists, ListsOK
<1> QED
  BY <1>1, <1>2, <1>3, <1>4, <1>5 DEF SameButGround, TileInv

\* Grounds are not special, and no ground is like nothing.
LEMMA GroundIs ==
  /\ \A k \in Grounds \cup {"none"} : Special(k) = {}
  /\ PropertiesOf("none") = {}
<1>1. ASSUME NEW k \in Grounds \cup {"none"} PROVE Special(k) = {}
  BY DEF Special, Grounds, Fields
<1>2. \A p \in Properties : ~HasProperty("none", p)
  BY DEF Properties, HasProperty, Solids, Movables, PathBlocks, Fields
<1> QED
  BY <1>1, <1>2 DEF PropertiesOf

\* The flags of a tile whose ground becomes another, or goes.
LEMMA GroundFlags ==
  ASSUME TilesAssumption, NEW s, TileInv(s), NEW t \in Squares, NEW v, On(v, t) = On(s, t),
         v.kind = s.kind, NEW k \in Grounds \cup {"none"}, v.ground[t] = k,
         v.flags[t] = (s.flags[t] \ (PropertiesOf(s.ground[t]) \ OtherProperties(v, t, NoItem)))
                        \cup PropertiesOf(k)
  PROVE  FlagsAt(v, t) /\ v.flags[t] \subseteq AllFlags
<1>1. On(s, t) \ {NoItem} = On(s, t)
  BY DEF TilesAssumption, TileInv, PlacesOK, On, Elems
<1>2. \A x : (IF x = "none" THEN {} ELSE PropertiesOf(x)) = PropertiesOf(x)
  BY GroundIs
<1>3. OtherProperties(s, t, NoItem) = Props(s, On(s, t)) \cup PropertiesOf(s.ground[t])
  <2>1. PICK c : c = On(s, t)
    OBVIOUS
  <2>2. OtherProperties(s, t, NoItem) = Props(s, c) \cup PropertiesOf(s.ground[t])
    BY <1>1, <1>2, <2>1 DEF OtherProperties, Props
  <2> QED
    BY <2>1, <2>2
<1>4. Props(v, On(s, t)) = Props(s, On(s, t))
  BY PropsSame
<1>5. OtherProperties(v, t, NoItem) = Props(s, On(s, t)) \cup PropertiesOf(k)
  <2>1. PICK c : c = On(s, t)
    OBVIOUS
  <2>2. OtherProperties(v, t, NoItem) = Props(v, c) \cup PropertiesOf(k)
    BY <1>1, <1>2, <2>1 DEF OtherProperties, Props
  <2> QED
    BY <1>4, <2>1, <2>2
<1>6. PropertiesOf(k) \subseteq Properties /\ PropertiesOf(s.ground[t]) \subseteq Properties
  BY FlagsApart
<1>7. FlagsAt(s, t) /\ s.flags[t] \subseteq AllFlags
  BY DEF TileInv, FlagsOK
<1>8. v.flags[t] \cap Properties = OtherProperties(v, t, NoItem)
  BY <1>3, <1>5, <1>6, <1>7 DEF FlagsAt
<1>9. UNION {Special(v.kind[i]) : i \in On(v, t)} = UNION {Special(s.kind[i]) : i \in On(s, t)}
  OBVIOUS
<1>10. v.flags[t] \ Properties \subseteq UNION {Special(v.kind[i]) : i \in On(v, t)}
  BY <1>6, <1>7, <1>9 DEF FlagsAt
<1> QED
  BY <1>6, <1>7, <1>8, <1>10 DEF FlagsAt, AllFlags

\* A ground is laid or becomes another.
LEMMA ChangeGroundInv ==
  ASSUME TilesAssumption, NEW s, TileInv(s), NEW t \in Squares, NEW k \in Grounds
  PROVE  TileInv(ChangeGround(s, t, k))
<1>1. PICK a : a = [s EXCEPT !.ground[t] = k]
  OBVIOUS
<1>2. /\ SameButGround(s, a) /\ a.flags = s.flags /\ a.ground = [s.ground EXCEPT ![t] = k]
  BY <1>1 DEF TileInv, Shape, FieldNames, SameButGround, SamePlaces, SameRefs, SameLists
<1>3. ASSUME NEW z, SameButGround(a, z), z.ground = a.ground,
             z.flags = [s.flags EXCEPT ![t] =
                         (@ \ (PropertiesOf(s.ground[t]) \ OtherProperties(z, t, NoItem)))
                            \cup PropertiesOf(k)]
      PROVE  TileInv(z)
  <2>1. SameButGround(s, z) /\ z.ground = [s.ground EXCEPT ![t] = k]
    BY <1>2, <1>3 DEF SameButGround, SamePlaces, SameRefs, SameLists
  <2>2. On(z, t) = On(s, t) /\ z.kind = s.kind
    BY <2>1 DEF SameButGround, SamePlaces, On
  <2>3. z.ground[t] = k /\ s.flags \in [Squares -> SUBSET AllFlags]
    BY <2>1 DEF TileInv, FlagsOK
  <2>4. z.flags[t] = (s.flags[t] \ (PropertiesOf(s.ground[t]) \ OtherProperties(z, t, NoItem)))
                        \cup PropertiesOf(k)
    BY <1>3, <2>3
  <2>5. k \in Grounds \cup {"none"}
    OBVIOUS
  <2>6. FlagsAt(z, t) /\ z.flags[t] \subseteq AllFlags
    BY <2>2, <2>3, <2>4, <2>5, GroundFlags
  <2>7. z.flags \in [Squares -> SUBSET AllFlags] /\ \A u \in Squares \ {t} : z.flags[u] = s.flags[u]
    BY <1>3, <2>3, <2>4, <2>6
  <2> QED
    BY <2>1, <2>5, <2>6, <2>7, GroundInv
<1>4. Special(k) = {}
  BY GroundIs
<1>5. CASE s.ground[t] = "none"
  <2>1. PICK z : z = SetTileFlags(a, t, k)
    OBVIOUS
  <2>2. /\ SameButGround(a, z) /\ z.ground = a.ground
        /\ z.flags = [s.flags EXCEPT ![t] = @ \cup PropertiesOf(k)]
    BY <1>2, <1>4, <2>1 DEF SetTileFlags, SameButGround, Shape, FieldNames, SamePlaces, SameRefs, SameLists
  <2>3. PropertiesOf(s.ground[t]) = {}
    BY <1>5, GroundIs
  <2>4. TileInv(z)
    BY <1>3, <2>2, <2>3
  <2>5. \A x : Alike(z, Told(z, t, x))
    BY <2>4, SentIs DEF TileInv
  <2>6. PICK y : y = Told(z, t, [w \in Watchers |-> ClientAdds(View(s, w, t), 0, k)])
    OBVIOUS
  <2>7. Alike(z, y) /\ ChangeGround(s, t, k) = y
    BY <1>1, <1>5, <2>1, <2>5, <2>6 DEF ChangeGround
  <2> QED
    BY <2>4, <2>7, AlikeInv
<1>6. CASE s.ground[t] # "none"
  <2>0. Special(s.ground[t]) = {}
    BY GroundIs DEF TileInv, FlagsOK
  <2>1. PICK b : b = ResetTileFlags(a, t, NoItem, s.ground[t])
    OBVIOUS
  <2>2. /\ SameButGround(a, b) /\ b.ground = a.ground
        /\ b.flags = [s.flags EXCEPT ![t] = @ \ (PropertiesOf(s.ground[t]) \ OtherProperties(a, t, NoItem))]
    BY <1>2, <2>0, <2>1 DEF ResetTileFlags, SameButGround, Shape, FieldNames, SamePlaces, SameRefs, SameLists
  <2>3. PICK z : z = SetTileFlags(b, t, k)
    OBVIOUS
  <2>4. /\ SameButGround(b, z) /\ z.ground = b.ground
        /\ z.flags = [b.flags EXCEPT ![t] = @ \cup PropertiesOf(k)]
    BY <1>4, <2>2, <2>3 DEF SetTileFlags, SameButGround, Shape, FieldNames, SamePlaces, SameRefs, SameLists
  <2>5. SameButGround(a, z) /\ z.ground = a.ground
    BY <2>2, <2>4 DEF SameButGround, SamePlaces, SameRefs, SameLists
  <2>6. OtherProperties(z, t, NoItem) = OtherProperties(a, t, NoItem)
    BY <2>5 DEF OtherProperties, SameButGround, SamePlaces, On
  <2>7. z.flags = [s.flags EXCEPT ![t] =
                    (@ \ (PropertiesOf(s.ground[t]) \ OtherProperties(z, t, NoItem)))
                       \cup PropertiesOf(k)]
    <3>1. s.flags \in [Squares -> SUBSET AllFlags]
      BY DEF TileInv, FlagsOK
    <3> QED
      BY <2>2, <2>4, <2>6, <3>1
  <2>8. TileInv(z)
    BY <1>3, <2>5, <2>7
  <2>9. PICK y : y = Told(z, t, [w \in Watchers |-> ClientUpdates(View(s, w, t), 0, k)])
    OBVIOUS
  <2>10. TileInv(y)
    <3>1. \A x : Alike(z, Told(z, t, x))
      BY <2>8, SentIs DEF TileInv
    <3>2. Alike(z, y)
      BY <2>9, <3>1
    <3> QED
      BY <2>8, <3>2, AlikeInv
  <2>11. ChangeGround(s, t, k) = PostRemove(y, t)
    BY <1>1, <1>6, <2>1, <2>3, <2>9 DEF ChangeGround
  <2> QED
    BY <2>10, <2>11, PostRemoveInv
<1> QED
  BY <1>5, <1>6

\* A ground goes.
LEMMA RemoveGroundInv ==
  ASSUME TilesAssumption, NEW s, TileInv(s), NEW t \in Squares
  PROVE  TileInv(RemoveGround(s, t))
<1>1. PICK a : a = [s EXCEPT !.ground[t] = "none"]
  OBVIOUS
<1>2. /\ SameButGround(s, a) /\ a.flags = s.flags /\ a.ground = [s.ground EXCEPT ![t] = "none"]
  BY <1>1 DEF TileInv, Shape, FieldNames, SameButGround, SamePlaces, SameRefs, SameLists
<1>3. PICK z : z = ResetTileFlags(a, t, NoItem, s.ground[t])
  OBVIOUS
<1>4. Special(s.ground[t]) = {} /\ PropertiesOf("none") = {}
  BY GroundIs DEF TileInv, FlagsOK
<1>5. /\ SameButGround(a, z) /\ z.ground = a.ground
      /\ z.flags = [s.flags EXCEPT ![t] = @ \ (PropertiesOf(s.ground[t]) \ OtherProperties(a, t, NoItem))]
  BY <1>2, <1>3, <1>4 DEF ResetTileFlags, SameButGround, Shape, FieldNames, SamePlaces, SameRefs, SameLists
<1>6. SameButGround(s, z) /\ z.ground = [s.ground EXCEPT ![t] = "none"]
  BY <1>2, <1>5 DEF SameButGround, SamePlaces, SameRefs, SameLists
<1>7. On(z, t) = On(s, t) /\ z.kind = s.kind
  BY <1>6 DEF SameButGround, SamePlaces, On
<1>8. z.ground[t] = "none" /\ s.flags \in [Squares -> SUBSET AllFlags]
  BY <1>6 DEF TileInv, FlagsOK
<1>9. OtherProperties(z, t, NoItem) = OtherProperties(a, t, NoItem)
  BY <1>5 DEF OtherProperties, SameButGround, SamePlaces, On
<1>10. z.flags[t] = (s.flags[t] \ (PropertiesOf(s.ground[t]) \ OtherProperties(z, t, NoItem)))
                      \cup PropertiesOf("none")
  BY <1>4, <1>5, <1>8, <1>9
<1>11. FlagsAt(z, t) /\ z.flags[t] \subseteq AllFlags
  BY <1>7, <1>8, <1>10, GroundFlags
<1>12. z.flags \in [Squares -> SUBSET AllFlags] /\ \A u \in Squares \ {t} : z.flags[u] = s.flags[u]
  BY <1>5, <1>8, <1>11
<1>13. TileInv(z)
  BY <1>6, <1>11, <1>12, GroundInv
<1>14. PICK y : y = Told(z, t, [w \in Watchers |-> ClientRemoves(View(s, w, t), 0)])
  OBVIOUS
<1>15. TileInv(y)
  <2>1. \A x : Alike(z, Told(z, t, x))
    BY <1>13, SentIs DEF TileInv
  <2>2. Alike(z, y)
    BY <1>14, <2>1
  <2> QED
    BY <1>13, <2>2, AlikeInv
<1>16. RemoveGround(s, t) = PostRemove(y, t)
  BY <1>1, <1>3, <1>14 DEF RemoveGround
<1> QED
  BY <1>15, <1>16, PostRemoveInv
-----------------------------------------------------------------------------
(* Creatures stand beside the items: what they do changes what is seen.    *)

\* What is alike is a world.
LEMMA AlikeShape ==
  ASSUME NEW s, NEW v, Alike(s, v)
  PROVE  Shape(v)
BY DEF Alike

\* A creature goes from one tile to another.
LEMMA MovedAlike ==
  ASSUME NEW s, Shape(s), NEW from, NEW to, NEW c, NEW force
  PROVE  Alike(s, Moved(s, from, to, c, force))
<1>1. PICK z : z = Carried(s, from, to, c)
  OBVIOUS
<1>2. Alike(s, z)
  BY <1>1 DEF Carried, Alike, Shape, FieldNames, SamePlaces, SameRefs, SameLists
<1>3. PICK y : y = MoveSeen(s, z, from, to, c, Jumps(s, to, force))
  OBVIOUS
<1>4. \E a, b : y = Told(Told(z, from, a), to, b)
  BY <1>3 DEF MoveSeen
<1>5. PICK a, b : y = Told(Told(z, from, a), to, b)
  BY <1>4
<1>6. Alike(z, Told(z, from, a))
  BY <1>2, SentIs, AlikeShape
<1>7. Alike(Told(z, from, a), y)
  BY <1>5, <1>6, SentIs, AlikeShape
<1>8. Alike(s, y)
  BY <1>2, <1>6, <1>7, AlikeTwice
<1>9. Moved(s, from, to, c, force) = PostRemove(y, from)
  BY <1>1, <1>3 DEF Moved
<1>10. Alike(y, PostRemove(y, from))
  BY <1>8, SentIs, AlikeShape
<1> QED
  BY <1>8, <1>9, <1>10, AlikeTwice

\* The same, and on through a teleport.
LEMMA MoveCreatureAlike ==
  ASSUME NEW s, Shape(s), NEW from, NEW to, NEW c, NEW force
  PROVE  Alike(s, MoveCreature(s, from, to, c, force))
<1>1. Alike(s, Moved(s, from, to, c, force))
  BY MovedAlike
<1>2. PICK z : z = Moved(s, from, to, c, force)
  OBVIOUS
<1>3. Alike(z, Moved(z, to, Beyond, c, FALSE))
  BY <1>1, <1>2, MovedAlike, AlikeShape
<1>4. Alike(s, Moved(z, to, Beyond, c, FALSE))
  BY <1>1, <1>2, <1>3, AlikeTwice
<1> QED
  BY <1>1, <1>2, <1>4 DEF MoveCreature

\* A creature is placed.
LEMMA PlaceAlike ==
  ASSUME NEW s, Shape(s), NEW t, NEW c
  PROVE  Alike(s, Place(s, t, c))
<1>1. PICK z : z = Placed(s, t, c)
  OBVIOUS
<1>2. Alike(s, z)
  BY <1>1 DEF Placed, Alike, Shape, FieldNames, SamePlaces, SameRefs, SameLists
<1>3. PICK y : y = AppearSeen(z, t, c)
  OBVIOUS
<1>4. \A x : Alike(z, Told(z, t, x))
  BY <1>2, SentIs, AlikeShape
<1>5. \E x : y = Told(z, t, x)
  BY <1>3 DEF AppearSeen
<1>6. Alike(z, y)
  BY <1>4, <1>5
<1>7. Alike(s, y)
  BY <1>2, <1>6, AlikeTwice
<1>8. Alike(y, Moved(y, t, Beyond, c, FALSE))
  BY <1>7, MovedAlike, AlikeShape
<1>9. Alike(s, Moved(y, t, Beyond, c, FALSE))
  BY <1>7, <1>8, AlikeTwice
<1> QED
  BY <1>1, <1>3, <1>7, <1>9 DEF Place

\* A creature is removed.
LEMMA RemoveCreatureAlike ==
  ASSUME NEW s, Shape(s), NEW t, NEW c
  PROVE  Alike(s, RemoveCreature(s, t, c))
<1>1. PICK z : z = [s EXCEPT !.crowd[t] = Without(@, c), !.hidden = @ \ {c}]
  OBVIOUS
<1>2. Alike(s, z)
  BY <1>1 DEF Alike, Shape, FieldNames, SamePlaces, SameRefs, SameLists
<1>3. \A x : Alike(z, Told(z, t, x))
  BY <1>2, SentIs, AlikeShape
<1>4. \E x : RemoveCreature(s, t, c) = PostRemove(Told(z, t, x), t)
  BY <1>1 DEF RemoveCreature
<1>5. PICK x : RemoveCreature(s, t, c) = PostRemove(Told(z, t, x), t)
  BY <1>4
<1>6. Alike(s, Told(z, t, x))
  BY <1>2, <1>3, AlikeTwice
<1>7. Alike(Told(z, t, x), PostRemove(Told(z, t, x), t))
  BY <1>6, SentIs, AlikeShape
<1> QED
  BY <1>5, <1>6, <1>7, AlikeTwice

\* A creature hides, and shows itself.
LEMMA HidingAlike ==
  ASSUME NEW s, Shape(s), NEW t, NEW c
  PROVE  Alike(s, Vanish(s, t, c)) /\ Alike(s, Reappear(s, t, c))
<1>1. PICK z : z = [s EXCEPT !.hidden = @ \cup {c}]
  OBVIOUS
<1>2. Alike(s, z)
  BY <1>1 DEF Alike, Shape, FieldNames, SamePlaces, SameRefs, SameLists
<1>3. \A x : Alike(z, Told(z, t, x))
  BY <1>2, SentIs, AlikeShape
<1>4. \E x, y : Vanish(s, t, c) = [Told(z, t, x) EXCEPT !.behind = @ \cup y]
  BY <1>1 DEF Vanish
<1>5. PICK x, y : Vanish(s, t, c) = [Told(z, t, x) EXCEPT !.behind = @ \cup y]
  BY <1>4
<1>6. Alike(s, Told(z, t, x))
  BY <1>2, <1>3, AlikeTwice
<1>7. PICK v : v = Told(z, t, x)
  OBVIOUS
<1>8. Alike(v, [v EXCEPT !.behind = @ \cup y])
  BY <1>6, <1>7 DEF Alike, Shape, FieldNames, SamePlaces, SameRefs, SameLists
<1>9. Alike(s, Vanish(s, t, c))
  BY <1>5, <1>6, <1>7, <1>8, AlikeTwice
<1>10. PICK u : u = Unveil(s, t, c)
  OBVIOUS
<1>11. Alike(s, u)
  BY <1>10 DEF Unveil, Alike, Shape, FieldNames, SamePlaces, SameRefs, SameLists
<1>12. \A a : Alike(u, Told(u, t, a))
  BY <1>11, SentIs, AlikeShape
<1>13. \E a : Reappear(s, t, c) = Told(u, t, a)
  BY <1>10 DEF Reappear
<1>14. Alike(u, Reappear(s, t, c))
  BY <1>12, <1>13
<1>15. Alike(s, Reappear(s, t, c))
  BY <1>11, <1>14, AlikeTwice
<1> QED
  BY <1>9, <1>15
-----------------------------------------------------------------------------
(* Browsing changes who holds what, and the items stay where they are.     *)

SameThings(s, v) ==
  /\ Shape(v) /\ SamePlaces(s, v)
  /\ v.ground = s.ground /\ v.kind = s.kind /\ v.flags = s.flags /\ v.dangling = s.dangling

\* What is left to show.
LEMMA HeldInv ==
  ASSUME NEW s, TileInv(s), NEW v, SameThings(s, v), RefsOK(v), ListsOK(s) => ListsOK(v)
  PROVE  TileInv(v)
<1>1. (\A u : On(v, u) = On(s, u)) /\ PlacesOK(v)
  BY OnKept DEF SameThings, TileInv
<1>2. KindsOK(v)
  BY <1>1 DEF SameThings, SamePlaces, TileInv, KindsOK
<1>3. FlagsOK(v)
  BY <1>1 DEF SameThings, TileInv, FlagsOK, FlagsAt, OtherProperties
<1> QED
  BY <1>1, <1>2, <1>3 DEF SameThings, TileInv

\* The movable ones of the first n items of q, the last one first.
Gathered(s, q, f, n) ==
  IF n = 0 THEN <<>>
  ELSE IF s.kind[q[n]] \in Movables THEN <<q[n]>> \o f[n - 1] ELSE f[n - 1]
Gathers(s, q, f, m) == f = [n \in 0..m |-> Gathered(s, q, f, n)]

\* The list can be gathered.
LEMMA GathersExists ==
  ASSUME NEW s, NEW q, NEW m \in Nat
  PROVE  \E f : Gathers(s, q, f, m)
<1> DEFINE P == {k \in Nat : \E f : Gathers(s, q, f, k)}
<1>1. 0 \in P
  <2>1. PICK f : f = [n \in 0..0 |-> <<>>]
    OBVIOUS
  <2>2. \A n \in 0..0 : Gathered(s, q, f, n) = <<>>
    BY DEF Gathered
  <2>3. f = [n \in 0..0 |-> Gathered(s, q, f, n)]
    BY <2>1, <2>2
  <2> QED
    BY <2>3 DEF Gathers
<1>2. ASSUME NEW k \in P PROVE k + 1 \in P
  <2>1. PICK f : f = [n \in 0..k |-> Gathered(s, q, f, n)]
    BY DEF Gathers
  <2>2. PICK g : g = [n \in 0..(k + 1) |-> IF n = k + 1 THEN Gathered(s, q, f, n) ELSE f[n]]
    OBVIOUS
  <2>3. \A n \in 0..k : g[n] = f[n]
    BY <2>2
  <2>4. \A n \in 0..(k + 1) : Gathered(s, q, g, n) = Gathered(s, q, f, n)
    BY <2>3 DEF Gathered
  <2>5. \A n \in 0..(k + 1) : g[n] = Gathered(s, q, g, n)
    <3> TAKE n \in 0..(k + 1)
    <3>1. n <= k => f[n] = Gathered(s, q, f, n)
      BY <2>1
    <3> QED
      BY <2>2, <2>4, <3>1
  <2>6. g = [n \in 0..(k + 1) |-> Gathered(s, q, g, n)]
    BY <2>2, <2>5
  <2> QED
    BY <2>6 DEF Gathers
<1>3. P = Nat
  <2>1. P \subseteq Nat
    OBVIOUS
  <2> HIDE DEF P
  <2> QED
    BY <1>1, <1>2, <2>1, Counting
<1> QED
  BY <1>3

\* The movable ones of a list.
MovablesIn(s, q) == {i \in Elems(q) : s.kind[i] \in Movables}

\* The container of who begins to browse gets what is movable.
LEMMA MovablesOnIs ==
  ASSUME NEW s, NEW t, s.down[t] \in Seq(Items), Distinct(s.down[t])
  PROVE  /\ MovablesOn(s, t) \in Seq(Items) /\ Distinct(MovablesOn(s, t))
         /\ Elems(MovablesOn(s, t)) = MovablesIn(s, s.down[t])
<1>1. PICK q : q = s.down[t]
  OBVIOUS
<1>2. q \in Seq(Items) /\ Distinct(q) /\ Len(q) \in Nat
  BY <1>1
<1>3. PICK f : f = CHOOSE g : g = [n \in 0..Len(q) |-> Gathered(s, q, g, n)]
  OBVIOUS
<1>4. f = [n \in 0..Len(q) |-> Gathered(s, q, f, n)]
  <2>1. \E g : g = [n \in 0..Len(q) |-> Gathered(s, q, g, n)]
    BY <1>2, GathersExists DEF Gathers
  <2> QED
    BY <1>3, <2>1
<1>11. \A n \in 0..Len(q) : f[n] = Gathered(s, q, f, n)
  BY <1>4
<1>5. MovablesOn(s, t) = f[Len(q)]
  BY <1>1, <1>3 DEF MovablesOn, Gathered
<1> DEFINE Found(n) == {q[m] : m \in {k \in 1..n : s.kind[q[k]] \in Movables}}
           P == {n \in Nat : n <= Len(q) =>
                   f[n] \in Seq(Items) /\ Distinct(f[n]) /\ Elems(f[n]) = Found(n)}
<1>6. 0 \in P
  <2>1. f[0] = <<>>
    BY <1>2, <1>4 DEF Gathered
  <2>2. Elems(f[0]) = {} /\ Found(0) = {} /\ Distinct(f[0]) /\ f[0] \in Seq(Items)
    BY <2>1 DEF Elems, Distinct
  <2> QED
    BY <2>2
<1>7. ASSUME NEW n \in P PROVE n + 1 \in P
  <2> SUFFICES ASSUME n + 1 <= Len(q)
               PROVE  f[n + 1] \in Seq(Items) /\ Distinct(f[n + 1]) /\ Elems(f[n + 1]) = Found(n + 1)
    OBVIOUS
  <2>1. n \in Nat /\ f[n] \in Seq(Items) /\ Distinct(f[n]) /\ Elems(f[n]) = Found(n)
    OBVIOUS
  <2>2. f[n + 1] = Gathered(s, q, f, n + 1)
    <3>1. n + 1 \in 0..Len(q)
      BY <1>2, <2>1
    <3> QED
      BY <1>11, <3>1
  <2>3. q[n + 1] \in Items /\ q[n + 1] \notin Found(n)
    BY <1>2, <2>1 DEF Distinct
  <2>4. Found(n + 1) = Found(n) \cup (IF s.kind[q[n + 1]] \in Movables THEN {q[n + 1]} ELSE {})
    <3>1. 1..(n + 1) = 1..n \cup {n + 1}
      BY <2>1
    <3> QED
      BY <3>1
  <2> HIDE DEF Found
  <2>5. f[n + 1] = IF s.kind[q[n + 1]] \in Movables THEN <<q[n + 1]>> \o f[n] ELSE f[n]
    BY <2>1, <2>2 DEF Gathered
  <2>6. CASE s.kind[q[n + 1]] \in Movables
    <3>1. PICK x : x = q[n + 1]
      OBVIOUS
    <3>2. PICK r : r = f[n]
      OBVIOUS
    <3>3. x \in Items /\ r \in Seq(Items) /\ Distinct(r) /\ x \notin Elems(r)
      BY <2>1, <2>3, <3>1, <3>2
    <3>4. /\ <<x>> \o r \in Seq(Items) /\ Distinct(<<x>> \o r)
          /\ Elems(<<x>> \o r) = Elems(r) \cup {x}
      BY <3>3, ConsIs
    <3> QED
      BY <2>1, <2>4, <2>5, <2>6, <3>1, <3>2, <3>4
  <2>7. CASE s.kind[q[n + 1]] \notin Movables
    BY <2>1, <2>4, <2>5, <2>7
  <2> QED
    BY <2>6, <2>7
<1>8. P = Nat
  <2>1. P \subseteq Nat
    OBVIOUS
  <2> HIDE DEF P
  <2> QED
    BY <1>6, <1>7, <2>1, Counting
<1>9. Found(Len(q)) = MovablesIn(s, q)
  BY <1>2 DEF MovablesIn, Elems
<1>10. f[Len(q)] \in Seq(Items) /\ Distinct(f[Len(q)]) /\ Elems(f[Len(q)]) = Found(Len(q))
  <2>1. Len(q) \in P
    BY <1>2, <1>8
  <2> QED
    BY <1>2, <2>1
<1> QED
  BY <1>1, <1>5, <1>9, <1>10

\* References are counted with sets that have a size.
LEMMA HoldersFinite ==
  ASSUME TilesAssumption, NEW s, NEW t
  PROVE  IsFiniteSet(Holders(s, t)) /\ Cardinality(Holders(s, t)) \in Nat
<1>1. IsFiniteSet(Squares \cup {Extra})
  BY FS_AddElement DEF TilesAssumption
<1>2. IsFiniteSet(Browsers \X (Squares \cup {Extra}))
  BY <1>1, FS_Product DEF TilesAssumption
<1>3. Holders(s, t) \subseteq Browsers \X (Squares \cup {Extra})
  BY DEF Holders
<1> QED
  BY <1>2, <1>3, FS_Subset, FS_CardinalityType

\* What is said of the items of a tile, and of which list they are in, tile by tile.
LEMMA ListsAt ==
  ASSUME NEW s, TileInv(s), ListsOK(s), NEW v, SameThings(s, v), NEW t \in Squares,
         v.list \in [Squares -> Seq(Items)],
         v.parent \in [Items -> Squares \cup {NoItem, Field}],
         \A i \in Items \ On(s, t) : /\ v.parent[i] = s.parent[i]
                                     /\ i \in v.missed <=> i \in s.missed
                                     /\ i \in v.stuck <=> i \in s.stuck,
         v.missed \cup v.stuck \subseteq s.missed \cup s.stuck,
         \A u \in Squares \ {t} : v.list[u] = s.list[u] /\ (u \in v.browsed <=> u \in s.browsed),
         ListOK(v, t)
  PROVE  ListsOK(v)
<1>1. (\A u : On(v, u) = On(s, u)) /\ Lying(v) = Lying(s)
  BY OnKept DEF SameThings
<1>2. \A u \in Squares : On(s, u) \subseteq Items
  BY DEF TileInv, PlacesOK, On, Elems
<1>3. ASSUME NEW u \in Squares \ {t} PROVE ListOK(v, u)
  <2>1. On(s, u) \cap On(s, t) = {}
    BY DEF TileInv, PlacesOK
  <2>2. \A i \in On(s, u) : i \in Items \ On(s, t)
    BY <1>2, <2>1
  <2>3. SameAt(s, v, u)
    BY <1>1, <2>2 DEF SameAt, SameThings
  <2> QED
    BY <2>3, AtKept DEF ListsOK
<1>4. \A i \in Items \ Lying(s) : i \in Items \ On(s, t)
  BY DEF Lying
<1> QED
  BY <1>1, <1>3, <1>4 DEF ListsOK

\* A tile is browsed: a container for it, with a timer.
LEMMA NewFieldInv ==
  ASSUME TilesAssumption, NEW s, TileInv(s), NEW t \in Squares \ s.browsed
  PROVE  /\ TileInv(NewField(s, t)) /\ t \in NewField(s, t).browsed
         /\ NewField(s, t).opened = s.opened
<1>1. PICK v : v = NewField(s, t)
  OBVIOUS
<1>2. PICK m : m = MovablesOn(s, t)
  OBVIOUS
<1>3. /\ SameThings(s, v) /\ v.opened = s.opened /\ v.leaked = s.leaked
      /\ v.missed = s.missed /\ v.stuck = s.stuck
      /\ v.browsed = s.browsed \cup {t} /\ v.timer = s.timer \cup {t}
      /\ v.refs = [s.refs EXCEPT ![t] = 1] /\ v.list = [s.list EXCEPT ![t] = m]
      /\ v.parent = [i \in Items |-> IF i \in Elems(m) THEN Field ELSE s.parent[i]]
  BY <1>1, <1>2 DEF NewField, Owner, TileInv, Shape, FieldNames, SameThings, SamePlaces
<1>4. \A u : On(v, u) = On(s, u)
  BY <1>3, OnKept DEF SameThings
<1>5. s.down[t] \in Seq(Items) /\ Distinct(s.down[t])
  BY DEF TileInv, PlacesOK
<1>6. m \in Seq(Items) /\ Distinct(m) /\ Elems(m) = MovablesIn(s, s.down[t])
  BY <1>2, <1>5, MovablesOnIs
<1>7. \A i \in On(s, t) : i \in Elems(m) <=> s.kind[i] \in Movables
  <2>1. \A i \in Elems(s.top[t]) : s.kind[i] \notin Movables
    BY DEF TileInv, KindsOK, TopKinds, Movables
  <2> QED
    BY <1>6, <2>1 DEF MovablesIn, On
<1>8. RefsOK(v)
  <2>1. \A u : Holders(v, u) = Holders(s, u)
    BY <1>3 DEF Holders
  <2>2. RefsOK(s)
    BY DEF TileInv
  <2>3. s.refs[t] = 0 /\ t \notin s.timer /\ s.leaked[t] = 0 /\ Cardinality(Holders(s, t)) = 0
    <3>1. Cardinality(Holders(s, t)) \in Nat
      BY HoldersFinite
    <3>2. s.refs[t] \in Nat /\ s.leaked[t] \in Nat /\ ~(s.refs[t] > 0)
      BY <2>2 DEF RefsOK
    <3>3. s.refs[t] = (IF t \in s.timer THEN 1 ELSE 0) + s.leaked[t] + Cardinality(Holders(s, t))
      BY <2>2 DEF RefsOK
    <3>4. PICK c, l, r : c = Cardinality(Holders(s, t)) /\ l = s.leaked[t] /\ r = s.refs[t]
      OBVIOUS
    <3>5. c \in Nat /\ l \in Nat /\ r = 0
      BY <3>1, <3>2, <3>4
    <3>6. r = (IF t \in s.timer THEN 1 ELSE 0) + l + c
      BY <3>3, <3>4
    <3>7. t \notin s.timer /\ l = 0 /\ c = 0
      BY <3>5, <3>6
    <3> QED
      BY <3>4, <3>5, <3>7
  <2>4. ASSUME NEW u \in Squares
        PROVE  /\ u \in v.browsed <=> v.refs[u] > 0
               /\ v.refs[u] = (IF u \in v.timer THEN 1 ELSE 0) + v.leaked[u]
                                + Cardinality(Holders(v, u))
    <3>1. CASE u = t
      BY <1>3, <2>1, <2>2, <2>3, <3>1 DEF RefsOK
    <3>2. CASE u # t
      BY <1>3, <2>1, <2>2, <3>2 DEF RefsOK
    <3> QED
      BY <3>1, <3>2
  <2>5. v.browsed \subseteq Squares /\ v.refs \in [Squares -> Nat]
    BY <1>3, <2>2 DEF RefsOK
  <2> QED
    BY <1>3, <2>2, <2>4, <2>5 DEF RefsOK
<1>9. ASSUME ListsOK(s) PROVE ListsOK(v)
  <2>1. ListOK(s, t)
    BY <1>9 DEF ListsOK
  <2>2. Elems(m) \subseteq On(s, t)
    BY <1>6 DEF MovablesIn, On
  <2>3. v.list \in [Squares -> Seq(Items)] /\ v.list[t] = m
        /\ \A u \in Squares \ {t} : v.list[u] = s.list[u]
    BY <1>3, <1>6, <1>9 DEF ListsOK
  <2>4. v.parent \in [Items -> Squares \cup {NoItem, Field}]
    BY <1>3, <1>9 DEF ListsOK
  <2>5. \A i \in Items : v.parent[i] = IF i \in Elems(m) THEN Field ELSE s.parent[i]
    BY <1>3
  <2>6. On(s, t) \subseteq Items
    BY DEF TileInv, PlacesOK, On, Elems
  <2>7. s.list[t] = <<>> /\ On(s, t) \cap (s.missed \cup s.stuck) = {}
    BY <2>1 DEF ListOK
  <2>8. \A i \in On(s, t) : ListedRight(v, t, i)
    BY <1>3, <1>7, <2>3, <2>7 DEF ListedRight, SameThings
  <2>9. \A i \in On(s, t) : v.parent[i] = t \/ (v.parent[i] = Field /\ i \in Elems(m))
    <3>1. Elems(s.list[t]) = {}
      BY <2>7 DEF Elems
    <3> QED
      BY <2>1, <2>5, <2>6, <3>1 DEF ListOK
  <2>10. ListOK(v, t)
    <3>1. t \in v.browsed
      BY <1>3
    <3> QED
      BY <1>4, <1>6, <2>2, <2>3, <2>8, <2>9, <3>1 DEF ListOK
  <2>11. \A i \in Items \ On(s, t) : v.parent[i] = s.parent[i]
    BY <2>2, <2>5
  <2>12. \A u \in Squares \ {t} : u \in v.browsed <=> u \in s.browsed
    BY <1>3
  <2> QED
    BY <1>3, <1>9, <2>3, <2>4, <2>10, <2>11, <2>12, ListsAt
<1>10. TileInv(v)
  BY <1>3, <1>8, <1>9, HeldInv
<1> QED
  BY <1>1, <1>3, <1>10

\* Whoever browses a tile shares its container.
LEMMA FieldOfInv ==
  ASSUME TilesAssumption, NEW s, TileInv(s), NEW t \in Squares
  PROVE  TileInv(FieldOf(s, t)) /\ t \in FieldOf(s, t).browsed /\ FieldOf(s, t).opened = s.opened
BY NewFieldInv DEF FieldOf

\* The fields after n references to t are gone.
IsUnreferenced(s, v, t, n) ==
  /\ SameThings(s, v) /\ v.timer = s.timer /\ v.opened = s.opened /\ v.leaked = s.leaked
  /\ v.refs = [s.refs EXCEPT ![t] = @ - n]
  /\ v.browsed = IF s.refs[t] > n THEN s.browsed ELSE s.browsed \ {t}

\* References go, and the container with the last one.
LEMMA UnreferencedIs ==
  ASSUME NEW s, Shape(s), NEW t \in Squares, NEW n \in Nat, s.refs \in [Squares -> Nat],
         s.refs[t] >= n
  PROVE  IsUnreferenced(s, Unreferenced(s, t, n), t, n)
<1>1. CASE s.refs[t] > n
  BY <1>1 DEF Unreferenced, IsUnreferenced, Shape, FieldNames, SameThings, SamePlaces
<1>2. CASE ~(s.refs[t] > n)
  <2>1. s.refs[t] - n = 0
    BY <1>2
  <2>2. [s.refs EXCEPT ![t] = @ - n] = [s.refs EXCEPT ![t] = 0]
    BY <2>1
  <2> QED
    BY <1>2, <2>2 DEF Unreferenced, Owner, IsUnreferenced, Shape, FieldNames, SameThings, SamePlaces
<1> QED
  BY <1>1, <1>2

\* What the lists depend on: not on who holds a container.
LEMMA UnreferencedLists ==
  ASSUME NEW s, TileInv(s), NEW z, SameThings(s, z), SameLists(s, z), z.browsed = s.browsed,
         NEW t \in Squares, NEW n, ListsOK(s)
  PROVE  ListsOK(Unreferenced(z, t, n))
<1>1. PICK v : v = Unreferenced(z, t, n)
  OBVIOUS
<1>2. (\A u : On(z, u) = On(s, u)) /\ Lying(z) = Lying(s)
  BY OnKept DEF SameThings
<1>3. CASE z.refs[t] > n
  <2>1. SameThings(s, v) /\ SameLists(s, v) /\ v.browsed = s.browsed
    BY <1>1, <1>3 DEF Unreferenced, Shape, FieldNames, SameThings, SamePlaces, SameLists
  <2>2. (\A u : On(v, u) = On(s, u)) /\ Lying(v) = Lying(s)
    BY <2>1, OnKept DEF SameThings
  <2>3. \A u : SameAt(s, v, u)
    BY <2>1, <2>2 DEF SameAt, SameThings, SameLists
  <2>4. ListsOK(v)
    BY <2>1, <2>2, <2>3, AtKept DEF SameLists, ListsOK
  <2> QED
    BY <1>1, <2>4
<1>4. CASE ~(z.refs[t] > n)
  <2>1. /\ SameThings(s, v) /\ v.browsed = s.browsed \ {t}
        /\ v.list = [s.list EXCEPT ![t] = <<>>]
        /\ v.parent = [i \in Items |-> IF i \in Elems(s.list[t]) THEN t ELSE s.parent[i]]
        /\ v.missed = s.missed \ On(z, t) /\ v.stuck = s.stuck \ On(z, t)
    <3>1. PICK a : a = Owner(z, t, Elems(z.list[t]), t)
      OBVIOUS
    <3>2. /\ SameThings(s, a) /\ a.browsed = s.browsed /\ a.list = s.list
          /\ a.missed = s.missed /\ a.stuck = s.stuck
          /\ a.parent = [i \in Items |-> IF i \in Elems(s.list[t]) THEN t ELSE s.parent[i]]
      BY <3>1 DEF Owner, Shape, FieldNames, SameThings, SamePlaces, SameLists
    <3>3. v = [a EXCEPT !.browsed = @ \ {t}, !.refs[t] = 0, !.list[t] = <<>>,
                        !.missed = @ \ On(z, t), !.stuck = @ \ On(z, t)]
      BY <1>1, <1>4, <3>1 DEF Unreferenced
    <3> QED
      BY <3>2, <3>3 DEF Shape, FieldNames, SameThings, SamePlaces
  <2>2. \A u : On(v, u) = On(s, u)
    BY <2>1, OnKept DEF SameThings
  <2>3. v.list \in [Squares -> Seq(Items)] /\ v.list[t] = <<>>
        /\ \A u \in Squares \ {t} : v.list[u] = s.list[u]
    BY <2>1 DEF ListsOK
  <2>4. v.parent \in [Items -> Squares \cup {NoItem, Field}]
    BY <2>1 DEF ListsOK
  <2>5. \A i \in Items : v.parent[i] = IF i \in Elems(s.list[t]) THEN t ELSE s.parent[i]
    BY <2>1
  <2>6. On(s, t) \subseteq Items
    BY DEF TileInv, PlacesOK, On, Elems
  <2>7. ListOK(s, t)
    BY DEF ListsOK
  <2>8. Elems(s.list[t]) \subseteq On(s, t)
    BY <2>7 DEF ListOK
  <2>9. ListOK(v, t)
    <3>1. \A i \in On(s, t) : v.parent[i] = t
      BY <2>5, <2>6, <2>7 DEF ListOK
    <3>2. On(s, t) \cap (v.missed \cup v.stuck) = {}
      BY <1>2, <2>1
    <3>3. t \notin v.browsed
      BY <2>1
    <3>4. Distinct(v.list[t]) /\ Elems(v.list[t]) = {}
      BY <2>3 DEF Distinct, Elems
    <3> QED
      BY <2>2, <2>3, <3>1, <3>2, <3>3, <3>4 DEF ListOK
  <2>10. \A i \in Items \ On(s, t) : /\ v.parent[i] = s.parent[i]
                                     /\ i \in v.missed <=> i \in s.missed
                                     /\ i \in v.stuck <=> i \in s.stuck
    BY <1>2, <2>1, <2>5, <2>8
  <2>11. v.missed \cup v.stuck \subseteq s.missed \cup s.stuck
    BY <2>1
  <2>12. \A u \in Squares \ {t} : u \in v.browsed <=> u \in s.browsed
    BY <2>1
  <2>13. ListsOK(v)
    BY <2>1, <2>3, <2>4, <2>9, <2>10, <2>11, <2>12, ListsAt
  <2> QED
    BY <1>1, <2>13
<1> QED
  BY <1>3, <1>4

\* Lists of a world where only references change.
LEMMA ListsHeld ==
  ASSUME NEW s, NEW v, SameThings(s, v), SameLists(s, v), v.browsed = s.browsed, ListsOK(s)
  PROVE  ListsOK(v)
<1>1. (\A u : On(v, u) = On(s, u)) /\ Lying(v) = Lying(s)
  BY OnKept DEF SameThings
<1>2. \A u : SameAt(s, v, u)
  BY <1>1 DEF SameAt, SameThings, SameLists
<1> QED
  BY <1>1, <1>2, AtKept DEF SameLists, ListsOK

\* A container has become another, or none.
Reopened(s, v, b, n, x) == v.opened = [s.opened EXCEPT ![b][n] = x]
OpenedOK(v) == v.opened \in [Browsers -> [Squares \cup {Extra} -> Squares \cup {NoItem}]]
HeldAfter(s, v, b, n, x) ==
  \A u \in Squares : Holders(v, u) = IF u = x THEN Holders(s, u) \cup {<<b, n>>}
                                     ELSE Holders(s, u) \ {<<b, n>>}

\* Who holds what then.
LEMMA HoldersAfter ==
  ASSUME TilesAssumption, NEW s, RefsOK(s), NEW b \in Browsers, NEW n \in Squares \cup {Extra},
         NEW x \in Squares \cup {NoItem}, NEW v, Reopened(s, v, b, n, x)
  PROVE  OpenedOK(v) /\ HeldAfter(s, v, b, n, x)
<1>1. s.opened \in [Browsers -> [Squares \cup {Extra} -> Squares \cup {NoItem}]]
  BY DEF RefsOK
<1>2. v.opened \in [Browsers -> [Squares \cup {Extra} -> Squares \cup {NoItem}]]
  <2>1. PICK row : row = [s.opened[b] EXCEPT ![n] = x]
    OBVIOUS
  <2>2. row \in [Squares \cup {Extra} -> Squares \cup {NoItem}]
    BY <1>1, <2>1
  <2>3. v.opened = [s.opened EXCEPT ![b] = row]
    BY <1>1, <2>1 DEF Reopened
  <2> QED
    BY <1>1, <2>2, <2>3
<1>3. \A y \in Browsers \X (Squares \cup {Extra}) :
         v.opened[y[1]][y[2]] = IF y = <<b, n>> THEN x ELSE s.opened[y[1]][y[2]]
  <2> TAKE y \in Browsers \X (Squares \cup {Extra})
  <2>1. PICK c \in Browsers, m \in Squares \cup {Extra} : y = <<c, m>>
    OBVIOUS
  <2>2. v.opened[c][m] = IF c = b /\ m = n THEN x ELSE s.opened[c][m]
    BY <1>1 DEF Reopened
  <2>3. y = <<b, n>> <=> c = b /\ m = n
    BY <2>1
  <2> QED
    BY <2>1, <2>2, <2>3
<1>4. <<b, n>> \in Browsers \X (Squares \cup {Extra})
  OBVIOUS
<1>5. ASSUME NEW u \in Squares, u = x PROVE Holders(v, u) = Holders(s, u) \cup {<<b, n>>}
  BY <1>3, <1>4, <1>5 DEF Holders
<1>6. ASSUME NEW u \in Squares, u # x PROVE Holders(v, u) = Holders(s, u) \ {<<b, n>>}
  BY <1>3, <1>4, <1>6 DEF Holders
<1> QED
  BY <1>2, <1>5, <1>6 DEF OpenedOK, HeldAfter

\* Who has a container open refers to its tile.
LEMMA HeldIs ==
  ASSUME TilesAssumption, NEW s, RefsOK(s), NEW b \in Browsers, NEW n \in Squares \cup {Extra},
         s.opened[b][n] # NoItem
  PROVE  /\ s.opened[b][n] \in Squares /\ <<b, n>> \in Holders(s, s.opened[b][n])
         /\ s.refs[s.opened[b][n]] \in Nat /\ s.refs[s.opened[b][n]] >= 1
<1>1. PICK t : t = s.opened[b][n]
  OBVIOUS
<1>2. t \in Squares
  BY <1>1 DEF RefsOK
<1>3. <<b, n>> \in Holders(s, t)
  BY <1>1 DEF Holders
<1>4. PICK c, l, r : c = Cardinality(Holders(s, t)) /\ l = s.leaked[t] /\ r = s.refs[t]
  OBVIOUS
<1>5. c \in Nat /\ c # 0
  BY <1>3, <1>4, HoldersFinite, FS_EmptySet
<1>6. l \in Nat /\ r \in Nat /\ r = (IF t \in s.timer THEN 1 ELSE 0) + l + c
  BY <1>2, <1>4 DEF RefsOK
<1>7. r >= 1
  BY <1>5, <1>6
<1> QED
  BY <1>1, <1>2, <1>3, <1>4, <1>6, <1>7

\* The references to a tile are those that were counted.
RefsAt(v, u) ==
  /\ u \in v.browsed <=> v.refs[u] > 0
  /\ v.refs[u] = (IF u \in v.timer THEN 1 ELSE 0) + v.leaked[u] + Cardinality(Holders(v, u))

\* A container is closed: one reference goes.
LEMMA CloseContainerInv ==
  ASSUME TilesAssumption, NEW s, TileInv(s), NEW b \in Browsers, NEW n \in Squares \cup {Extra}
  PROVE  TileInv(CloseContainer(s, b, n))
<1>0. CASE s.opened[b][n] = NoItem
  BY <1>0 DEF CloseContainer
<1>1. CASE s.opened[b][n] # NoItem
  <2>1. PICK t : t = s.opened[b][n]
    OBVIOUS
  <2>2. RefsOK(s)
    BY DEF TileInv
  <2>3. t \in Squares /\ <<b, n>> \in Holders(s, t) /\ s.refs[t] \in Nat /\ s.refs[t] >= 1
    BY <1>1, <2>1, <2>2, HeldIs
  <2>4. PICK z : z = [s EXCEPT !.opened[b][n] = NoItem]
    OBVIOUS
  <2>5. /\ SameThings(s, z) /\ SameLists(s, z) /\ z.browsed = s.browsed
        /\ z.timer = s.timer /\ z.leaked = s.leaked /\ z.refs = s.refs
        /\ z.opened = [s.opened EXCEPT ![b][n] = NoItem]
    BY <2>4 DEF TileInv, Shape, FieldNames, SameThings, SamePlaces, SameLists
  <2>6. PICK v : v = Unreferenced(z, t, 1)
    OBVIOUS
  <2>7. IsUnreferenced(z, v, t, 1)
    BY <2>2, <2>3, <2>5, <2>6, UnreferencedIs DEF RefsOK, SameThings
  <2>8. /\ SameThings(s, v) /\ v.timer = s.timer /\ v.leaked = s.leaked
        /\ v.opened = [s.opened EXCEPT ![b][n] = NoItem]
        /\ v.refs = [s.refs EXCEPT ![t] = @ - 1]
        /\ v.browsed = IF s.refs[t] > 1 THEN s.browsed ELSE s.browsed \ {t}
    BY <2>5, <2>7 DEF IsUnreferenced, SameThings, SamePlaces
  <2>9. /\ v.opened \in [Browsers -> [Squares \cup {Extra} -> Squares \cup {NoItem}]]
        /\ \A u \in Squares : Holders(v, u) = Holders(s, u) \ {<<b, n>>}
    <3>1. NoItem \in Squares \cup {NoItem} /\ NoItem \notin Squares
      BY DEF TilesAssumption
    <3>2. PICK x : x = NoItem
      OBVIOUS
    <3>3. Reopened(s, v, b, n, x) /\ x \in Squares \cup {NoItem}
      BY <2>8, <3>2 DEF Reopened
    <3>4. OpenedOK(v) /\ HeldAfter(s, v, b, n, x)
      BY <2>2, <3>3, HoldersAfter
    <3> QED
      BY <3>1, <3>2, <3>4 DEF OpenedOK, HeldAfter
  <2>10. \A u \in Squares \ {t} : <<b, n>> \notin Holders(s, u)
    BY <2>1 DEF Holders
  <2>11. Cardinality(Holders(v, t)) = Cardinality(Holders(s, t)) - 1
    BY <2>3, <2>9, HoldersFinite, FS_RemoveElement
  <2>12. ASSUME NEW u \in Squares PROVE RefsAt(v, u)
    <3>1. CASE u = t
      <4>1. PICK c, l, r : c = Cardinality(Holders(s, t)) /\ l = s.leaked[t] /\ r = s.refs[t]
        OBVIOUS
      <4>2. c \in Nat /\ l \in Nat /\ r \in Nat /\ r = (IF t \in s.timer THEN 1 ELSE 0) + l + c
        BY <2>2, <2>3, <4>1, HoldersFinite DEF RefsOK
      <4>3. v.refs[t] = r - 1
        BY <2>2, <2>3, <2>8, <4>1 DEF RefsOK
      <4>4. t \in v.browsed <=> r > 1
        BY <2>2, <2>3, <2>8, <4>1 DEF RefsOK
      <4> QED
        BY <2>8, <2>11, <3>1, <4>1, <4>2, <4>3, <4>4 DEF RefsAt
    <3>2. CASE u # t
      <4>1. Holders(v, u) = Holders(s, u)
        BY <2>9, <2>10, <3>2
      <4>2. v.refs[u] = s.refs[u] /\ (u \in v.browsed <=> u \in s.browsed)
        BY <2>2, <2>8, <3>2 DEF RefsOK
      <4> QED
        BY <2>2, <2>8, <4>1, <4>2 DEF RefsAt, RefsOK
    <3> QED
      BY <3>1, <3>2
  <2>13. v.browsed \subseteq Squares /\ v.refs \in [Squares -> Nat]
    BY <2>2, <2>3, <2>8 DEF RefsOK
  <2>14. RefsOK(v)
    BY <2>2, <2>8, <2>9, <2>12, <2>13 DEF RefsOK, RefsAt
  <2>15. ListsOK(s) => ListsOK(v)
    BY <2>3, <2>5, <2>6, UnreferencedLists
  <2>16. TileInv(v)
    BY <2>8, <2>14, <2>15, HeldInv
  <2> QED
    BY <1>1, <2>1, <2>4, <2>6, <2>16 DEF CloseContainer
<1> QED
  BY <1>0, <1>1

\* The references to one tile, by number.
LEMMA RefsAre ==
  ASSUME TilesAssumption, NEW s, RefsOK(s), NEW t \in Squares
  PROVE  /\ s.refs[t] \in Nat /\ s.leaked[t] \in Nat /\ Cardinality(Holders(s, t)) \in Nat
         /\ s.refs[t] = (IF t \in s.timer THEN 1 ELSE 0) + s.leaked[t] + Cardinality(Holders(s, t))
         /\ t \in s.browsed <=> s.refs[t] > 0
BY HoldersFinite DEF RefsOK

\* A container is opened, and what was open in its place is given up.
LEMMA AddContainerInv ==
  ASSUME TilesAssumption, NEW s, TileInv(s), NEW b \in Browsers, NEW n \in Squares \cup {Extra},
         NEW t \in s.browsed
  PROVE  TileInv(AddContainer(s, b, n, t))
<1>0. RefsOK(s) /\ t \in Squares /\ s.refs \in [Squares -> Nat]
  BY DEF TileInv, RefsOK
<1>1. PICK old : old = s.opened[b][n]
  OBVIOUS
<1>2. PICK z : z = [s EXCEPT !.refs[t] = @ + 1]
  OBVIOUS
<1>3. /\ SameThings(s, z) /\ SameLists(s, z) /\ z.browsed = s.browsed
      /\ z.timer = s.timer /\ z.leaked = s.leaked /\ z.opened = s.opened
      /\ z.refs = [s.refs EXCEPT ![t] = @ + 1]
  BY <1>2 DEF TileInv, Shape, FieldNames, SameThings, SamePlaces, SameLists
<1>4. PICK y : y = OldClosed(z, old)
  OBVIOUS
<1>5. PICK v : v = [y EXCEPT !.opened[b][n] = t]
  OBVIOUS
<1>6. v = AddContainer(s, b, n, t)
  BY <1>1, <1>2, <1>4, <1>5 DEF AddContainer
<1>7. SameThings(s, y) /\ y.opened = s.opened /\ y.timer = s.timer /\ y.leaked = s.leaked
        /\ (ListsOK(s) => ListsOK(y))
  <2>1. CASE old = NoItem
    <3>1. y = z
      BY <1>4, <2>1 DEF OldClosed
    <3> QED
      BY <1>3, <3>1, ListsHeld
  <2>2. CASE old # NoItem
    <3>1. old \in Squares /\ s.refs[old] \in Nat /\ s.refs[old] >= 1
      BY <1>0, <1>1, <2>2, HeldIs
    <3>2. z.refs \in [Squares -> Nat] /\ z.refs[old] >= 1
      BY <1>0, <1>3, <3>1
    <3>3. y = Unreferenced(z, old, 1)
      BY <1>4, <2>2 DEF OldClosed
    <3>4. IsUnreferenced(z, y, old, 1)
      BY <1>3, <3>1, <3>2, <3>3, UnreferencedIs DEF SameThings
    <3>5. ListsOK(s) => ListsOK(y)
      BY <1>3, <3>1, <3>3, UnreferencedLists
    <3> QED
      BY <1>3, <3>4, <3>5 DEF IsUnreferenced, SameThings, SamePlaces
  <2> QED
    BY <2>1, <2>2
<1>8. /\ SameThings(y, v) /\ SameLists(y, v) /\ v.browsed = y.browsed /\ v.refs = y.refs
      /\ v.timer = y.timer /\ v.leaked = y.leaked /\ Reopened(y, v, b, n, t)
  BY <1>5, <1>7 DEF Shape, FieldNames, SameThings, SamePlaces, SameLists, Reopened
<1>9. SameThings(s, v) /\ v.timer = s.timer /\ v.leaked = s.leaked /\ Reopened(s, v, b, n, t)
  BY <1>7, <1>8 DEF SameThings, SamePlaces, Reopened
<1>10. ListsOK(s) => ListsOK(v)
  BY <1>7, <1>8, ListsHeld
<1>11. OpenedOK(v) /\ HeldAfter(s, v, b, n, t)
  <2>1. t \in Squares \cup {NoItem}
    BY <1>0
  <2> QED
    BY <1>0, <1>9, <2>1, HoldersAfter
<1>12. Holders(v, t) = Holders(s, t) \cup {<<b, n>>}
       /\ \A u \in Squares \ {t} : Holders(v, u) = Holders(s, u) \ {<<b, n>>}
  BY <1>0, <1>11 DEF HeldAfter
<1>13. \A u \in Squares : <<b, n>> \in Holders(s, u) <=> u = old
  BY <1>1 DEF Holders
<1>14. \A u \in Squares : Cardinality(Holders(v, u))
         = Cardinality(Holders(s, u))
             + (IF u = t /\ t # old THEN 1 ELSE IF u = old /\ t # old THEN -1 ELSE 0)
  <2> TAKE u \in Squares
  <2>1. CASE u = t /\ t # old
    BY <1>12, <1>13, <2>1, HoldersFinite, FS_AddElement
  <2>2. CASE u = t /\ t = old
    <3>1. Holders(v, u) = Holders(s, u)
      BY <1>12, <1>13, <2>2
    <3> QED
      BY <2>2, <3>1, HoldersFinite
  <2>3. CASE u # t /\ u = old
    BY <1>12, <1>13, <2>3, HoldersFinite, FS_RemoveElement
  <2>4. CASE u # t /\ u # old
    <3>1. Holders(v, u) = Holders(s, u)
      BY <1>12, <1>13, <2>4
    <3> QED
      BY <2>4, <3>1, HoldersFinite
  <2> QED
    BY <2>1, <2>2, <2>3, <2>4
<1>15. /\ v.refs \in [Squares -> Nat] /\ v.browsed \subseteq Squares
       /\ \A u \in Squares :
            /\ v.refs[u] = s.refs[u]
                 + (IF u = t /\ t # old THEN 1 ELSE IF u = old /\ t # old THEN -1 ELSE 0)
            /\ u \in v.browsed <=> v.refs[u] > 0
  <2>0. \A u \in Squares : s.refs[u] \in Nat /\ (u \in s.browsed <=> s.refs[u] > 0)
    BY <1>0 DEF RefsOK
  <2>1. CASE old = NoItem
    <3>1. y = z
      BY <1>4, <2>1 DEF OldClosed
    <3>2. v.refs = [s.refs EXCEPT ![t] = @ + 1] /\ v.browsed = s.browsed
      BY <1>3, <1>8, <3>1
    <3>3. old \notin Squares
      BY <2>1 DEF TilesAssumption
    <3>4. t # old
      BY <1>0, <3>3
    <3>5. v.refs \in [Squares -> Nat] /\ v.browsed \subseteq Squares
      BY <1>0, <3>2 DEF RefsOK
    <3>6. ASSUME NEW u \in Squares
          PROVE  /\ v.refs[u] = s.refs[u]
                      + (IF u = t /\ t # old THEN 1 ELSE IF u = old /\ t # old THEN -1 ELSE 0)
                 /\ u \in v.browsed <=> v.refs[u] > 0
      BY <1>0, <2>0, <3>2, <3>3, <3>4
    <3> QED
      BY <3>5, <3>6
  <2>2. CASE old # NoItem
    <3>1. old \in Squares /\ s.refs[old] \in Nat /\ s.refs[old] >= 1
      BY <1>0, <1>1, <2>2, HeldIs
    <3>2. z.refs \in [Squares -> Nat] /\ z.refs[old] >= 1
      BY <1>0, <1>3, <3>1
    <3>3. y = Unreferenced(z, old, 1)
      BY <1>4, <2>2 DEF OldClosed
    <3>4. IsUnreferenced(z, y, old, 1)
      BY <1>3, <3>1, <3>2, <3>3, UnreferencedIs DEF SameThings
    <3>5. v.refs = [z.refs EXCEPT ![old] = @ - 1]
          /\ v.browsed = IF z.refs[old] > 1 THEN s.browsed ELSE s.browsed \ {old}
      BY <1>3, <1>8, <3>4 DEF IsUnreferenced
    <3>6. v.refs \in [Squares -> Nat] /\ v.browsed \subseteq Squares
      BY <1>0, <3>1, <3>2, <3>5 DEF RefsOK
    <3>7. z.refs[t] = s.refs[t] + 1 /\ \A u \in Squares \ {t} : z.refs[u] = s.refs[u]
      BY <1>0, <1>3
    <3>8. v.refs[old] = z.refs[old] - 1 /\ \A u \in Squares \ {old} : v.refs[u] = z.refs[u]
      BY <3>1, <3>2, <3>5
    <3>9. ASSUME NEW u \in Squares
          PROVE  /\ v.refs[u] = s.refs[u]
                      + (IF u = t /\ t # old THEN 1 ELSE IF u = old /\ t # old THEN -1 ELSE 0)
                 /\ u \in v.browsed <=> v.refs[u] > 0
      <4>1. CASE u = old
        BY <1>0, <2>0, <3>1, <3>5, <3>7, <3>8, <4>1
      <4>2. CASE u # old
        BY <1>0, <2>0, <3>1, <3>5, <3>7, <3>8, <4>2
      <4> QED
        BY <4>1, <4>2
    <3> QED
      BY <3>6, <3>9
  <2> QED
    BY <2>1, <2>2
<1>16. \A u \in Squares :
         v.refs[u] = (IF u \in v.timer THEN 1 ELSE 0) + v.leaked[u] + Cardinality(Holders(v, u))
  <2> TAKE u \in Squares
  <2>1. PICK c, l, r, d : /\ c = Cardinality(Holders(s, u)) /\ l = s.leaked[u] /\ r = s.refs[u]
                          /\ d = IF u = t /\ t # old THEN 1 ELSE IF u = old /\ t # old THEN -1 ELSE 0
    OBVIOUS
  <2>2. /\ r \in Nat /\ l \in Nat /\ c \in Nat /\ d \in Int
        /\ r = (IF u \in s.timer THEN 1 ELSE 0) + l + c
    BY <1>0, <2>1, RefsAre
  <2>3. v.refs[u] = r + d /\ Cardinality(Holders(v, u)) = c + d
    BY <1>14, <1>15, <2>1
  <2> QED
    BY <1>9, <2>1, <2>2, <2>3
<1>17. RefsOK(v)
  <2>1. v.leaked \in [Squares -> Nat]
    BY <1>0, <1>9 DEF RefsOK
  <2> QED
    BY <1>11, <1>15, <1>16, <2>1 DEF RefsOK, OpenedOK
<1>18. TileInv(v)
  BY <1>9, <1>10, <1>17, HeldInv
<1> QED
  BY <1>6, <1>18

\* A player browses a tile, or no longer does; and moves up to the tile from a
\* container on it.
LEMMA BrowseInv ==
  ASSUME TilesAssumption, NEW s, TileInv(s), NEW b \in Browsers, NEW t \in Squares
  PROVE  TileInv(BrowseField(s, b, t)) /\ TileInv(AddContainer(FieldOf(s, t), b, Extra, t))
<1>1. PICK f : f = FieldOf(s, t)
  OBVIOUS
<1>2. TileInv(f) /\ t \in f.browsed
  BY <1>1, FieldOfInv
<1>3. t \in Squares \cup {Extra} /\ Extra \in Squares \cup {Extra}
  OBVIOUS
<1>4. /\ TileInv(CloseContainer(f, b, t)) /\ TileInv(AddContainer(f, b, t, t))
      /\ TileInv(AddContainer(f, b, Extra, t))
  BY <1>2, <1>3, CloseContainerInv, AddContainerInv
<1> QED
  BY <1>1, <1>4 DEF BrowseField

\* What one player has open of a tile.
Mine(s, b, t) == {x \in Holders(s, t) : x[1] = b}

\* It is counted, and can be taken off.
LEMMA OpensIs ==
  ASSUME TilesAssumption, NEW s, RefsOK(s), NEW b \in Browsers, NEW t
  PROVE  /\ Opens(s, b, t) = Cardinality(Mine(s, b, t)) /\ Opens(s, b, t) \in Nat
         /\ Cardinality(Holders(s, t) \ Mine(s, b, t)) = Cardinality(Holders(s, t)) - Opens(s, b, t)
         /\ Opens(s, b, t) <= Cardinality(Holders(s, t))
<1>1. PICK N : N = {n \in Squares \cup {Extra} : s.opened[b][n] = t}
  OBVIOUS
<1>2. Opens(s, b, t) = Cardinality(N)
  <2>1. DOMAIN s.opened[b] = Squares \cup {Extra}
    BY DEF RefsOK
  <2> QED
    BY <1>1, <2>1 DEF Opens
<1>3. PICK H : H = Holders(s, t)
  OBVIOUS
<1>4. PICK M : M = Mine(s, b, t)
  OBVIOUS
<1>5. \A x : x \in M <=> \E n \in N : x = <<b, n>>
  BY <1>1, <1>4 DEF Mine, Holders
<1>6. PICK f : f = [n \in N |-> <<b, n>>]
  OBVIOUS
<1>7. f \in Bijection(N, M)
  BY <1>5, <1>6 DEF Bijection, Injection, Surjection, IsInjective
<1>8. IsFiniteSet(N)
  <2>1. IsFiniteSet(Squares \cup {Extra})
    BY FS_AddElement DEF TilesAssumption
  <2>2. N \subseteq Squares \cup {Extra}
    BY <1>1
  <2> QED
    BY <2>1, <2>2, FS_Subset
<1>9. Cardinality(M) = Cardinality(N) /\ IsFiniteSet(M)
  <2>1. ExistsBijection(N, M)
    BY <1>7 DEF ExistsBijection
  <2> QED
    BY <1>8, <2>1, FS_Bijection
<1>10. IsFiniteSet(H) /\ H \cap M = M /\ M \subseteq H
  BY <1>3, <1>4, HoldersFinite DEF Mine
<1>11. Cardinality(H \ M) = Cardinality(H) - Cardinality(M)
  BY <1>10, FS_Difference
<1>12. Cardinality(M) \in Nat /\ Cardinality(M) <= Cardinality(H)
  BY <1>9, <1>10, FS_CardinalityType, FS_Subset
<1> QED
  BY <1>2, <1>3, <1>4, <1>9, <1>11, <1>12

\* A player walks away: all it has open of the tile is closed.
LEMMA CloseAllInv ==
  ASSUME TilesAssumption, NEW s, TileInv(s), NEW b \in Browsers, NEW t \in Squares,
         Opens(s, b, t) > 0
  PROVE  TileInv(CloseAll(s, b, t))
<1>0. RefsOK(s) /\ s.refs \in [Squares -> Nat]
      /\ s.opened \in [Browsers -> [Squares \cup {Extra} -> Squares \cup {NoItem}]]
  BY DEF TileInv, RefsOK
<1>1. PICK k : k = Opens(s, b, t)
  OBVIOUS
<1>2. PICK row : row = [n \in DOMAIN s.opened[b] |-> IF s.opened[b][n] = t THEN NoItem ELSE s.opened[b][n]]
  OBVIOUS
<1>3. PICK z : z = [s EXCEPT !.opened[b] = row]
  OBVIOUS
<1>4. PICK v : v = Unreferenced(z, t, k)
  OBVIOUS
<1>5. v = CloseAll(s, b, t)
  <2>1. z = [s EXCEPT !.opened[b] = [n \in DOMAIN @ |-> IF @[n] = t THEN NoItem ELSE @[n]]]
    BY <1>2, <1>3
  <2> QED
    BY <1>1, <1>4, <2>1 DEF CloseAll
<1>6. /\ SameThings(s, z) /\ SameLists(s, z) /\ z.browsed = s.browsed
      /\ z.timer = s.timer /\ z.leaked = s.leaked /\ z.refs = s.refs
      /\ z.opened = [s.opened EXCEPT ![b] = row]
  BY <1>3 DEF TileInv, Shape, FieldNames, SameThings, SamePlaces, SameLists
<1>7. /\ row \in [Squares \cup {Extra} -> Squares \cup {NoItem}]
      /\ \A n \in Squares \cup {Extra} : row[n] = IF s.opened[b][n] = t THEN NoItem ELSE s.opened[b][n]
  <2>1. s.opened[b] \in [Squares \cup {Extra} -> Squares \cup {NoItem}]
    BY <1>0
  <2> QED
    BY <1>2, <2>1
<1>8. z.opened \in [Browsers -> [Squares \cup {Extra} -> Squares \cup {NoItem}]]
  BY <1>0, <1>6, <1>7
<1>9. NoItem \notin Squares
  BY DEF TilesAssumption
<1>10. \A y \in Browsers \X (Squares \cup {Extra}) :
         z.opened[y[1]][y[2]] = IF y[1] = b /\ s.opened[y[1]][y[2]] = t THEN NoItem
                                ELSE s.opened[y[1]][y[2]]
  <2> TAKE y \in Browsers \X (Squares \cup {Extra})
  <2>1. PICK c \in Browsers, m \in Squares \cup {Extra} : y = <<c, m>>
    OBVIOUS
  <2>2. z.opened[c] = IF c = b THEN row ELSE s.opened[c]
    BY <1>0, <1>6
  <2>3. z.opened[c][m] = IF c = b /\ s.opened[c][m] = t THEN NoItem ELSE s.opened[c][m]
    BY <1>7, <2>2
  <2> QED
    BY <2>1, <2>3
<1>11. Holders(z, t) = Holders(s, t) \ Mine(s, b, t)
  BY <1>9, <1>10 DEF Holders, Mine
<1>12. \A u \in Squares \ {t} : Holders(z, u) = Holders(s, u)
  BY <1>9, <1>10 DEF Holders
<1>13. PICK c, l, r : c = Cardinality(Holders(s, t)) /\ l = s.leaked[t] /\ r = s.refs[t]
  OBVIOUS
<1>14. c \in Nat /\ l \in Nat /\ r \in Nat /\ r = (IF t \in s.timer THEN 1 ELSE 0) + l + c
  BY <1>0, <1>13, RefsAre
<1>15. k \in Nat /\ k <= c /\ Cardinality(Holders(z, t)) = c - k
  BY <1>0, <1>1, <1>11, <1>13, OpensIs
<1>16. IsUnreferenced(z, v, t, k)
  <2>1. z.refs[t] >= k
    BY <1>6, <1>13, <1>14, <1>15
  <2> QED
    BY <1>0, <1>4, <1>6, <1>15, <2>1, UnreferencedIs DEF SameThings
<1>17. /\ SameThings(s, v) /\ v.timer = s.timer /\ v.leaked = s.leaked /\ v.opened = z.opened
       /\ v.refs = [s.refs EXCEPT ![t] = @ - k]
       /\ v.browsed = IF s.refs[t] > k THEN s.browsed ELSE s.browsed \ {t}
  BY <1>6, <1>16 DEF IsUnreferenced, SameThings, SamePlaces
<1>18. \A u : Holders(v, u) = Holders(z, u)
  BY <1>17 DEF Holders
<1>19. ASSUME NEW u \in Squares PROVE RefsAt(v, u)
  <2>1. CASE u = t
    <3>1. v.refs[t] = r - k
      BY <1>0, <1>13, <1>17
    <3>2. t \in v.browsed <=> r > k
      BY <1>0, <1>1, <1>13, <1>14, <1>15, <1>17 DEF RefsOK
    <3>3. Cardinality(Holders(v, t)) = c - k
      BY <1>15, <1>18
    <3> QED
      BY <1>13, <1>14, <1>15, <1>17, <2>1, <3>1, <3>2, <3>3 DEF RefsAt
  <2>2. CASE u # t
    <3>1. Holders(v, u) = Holders(s, u)
      BY <1>12, <1>18, <2>2
    <3>2. v.refs[u] = s.refs[u] /\ (u \in v.browsed <=> u \in s.browsed)
      BY <1>0, <1>17, <2>2
    <3> QED
      BY <1>0, <1>17, <3>1, <3>2 DEF RefsAt, RefsOK
  <2> QED
    BY <2>1, <2>2
<1>20. v.browsed \subseteq Squares /\ v.refs \in [Squares -> Nat]
  <2>1. r - k \in Nat
    BY <1>14, <1>15
  <2> QED
    BY <1>0, <1>13, <1>17, <2>1 DEF RefsOK
<1>21. RefsOK(v)
  BY <1>0, <1>8, <1>17, <1>19, <1>20 DEF RefsOK, RefsAt
<1>22. ListsOK(s) => ListsOK(v)
  BY <1>4, <1>6, UnreferencedLists
<1>23. TileInv(v)
  BY <1>17, <1>21, <1>22, HeldInv
<1> QED
  BY <1>5, <1>23

\* A player logs out, and its references stay.
LEMMA LogoutInv ==
  ASSUME TilesAssumption, NEW s, TileInv(s), NEW b \in Browsers
  PROVE  TileInv(Logout(s, b))
<1>0. RefsOK(s) /\ s.leaked \in [Squares -> Nat]
      /\ s.opened \in [Browsers -> [Squares \cup {Extra} -> Squares \cup {NoItem}]]
  BY DEF TileInv, RefsOK
<1>1. PICK v : v = Logout(s, b)
  OBVIOUS
<1>2. PICK row : row = [n \in Squares \cup {Extra} |-> NoItem]
  OBVIOUS
<1>3. /\ SameThings(s, v) /\ SameLists(s, v) /\ v.browsed = s.browsed
      /\ v.timer = s.timer /\ v.refs = s.refs
      /\ v.opened = [s.opened EXCEPT ![b] = row]
      /\ v.leaked = [t \in Squares |-> s.leaked[t] + Opens(s, b, t)]
  <2>1. DOMAIN s.opened[b] = Squares \cup {Extra}
    BY <1>0
  <2> QED
    BY <1>0, <1>1, <1>2, <2>1 DEF Logout, TileInv, Shape, FieldNames, SameThings, SamePlaces, SameLists
<1>4. row \in [Squares \cup {Extra} -> Squares \cup {NoItem}]
      /\ \A n \in Squares \cup {Extra} : row[n] = NoItem
  BY <1>2
<1>5. v.opened \in [Browsers -> [Squares \cup {Extra} -> Squares \cup {NoItem}]]
  BY <1>0, <1>3, <1>4
<1>6. NoItem \notin Squares
  BY DEF TilesAssumption
<1>7. \A y \in Browsers \X (Squares \cup {Extra}) :
        v.opened[y[1]][y[2]] = IF y[1] = b THEN NoItem ELSE s.opened[y[1]][y[2]]
  <2> TAKE y \in Browsers \X (Squares \cup {Extra})
  <2>1. PICK c \in Browsers, m \in Squares \cup {Extra} : y = <<c, m>>
    OBVIOUS
  <2>2. v.opened[c] = IF c = b THEN row ELSE s.opened[c]
    BY <1>0, <1>3
  <2> QED
    BY <1>4, <2>1, <2>2
<1>8. \A u \in Squares : Holders(v, u) = Holders(s, u) \ Mine(s, b, u)
  BY <1>6, <1>7 DEF Holders, Mine
<1>9. v.leaked \in [Squares -> Nat]
  <2>1. \A t \in Squares : s.leaked[t] \in Nat /\ Opens(s, b, t) \in Nat
    BY <1>0, OpensIs
  <2>2. \A t \in Squares : s.leaked[t] + Opens(s, b, t) \in Nat
    BY <2>1
  <2> QED
    BY <1>3, <2>2
<1>10. ASSUME NEW u \in Squares PROVE RefsAt(v, u)
  <2>1. PICK c, l, r, k : /\ c = Cardinality(Holders(s, u)) /\ l = s.leaked[u] /\ r = s.refs[u]
                          /\ k = Opens(s, b, u)
    OBVIOUS
  <2>2. c \in Nat /\ l \in Nat /\ r \in Nat /\ r = (IF u \in s.timer THEN 1 ELSE 0) + l + c
    BY <1>0, <2>1, RefsAre
  <2>3. k \in Nat /\ Cardinality(Holders(v, u)) = c - k
    BY <1>0, <1>8, <2>1, OpensIs
  <2>4. v.leaked[u] = l + k
    BY <1>3, <2>1
  <2>5. v.refs[u] = r /\ (u \in v.browsed <=> r > 0)
    BY <1>0, <1>3, <2>1 DEF RefsOK
  <2> QED
    BY <1>3, <2>2, <2>3, <2>4, <2>5 DEF RefsAt
<1>11. RefsOK(v)
  BY <1>0, <1>3, <1>5, <1>9, <1>10 DEF RefsOK, RefsAt
<1>12. TileInv(v)
  BY <1>3, <1>11, ListsHeld, HeldInv
<1> QED
  BY <1>1, <1>12

\* The timer fires: its reference goes.
LEMMA BrowseTimerInv ==
  ASSUME TilesAssumption, NEW s, TileInv(s), NEW t \in Squares, t \in s.timer
  PROVE  TileInv(Unreferenced([s EXCEPT !.timer = @ \ {t}], t, 1))
<1>0. RefsOK(s) /\ s.refs \in [Squares -> Nat]
  BY DEF TileInv, RefsOK
<1>1. PICK z : z = [s EXCEPT !.timer = @ \ {t}]
  OBVIOUS
<1>2. /\ SameThings(s, z) /\ SameLists(s, z) /\ z.browsed = s.browsed /\ z.opened = s.opened
      /\ z.leaked = s.leaked /\ z.refs = s.refs /\ z.timer = s.timer \ {t}
  BY <1>1 DEF TileInv, Shape, FieldNames, SameThings, SamePlaces, SameLists
<1>3. PICK c, l, r : c = Cardinality(Holders(s, t)) /\ l = s.leaked[t] /\ r = s.refs[t]
  OBVIOUS
<1>4. c \in Nat /\ l \in Nat /\ r \in Nat /\ r = 1 + l + c
  BY <1>0, <1>3, RefsAre
<1>5. PICK v : v = Unreferenced(z, t, 1)
  OBVIOUS
<1>6. IsUnreferenced(z, v, t, 1)
  <2>1. z.refs[t] >= 1
    BY <1>2, <1>3, <1>4
  <2> QED
    BY <1>0, <1>2, <1>5, <2>1, UnreferencedIs DEF SameThings
<1>7. /\ SameThings(s, v) /\ v.timer = s.timer \ {t} /\ v.leaked = s.leaked /\ v.opened = s.opened
      /\ v.refs = [s.refs EXCEPT ![t] = @ - 1]
      /\ v.browsed = IF s.refs[t] > 1 THEN s.browsed ELSE s.browsed \ {t}
  BY <1>2, <1>6 DEF IsUnreferenced, SameThings, SamePlaces
<1>8. \A u : Holders(v, u) = Holders(s, u)
  BY <1>7 DEF Holders
<1>9. ASSUME NEW u \in Squares PROVE RefsAt(v, u)
  <2>1. CASE u = t
    <3>1. v.refs[t] = r - 1 /\ (t \in v.browsed <=> r > 1)
      BY <1>0, <1>3, <1>4, <1>7 DEF RefsOK
    <3> QED
      BY <1>3, <1>4, <1>7, <1>8, <2>1, <3>1 DEF RefsAt
  <2>2. CASE u # t
    <3>1. v.refs[u] = s.refs[u] /\ (u \in v.browsed <=> u \in s.browsed)
      BY <1>0, <1>7, <2>2
    <3> QED
      BY <1>0, <1>7, <1>8, <2>2, <3>1 DEF RefsAt, RefsOK
  <2> QED
    BY <2>1, <2>2
<1>10. v.browsed \subseteq Squares /\ v.refs \in [Squares -> Nat]
  BY <1>0, <1>3, <1>4, <1>7 DEF RefsOK
<1>11. RefsOK(v)
  BY <1>0, <1>7, <1>9, <1>10 DEF RefsOK, RefsAt
<1>12. ListsOK(s) => ListsOK(v)
  BY <1>2, <1>5, UnreferencedLists
<1>13. TileInv(v)
  BY <1>7, <1>11, <1>12, HeldInv
<1> QED
  BY <1>1, <1>5, <1>13
-----------------------------------------------------------------------------
(* The behaviours.                                                         *)

Right == TileInv(tile)

\* Nothing lies anywhere yet.
LEMMA BareRight ==
  ASSUME TilesAssumption
  PROVE  TileInv(Bare)
<1>1. PICK s : s = Bare
  OBVIOUS
<1>2. /\ Shape(s) /\ s.ground = [t \in Squares |-> "floor"]
      /\ s.top = [t \in Squares |-> <<>>] /\ s.down = [t \in Squares |-> <<>>]
      /\ s.kind = [i \in Items |-> "none"] /\ s.parent = [i \in Items |-> NoItem]
      /\ s.flags = [t \in Squares |-> {}] /\ s.dangling = FALSE
  BY <1>1 DEF Bare, Shape, FieldNames
<1>3. /\ s.browsed = {} /\ s.list = [t \in Squares |-> <<>>]
      /\ s.refs = [t \in Squares |-> 0] /\ s.timer = {} /\ s.leaked = [t \in Squares |-> 0]
      /\ s.opened = [b \in Browsers |-> [n \in Squares \cup {Extra} |-> NoItem]]
      /\ s.missed = {} /\ s.stuck = {}
  BY <1>1 DEF Bare
<1>4. \A t \in Squares : /\ s.top[t] = <<>> /\ s.down[t] = <<>> /\ s.list[t] = <<>>
                         /\ Elems(s.top[t]) = {} /\ Elems(s.down[t]) = {} /\ Elems(s.list[t]) = {}
                         /\ On(s, t) = {}
  BY <1>2, <1>3 DEF Elems, On
<1>5. Lying(s) = {}
  BY <1>4 DEF Lying
<1>6. PlacesOK(s)
  BY <1>2, <1>4 DEF PlacesOK, Distinct
<1>7. KindsOK(s)
  BY <1>2, <1>4 DEF KindsOK
<1>8. FlagsOK(s)
  <2>1. PropertiesOf("floor") = {}
    <3>1. \A p \in Properties : ~HasProperty("floor", p)
      BY DEF Properties, HasProperty, Solids, Movables, PathBlocks, Fields
    <3> QED
      BY <3>1 DEF PropertiesOf
  <2>2. ASSUME NEW t \in Squares PROVE FlagsAt(s, t)
    <3>1. s.ground[t] = "floor" /\ s.flags[t] = {}
      BY <1>2
    <3>2. OtherProperties(s, t, NoItem) = {}
      BY <1>4, <2>1, <3>1 DEF OtherProperties
    <3> QED
      BY <3>1, <3>2 DEF FlagsAt
  <2>3. s.ground \in [Squares -> Grounds \cup {"none"}] /\ s.flags \in [Squares -> SUBSET AllFlags]
    BY <1>2 DEF Grounds
  <2> QED
    BY <2>2, <2>3 DEF FlagsOK
<1>9. RefsOK(s)
  <2>1. s.opened \in [Browsers -> [Squares \cup {Extra} -> Squares \cup {NoItem}]]
    BY <1>3
  <2>2. ASSUME NEW t \in Squares PROVE Holders(s, t) = {}
    <3>1. t # NoItem
      BY DEF TilesAssumption
    <3>2. \A b \in Browsers : \A n \in Squares \cup {Extra} : s.opened[b][n] = NoItem
      BY <1>3
    <3> QED
      BY <3>1, <3>2 DEF Holders
  <2>3. \A t \in Squares : Cardinality(Holders(s, t)) = 0
    BY <2>2, FS_EmptySet
  <2> QED
    BY <1>3, <2>1, <2>3 DEF RefsOK
<1>10. ListsOK(s)
  <2>1. \A t \in Squares : ListOK(s, t)
    BY <1>3, <1>4 DEF ListOK, Distinct
  <2>2. s.list \in [Squares -> Seq(Items)] /\ s.parent \in [Items -> Squares \cup {NoItem, Field}]
    BY <1>2, <1>3
  <2> QED
    BY <1>2, <1>3, <1>5, <2>1, <2>2 DEF ListsOK
<1> QED
  BY <1>1, <1>2, <1>6, <1>7, <1>8, <1>9, <1>10 DEF TileInv

\* Where an item lies that does.
LEMMA SiteIs ==
  ASSUME NEW i, Lies(i)
  PROVE  Site(i) \in Squares /\ i \in On(tile, Site(i))
BY DEF Lies, Site

\* A place that is free lies nowhere.
LEMMA FreshIs ==
  ASSUME TileInv(tile), Free # {}
  PROVE  Fresh \in Items \ Lying(tile)
<1>1. Fresh \in Free
  BY DEF Fresh
<1>2. \A i \in Lying(tile) : tile.kind[i] # "none"
  BY DEF Lying, TileInv, KindsOK
<1> QED
  BY <1>1, <1>2 DEF Free

\* Every step keeps the tiles right.
LEMMA RightStep ==
  ASSUME TilesAssumption, Right, TilesNext
  PROVE  Right'
<1>0. TileInv(tile)
  BY DEF Right
<1> DEFINE Goal == TileInv(tile')
<1> SUFFICES Goal
  BY DEF Right, TileInv, Shape, PlacesOK, KindsOK, FlagsOK, RefsOK, ListsOK
<1>1. ASSUME NEW t \in Squares, NEW k \in ItemKinds, PutItem(t, k) PROVE Goal
  <2>1. Fresh \in Items \ Lying(tile)
    BY <1>0, <1>1, FreshIs DEF PutItem
  <2>2. PICK i : i = Fresh
    OBVIOUS
  <2>3. PICK a : a = Renamed(tile, i, k)
    OBVIOUS
  <2>4. k # "none"
    BY DEF ItemKinds, TopKinds, Fields, Movables
  <2>5. TileInv(a) /\ i \in Items \ Lying(a) /\ a.kind[i] # "none"
    BY <1>0, <2>1, <2>2, <2>3, <2>4, NamedInv
  <2>6. TileInv(AddItem(a, t, i))
    BY <2>5, AddItemInv
  <2>7. tile' = AddItem(a, t, i)
    BY <1>1, <2>2, <2>3 DEF PutItem, Becomes, Named, Renamed
  <2> QED
    BY <2>6, <2>7
<1>2. ASSUME NEW i \in Items, TakeItem(i) PROVE Goal
  <2>1. Site(i) \in Squares /\ i \in On(tile, Site(i))
    BY <1>2, SiteIs DEF TakeItem
  <2>2. TileInv(Dropped(tile, Site(i), i))
    BY <1>0, <2>1, DroppedInv
  <2> QED
    BY <1>2, <2>2 DEF TakeItem, Becomes
<1>3. ASSUME NEW i \in Items, TakeCoin(i) PROVE Goal
  <2>1. Site(i) \in Squares /\ i \in On(tile, Site(i))
    BY <1>3, SiteIs DEF TakeCoin
  <2>2. TileInv(TakePart(tile, Site(i), i))
    BY <1>0, <1>3, <2>1, TakePartInv DEF TakeCoin
  <2> QED
    BY <1>3, <2>2 DEF TakeCoin, Becomes
<1>4. ASSUME NEW i \in Items, NEW t \in Squares, ThrowItem(i, t) PROVE Goal
  <2>1. Site(i) \in Squares /\ i \in On(tile, Site(i))
    BY <1>4, SiteIs DEF ThrowItem
  <2>2. TileInv(MoveItem(tile, Site(i), t, i))
    BY <1>0, <2>1, MoveItemInv
  <2> QED
    BY <1>4, <2>2 DEF ThrowItem, Becomes
<1>5. ASSUME NEW i \in Items, NEW k \in ItemKinds, TransformItem(i, k) PROVE Goal
  <2>1. Site(i) \in Squares /\ i \in On(tile, Site(i))
    BY <1>5, SiteIs DEF TransformItem
  <2>2. Fresh \in Items \ Lying(tile)
    BY <1>0, <1>5, FreshIs DEF TransformItem
  <2>3. TileInv(Transform(tile, Site(i), i, Fresh, k))
    BY <1>0, <2>1, <2>2, TransformInv
  <2> QED
    BY <1>5, <2>3 DEF TransformItem, Becomes
<1>6. ASSUME NEW t \in Squares, DigGround(t) PROVE Goal
  BY <1>0, <1>6, RemoveGroundInv DEF DigGround, Becomes
<1>7. ASSUME NEW t \in Squares, NEW k \in Grounds, NewGround(t, k) PROVE Goal
  BY <1>0, <1>7, ChangeGroundInv DEF NewGround, Becomes
<1>8. Shape(tile)
  BY <1>0 DEF TileInv
<1>9. ASSUME NEW c \in Creatures, NEW t \in Squares, Appear(c, t) PROVE Goal
  BY <1>0, <1>8, <1>9, PlaceAlike, AlikeInv DEF Appear, Becomes
<1>10. ASSUME NEW c \in Creatures, NEW t \in Squares, Disappear(c, t) PROVE Goal
  BY <1>0, <1>8, <1>10, RemoveCreatureAlike, AlikeInv DEF Disappear, Becomes
<1>11. ASSUME NEW c \in Creatures, NEW from \in Squares, NEW to \in Squares, NEW force \in BOOLEAN,
              Walk(c, from, to, force)
       PROVE Goal
  BY <1>0, <1>8, <1>11, MoveCreatureAlike, AlikeInv DEF Walk, Becomes
<1>12. ASSUME NEW c \in Creatures, NEW t \in Squares, Hide(c, t) PROVE Goal
  BY <1>0, <1>8, <1>12, HidingAlike, AlikeInv DEF Hide, Becomes
<1>13. ASSUME NEW c \in Creatures, NEW t \in Squares, Show(c, t) PROVE Goal
  BY <1>0, <1>8, <1>13, HidingAlike, AlikeInv DEF Show, Becomes
<1>14. ASSUME NEW b \in Browsers, NEW t \in Squares, Browse(b, t) PROVE Goal
  BY <1>0, <1>14, BrowseInv DEF Browse, Becomes
<1>15. ASSUME NEW b \in Browsers, NEW t \in Squares, MoveUp(b, t) PROVE Goal
  BY <1>0, <1>15, BrowseInv DEF MoveUp, Becomes
<1>16. ASSUME NEW b \in Browsers, NEW t \in Squares, WalkAway(b, t) PROVE Goal
  BY <1>0, <1>16, CloseAllInv DEF WalkAway, Becomes
<1>17. ASSUME NEW b \in Browsers, NEW n \in Squares \cup {Extra}, Close(b, n) PROVE Goal
  BY <1>0, <1>17, CloseContainerInv DEF Close, Becomes
<1>18. ASSUME NEW b \in Browsers, LogOut(b) PROVE Goal
  BY <1>0, <1>18, LogoutInv DEF LogOut, Becomes
<1>19. ASSUME NEW t \in Squares, BrowseTimer(t) PROVE Goal
  BY <1>0, <1>19, BrowseTimerInv DEF BrowseTimer, Becomes
<1> HIDE DEF Goal
<1> QED
  BY <1>1, <1>2, <1>3, <1>4, <1>5, <1>6, <1>7, <1>9, <1>10, <1>11, <1>12, <1>13, <1>14, <1>15,
     <1>16, <1>17, <1>18, <1>19 DEF TilesNext

\* The tiles are right in every state.
LEMMA AlwaysRight ==
  ASSUME TilesAssumption
  PROVE  TilesSpec => []Right
<1>1. tile = Bare => Right
  BY BareRight DEF Right
<1>2. Right /\ [TilesNext]_tile => Right'
  <2> SUFFICES ASSUME Right, [TilesNext]_tile PROVE Right'
    OBVIOUS
  <2>1. CASE TilesNext
    BY <2>1, RightStep
  <2>2. CASE UNCHANGED tile
    BY <2>2 DEF Right
  <2> QED
    BY <2>1, <2>2
<1> QED
  BY <1>1, <1>2, PTL DEF TilesSpec

\* The cached flags tell what the items and the ground of a tile are like, whatever
\* was put, taken, thrown, transformed or dug there (tile.cpp, setTileFlags and
\* resetTileFlags).
THEOREM FlagsAreRight ==
  ASSUME TilesAssumption
  PROVE  TilesSpec => []FlagsAgree
<1>1. Right => FlagsAgree
  BY DEF Right, TileInv, FlagsOK, FlagsAt, FlagsAgree
<1> QED
  BY <1>1, AlwaysRight, PTL

\* A list without an element twice is as long as it has elements.
LEMMA DistinctLen ==
  ASSUME NEW X, NEW q \in Seq(X), Distinct(q)
  PROVE  Len(q) = Cardinality(Elems(q))
<1>1. q \in Bijection(1..Len(q), Elems(q))
  BY DEF Distinct, Elems, Bijection, Injection, Surjection, IsInjective
<1>2. IsFiniteSet(1..Len(q)) /\ Cardinality(1..Len(q)) = Len(q)
  <2>1. Len(q) \in Int /\ 1 \in Int /\ Len(q) >= 0
    OBVIOUS
  <2>2. /\ IsFiniteSet(1..Len(q))
        /\ Cardinality(1..Len(q)) = IF 1 > Len(q) THEN 0 ELSE Len(q) - 1 + 1
    BY <2>1, FS_Interval
  <2> QED
    BY <2>1, <2>2
<1> QED
  BY <1>1, <1>2, FS_Bijection DEF ExistsBijection

\* A browsed tile and its container hold the same movable items, each item has the
\* parent it should have, and the container lives as long as it is referred to
\* (game.cpp, playerBrowseField; container.cpp, ~Container).
THEOREM BrowsingIsRight ==
  ASSUME TilesAssumption
  PROVE  TilesSpec => []BrowseAgrees
<1>1. Right => BrowseAgrees
  <2> SUFFICES ASSUME TileInv(tile), ~tile.dangling PROVE BrowseAgrees
    BY DEF Right, BrowseAgrees
  <2>1. ListsOK(tile) /\ RefsOK(tile)
    BY DEF TileInv
  <2>2. ASSUME NEW t \in Squares
        PROVE  /\ t \in tile.browsed <=> tile.refs[t] > 0
               /\ tile.refs[t] = (IF t \in tile.timer THEN 1 ELSE 0) + tile.leaked[t]
                             + Cardinality({x \in Browsers \X (Squares \cup {Extra}) :
                                              tile.opened[x[1]][x[2]] = t})
    BY <2>1 DEF RefsOK, Holders
  <2>3. ASSUME NEW t \in Squares
        PROVE  Len(tile.list[t]) = Cardinality(Elems(tile.list[t]))
    BY <2>1, DistinctLen DEF ListsOK, ListOK
  <2>4. ASSUME NEW t \in Squares, t \in tile.browsed
        PROVE  Elems(tile.list[t]) \ tile.stuck
                 = {i \in On(tile, t) : tile.kind[i] \in Movables} \ tile.missed
    BY <2>1, <2>4 DEF ListsOK, ListOK, ListedRight
  <2>5. ASSUME NEW i \in Items
        PROVE  IF Lies(i)
               THEN tile.parent[i] \in {Site(i)}
                      \cup (IF Listed(tile, Site(i), i) THEN {Field} ELSE {})
               ELSE tile.parent[i] = NoItem
    <3>1. CASE Lies(i)
      <4>1. PICK t \in Squares : t = Site(i) /\ i \in On(tile, t)
        BY <3>1, SiteIs
      <4>2. ListOK(tile, t)
        BY <2>1 DEF ListsOK
      <4>3. i \in Elems(tile.list[t]) => t \in tile.browsed
        BY <4>2 DEF ListOK, Elems
      <4> QED
        BY <3>1, <4>1, <4>2, <4>3 DEF ListOK, Listed
    <3>2. CASE ~Lies(i)
      <4>1. i \in Items \ Lying(tile)
        BY <3>2 DEF Lies, Lying
      <4> QED
        BY <2>1, <3>2, <4>1 DEF ListsOK
    <3> QED
      BY <3>1, <3>2
  <2> QED
    BY <2>2, <2>3, <2>4, <2>5 DEF BrowseAgrees
<1> QED
  BY <1>1, AlwaysRight, PTL
=============================================================================
