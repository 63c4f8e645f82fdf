------------------------------- MODULE Decay --------------------------------
(***************************************************************************)
(* Items that decay (game.cpp: startDecay, checkDecay, internalDecayItem,  *)
(* transformItem, cleanup; item.cpp: setID, canDecay).  An item that       *)
(* decays is in toDecayItems until the next clean-up, and then in one of   *)
(* the buckets that checkDecay visits in turn, one every 250 ms; each      *)
(* visit takes a round off its duration.  Meanwhile it is used, worn,      *)
(* taken off and removed.  A reference is counted for the place it is in,  *)
(* for each list it is in and for each release that is due.                *)
(*                                                                         *)
(* A tick is 250 ms, and durations are in ticks.                           *)
(***************************************************************************)
EXTENDS Integers, FiniteSetsExt

CONSTANTS
  Objects,    \* addresses of items
  Kinds,
  DecayTo,    \* per kind: the kind it decays to, NoItem, or Never
  DecayTime,
  StopTime,   \* the kinds that keep what is left of their duration
  UsedTo,     \* per kind: the kind it is transformed to by a use, an equip or a de-equip
  Class,      \* per kind: ItemType::type; across these a new object is made
  NoItem,
  Never,
  MaxListed   \* bound: how often an item is in the lists

Buckets == 4  \* EVENT_DECAY_BUCKETS

ASSUME DecayAssumption ==
  /\ DecayTo \in [Kinds -> Kinds \cup {NoItem, Never}] /\ NoItem \notin Kinds /\ Never \notin Kinds
  /\ DecayTime \in [Kinds -> Nat] /\ UsedTo \in [Kinds -> Kinds \cup {Never}] /\ StopTime \subseteq Kinds
  /\ NoItem # Never /\ MaxListed \in Nat \ {0} /\ IsFiniteSet(Objects)

\* What items.xml has: a kind that keeps its time does not decay and nothing decays into
\* it, only one that decays is put down as such a kind; and a use does not change the class.
ASSUME KindsAssumption ==
  /\ \A k \in StopTime : DecayTo[k] = Never
  /\ \A k \in Kinds : DecayTo[k] \notin StopTime
  /\ \A k \in Kinds : UsedTo[k] # Never =>
       /\ Class[UsedTo[k]] = Class[k]
       /\ UsedTo[k] \in StopTime => DecayTo[k] # Never /\ DecayTime[k] > 0

VARIABLES
  items,       \* per address: see Unmade
  toDecay,     \* toDecayItems, how often each is in it
  decayItems,  \* per bucket: how often each is in it
  toRelease,   \* ToReleaseItems, how often each is in it
  lastBucket

decayVars == <<items, toDecay, decayItems, toRelease, lastBucket>>

\* duration: None of it is -1.  age and left are history: the ticks since the item
\* began to decay as this kind, and the duration it had then.
Unmade == [kind |-> NoItem, placed |-> FALSE, duration |-> -1, decaying |-> FALSE,
           refs |-> 0, age |-> 0, left |-> 0]
Zero == [i \in Objects |-> 0]

DecayInit ==
  /\ items = [i \in Objects |-> Unmade]
  /\ toDecay = Zero /\ toRelease = Zero
  /\ decayItems = [b \in 0..Buckets-1 |-> Zero]
  /\ lastBucket = 0
-----------------------------------------------------------------------------
(* Handlers are functions of the lists and items, S.                       *)

Store == [items |-> items, toDecay |-> toDecay, toRelease |-> toRelease]

Made(S) == {i \in Objects : S.items[i].kind # NoItem}
InBuckets(i) ==
  decayItems[0][i] + decayItems[1][i] + decayItems[2][i] + decayItems[3][i]

\* Item::canDecay
CanDecay(it) ==
  it.placed /\ it.kind # NoItem /\ DecayTo[it.kind] # Never /\ DecayTime[it.kind] > 0

\* A new object of a kind, with a reference of its place (Item::CreateItem).
New(k) == [Unmade EXCEPT !.kind = k, !.placed = TRUE, !.refs = 1,
                         !.duration = IF DecayTime[k] > 0 THEN DecayTime[k] ELSE -1]

\* Item::setID
SetID(it, k) ==
  LET plain == DecayTime[k] = 0 /\ k \notin StopTime /\ DecayTo[k] = Never
      fresh == DecayTime[k] > 0 /\ (it.kind \notin StopTime \/ it.duration = -1)
  IN [it EXCEPT !.kind = k,
                !.decaying = @ /\ ~plain /\ ~fresh,
                !.duration = IF plain THEN -1 ELSE IF fresh THEN DecayTime[k] ELSE @]

Release(S, i) == [S EXCEPT !.toRelease[i] = @ + 1]

\* Game::internalRemoveItem
InternalRemoveItem(S, i) == Release([S EXCEPT !.items[i].placed = FALSE], i)

Decaying(it) == [it EXCEPT !.refs = @ + 1, !.decaying = TRUE]

\* Mutant: the list does not count as a reference.
StartDecay_uncounted(S, i) ==
  IF ~CanDecay(S.items[i]) \/ S.items[i].decaying THEN S
  ELSE [S EXCEPT !.items[i].decaying = TRUE, !.toDecay[i] = @ + 1]

\* Game::startDecay.  A kind that decays has a duration: setID or New gave it one.
StartDecay(S, i) ==
  IF ~CanDecay(S.items[i]) \/ S.items[i].decaying THEN S
  ELSE [S EXCEPT !.items[i] = Decaying(@), !.toDecay[i] = @ + 1]

\* What is measured starts again.
Measured(it) == [it EXCEPT !.age = 0, !.left = it.duration]
Restarted(S, i) == [S EXCEPT !.items[i] = Measured(@)]

\* Game::transformItem, and startDecay of what it returns: within a class the object
\* changes its id where it is, also in the lists; across classes j takes its place.
Transform(S, i, k, j) ==
  LET same == Class[k] = Class[S.items[i].kind]
      T == IF same THEN [S EXCEPT !.items[i] = SetID(@, k)]
                   ELSE InternalRemoveItem([S EXCEPT !.items[j] = New(k)], i)
      n == IF same THEN i ELSE j
  IN Restarted(StartDecay(T, n), n)

\* Game::internalDecayItem
DecayItem(S, i, j) ==
  IF DecayTo[S.items[i].kind] = NoItem THEN InternalRemoveItem(S, i)
                                       ELSE Transform(S, i, DecayTo[S.items[i].kind], j)

\* Game::cleanup: what is released first, and an item goes into the bucket that is
\* visited last, or next if it has less than a round left.
Bucket(it, last) == IF it.duration >= Buckets THEN last ELSE (last + 1) % Buckets

Unref(it, n) == IF it.refs = n THEN Unmade ELSE [it EXCEPT !.refs = @ - n]

Cleanup(S, lists, last) ==
  /\ items' = [i \in Objects |->
       IF i \in Made(S) THEN Unref(S.items[i], S.toRelease[i]) ELSE Unmade]
  /\ decayItems' = [b \in 0..Buckets-1 |-> [i \in Objects |->
       lists[b][i] + (IF i \in Made(S) /\ Bucket(S.items[i], last) = b THEN S.toDecay[i] ELSE 0)]]
  /\ toDecay' = Zero /\ toRelease' = Zero
-----------------------------------------------------------------------------
Unused(S, j) == S.items[j].kind = NoItem
Listed(i) == toDecay[i] + InBuckets(i)

StoreIs(S) ==
  items' = S.items /\ toDecay' = S.toDecay /\ toRelease' = S.toRelease

\* An item is made, or loaded with what was left of its duration, and starts to decay.
Create(i, k, d) ==
  /\ Unused(Store, i) /\ (DecayTime[k] > 0 => d \in 1..DecayTime[k]) /\ (DecayTime[k] = 0 => d = -1)
  /\ StoreIs(Restarted(StartDecay([Store EXCEPT !.items[i] = [New(k) EXCEPT !.duration = d]], i), i))
  /\ UNCHANGED <<decayItems, lastBucket>>

\* A use (decayto.lua), an equip or a de-equip (movement.cpp).
Use(i) ==
  /\ items[i].placed /\ UsedTo[items[i].kind] # Never /\ Listed(i) < MaxListed
  /\ StoreIs(Transform(Store, i, UsedTo[items[i].kind], i))
  /\ UNCHANGED <<decayItems, lastBucket>>

TakeAway(i) ==
  /\ items[i].placed
  /\ StoreIs(InternalRemoveItem(Store, i))
  /\ UNCHANGED <<decayItems, lastBucket>>

\* Game::checkCreatures ends with a clean-up, too.
CleanupBetween == Cleanup(Store, decayItems, lastBucket) /\ UNCHANGED lastBucket

\* Mutant: what is left of a round waits for the next one.
Ends_late(left) == left = 0

\* With less than a round left the next bucket would be this one again (in the
\* milliseconds of a tick, divided by 1000), and the item decays at once.  The code
\* has another bucket for 875 to 999 ms, which no item comes to: durations are whole
\* seconds (items.xml), and a visit takes a second off or all that is left.
Ends(left) == left < Buckets

\* An entry of the bucket is visited: what becomes of the item, and whether it stays.
\* If it turns into an object of another class, j is new.
Visit(S, i, j) ==
  LET it == S.items[i]
      left == IF it.duration < Buckets THEN 0 ELSE it.duration - Buckets
      spent == [S EXCEPT !.items[i].duration = left]
  IN IF ~CanDecay(it) THEN [store |-> Release([S EXCEPT !.items[i].decaying = FALSE], i), stays |-> 0]
     ELSE IF Ends(left) THEN [store |-> Release(DecayItem(spent, i, j), i), stays |-> 0]
     ELSE [store |-> spent, stays |-> 1]

\* A free address, if there is one.
Spare(S) == CHOOSE j \in Objects : Made(S) # Objects => Unused(S, j)

NextBucket == (lastBucket + 1) % Buckets

\* The entries of the bucket that is due.
Entries == {e \in Objects \X (1..MaxListed) : e[2] <= decayItems[NextBucket][e[1]]}

\* Everything that decays has grown a tick older.
Aged == [Store EXCEPT !.items = [i \in Objects |->
           IF Listed(i) > 0 /\ CanDecay(items[i]) THEN [items[i] EXCEPT !.age = @ + 1] ELSE items[i]]]

VisitNext(e, acc) ==
  LET v == Visit(acc.store, e[1], Spare(acc.store))
  IN [store |-> v.store, kept |-> [acc.kept EXCEPT ![e[1]] = @ + v.stays]]

\* Game::checkDecay, once a tick, with a clean-up at its end.  Bound: addresses do not run out.
CheckDecay ==
  LET end == FoldSet(VisitNext, [store |-> Aged, kept |-> Zero], Entries)
  IN /\ Made(end.store) # Objects
     /\ lastBucket' = NextBucket
     /\ Cleanup(end.store, [decayItems EXCEPT ![NextBucket] = end.kept], NextBucket)

\* Items do not meet here: one at a time.
DecayNext ==
  \/ Made(Store) = {} /\ \E i \in Objects, k \in Kinds : \E d \in -1..DecayTime[k] : Create(i, k, d)
  \/ \E i \in Objects : Use(i) \/ TakeAway(i)
  \/ CleanupBetween \/ CheckDecay
-----------------------------------------------------------------------------
\* The references of an item are those of its place, of the lists it is in and of the
\* releases that are due, whatever is done to it while it is in a list: it is freed
\* when the last of them goes, and no list keeps an item that is freed.  And what can
\* decay and is marked as decaying is in a list, or it would never decay (game.cpp:4401).
\* (The mark alone may stay: items.xml has a corpse, 8273, that turns into one with
\* something to decay to, 8274, and no time to do it in.)
ItemsCounted ==
  \A i \in Objects :
    /\ items[i].refs = (IF items[i].placed THEN 1 ELSE 0) + Listed(i) + toRelease[i]
    /\ items[i].decaying /\ CanDecay(items[i]) => Listed(i) > 0

\* An item decays at most a tick late, and at most two rounds early: one for
\* the phase in which it was put on, one for the rest that is not waited for.  An
\* item that is used while it decays is in the lists twice and goes twice as fast.
DecaysInTime ==
  lastBucket' # lastBucket =>
    \A i \in Objects : CanDecay(items[i]) /\ Listed(i) <= 1 =>
      IF items'[i].placed /\ items'[i].kind = items[i].kind
      THEN items[i].age + 1 <= items[i].left
      ELSE items[i].age + 1 >= items[i].left - 2 * (Buckets - 1)
=============================================================================
