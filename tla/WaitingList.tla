---------------------------- MODULE WaitingList ----------------------------
(***************************************************************************)
(* The login queue of a full server (src/src/waitlist.cpp): a list for     *)
(* premium accounts and one for the others, both of entries with a timeout *)
(* that every retry renews.  A client tries to log in, is told its place   *)
(* and when to come back, and does so in time, late, or never.             *)
(*                                                                         *)
(* Two facts of the C++ are kept.  cleanupList subtracts in an unsigned    *)
(* type (std::size_t, 64 bits), so its test "<= 0" holds only on equality. *)
(* And clientLogin erases from waitList whichever list the iterator is of: *)
(* libstdc++ unlinks the node where it is and decrements waitList's size.  *)
(***************************************************************************)
EXTENDS Integers, Sequences, SequencesExt, FiniteSets

CONSTANTS
  Players,
  Premium,     \* players with premium time
  Exempt,      \* players the list lets through at once
  MaxPlayers,  \* the configured limit
  MaxTime,     \* bound: the clock stops here
  FarSlot,     \* getTime asks for a short wait below this slot,
  ShortRetry,  \* in ticks,
  LongRetry,   \* and for a long one from it on
  Slack,       \* what getTimeout adds to it
  MaxSize,     \* bound: priorityWaitList.size() stays below
  SizeMod      \* 2^64 in the code

ASSUME WaitingAssumption ==
  /\ Premium \subseteq Players /\ Exempt \subseteq Players
  /\ {MaxPlayers, MaxTime, FarSlot, ShortRetry, LongRetry, Slack, MaxSize} \subseteq Nat
  /\ SizeMod \in Nat /\ SizeMod > MaxSize

VARIABLES
  priorityWaitList,
  waitList,
  prioritySize, \* priorityWaitList.size()
  waitSize,     \* waitList.size()
  online,
  now,
  told          \* history: the place each client was told, and when to come back

lists == <<priorityWaitList, waitList, prioritySize, waitSize>>
listVars == <<lists, online, now, told>>

Entry(p, t) == [playerGUID |-> p, timeout |-> t]
Line(a, b) == a \o b
Waits(l, p) == \E i \in DOMAIN l : l[i].playerGUID = p

NotTold == [slot |-> 0, back |-> 0]

ListInit ==
  /\ priorityWaitList = <<>> /\ waitList = <<>>
  /\ prioritySize = 0 /\ waitSize = 0
  /\ online = {} /\ now = 0
  /\ told = [p \in Players |-> NotTold]
-----------------------------------------------------------------------------
\* cleanupList: the unsigned difference is never below zero.
IsStale(e) == e.timeout - now = 0
Cleaned(l) == SelectSeq(l, LAMBDA e : ~IsStale(e))
Gone(l) == Len(l) - Len(Cleaned(l))

\* getTime in two classes, and getTimeout.
RetryTime(slot) == IF slot < FarSlot THEN ShortRetry ELSE LongRetry
Timeout(slot) == now + RetryTime(slot) + Slack

\* findClient: the place of p among the entries of both lists.
SlotIn(l, p) == CHOOSE i \in DOMAIN l : l[i].playerGUID = p

\* The player is waved through, without a look at the lists.
LetsIn(p) ==
  \/ p \in Exempt
  \/ MaxPlayers = 0
  \/ priorityWaitList = <<>> /\ waitList = <<>> /\ Cardinality(online) < MaxPlayers

LoginAtOnce(p) ==
  /\ LetsIn(p)
  /\ told' = [told EXCEPT ![p] = NotTold]
  /\ UNCHANGED lists

\* Both lists have been cleaned; a and b are what is left of them.
HasPlace(slot) == Cardinality(online) + slot <= MaxPlayers

Renewed(l, p, slot) ==
  [i \in DOMAIN l |-> IF l[i].playerGUID = p THEN Entry(p, Timeout(slot)) ELSE l[i]]
Without(l, p) == SelectSeq(l, LAMBDA e : e.playerGUID # p)

\* size() of both lists behind the clean-up, and what a push or an erase adds.
CleanPriority == prioritySize - Gone(priorityWaitList)
CleanWait == waitSize - Gone(waitList)
CleanSizes(d, e) ==
  /\ prioritySize' = (CleanPriority + d) % SizeMod
  /\ waitSize' = (CleanWait + e) % SizeMod

\* ProtocolGame::login asks for the place a second time and tells the client.
TellPlace(t, p, line) ==
  LET slot == SlotIn(line, p)
  IN told' = [t EXCEPT ![p] = [slot |-> slot, back |-> now + RetryTime(slot)]]

\* The client's turn has come.
LoginFromList(p) ==
  LET a == Cleaned(priorityWaitList)
      b == Cleaned(waitList)
  IN /\ ~LetsIn(p)
     /\ Waits(Line(a, b), p) /\ HasPlace(SlotIn(Line(a, b), p))
     /\ priorityWaitList' = Without(a, p) /\ waitList' = Without(b, p)
     /\ CleanSizes(0, -1)
     /\ told' = [told EXCEPT ![p] = NotTold]

\* "let them wait a bit longer"
WaitLonger(p) ==
  LET a == Cleaned(priorityWaitList)
      b == Cleaned(waitList)
      slot == SlotIn(Line(a, b), p)
  IN /\ ~LetsIn(p)
     /\ Waits(Line(a, b), p) /\ ~HasPlace(slot)
     /\ priorityWaitList' = Renewed(a, p, slot) /\ waitList' = Renewed(b, p, slot)
     /\ CleanSizes(0, 0)
     /\ TellPlace(told, p, Line(a, b))

\* The place from which clientLogin reckons the timeout of a new entry.
NewSlot_own(p) == (IF p \in Premium THEN CleanPriority ELSE CleanWait) + 1
NewSlot(p) ==
  (IF p \in Premium THEN CleanPriority ELSE (CleanPriority + CleanWait) % SizeMod) + 1

\* A new client goes to the end of its list.
Joined(l, p) == Append(l, Entry(p, Timeout(NewSlot(p))))

\* A premium client goes ahead of the others, whose places move down by one.
MovedDown(p) ==
  [q \in Players |-> IF p \in Premium /\ q \notin Premium /\ told[q] # NotTold
                     THEN [told[q] EXCEPT !.slot = @ + 1] ELSE told[q]]

Queue(p) ==
  LET a == Cleaned(priorityWaitList)
      b == Cleaned(waitList)
  IN /\ ~LetsIn(p)
     /\ ~Waits(Line(a, b), p)
     /\ IF p \in Premium
        THEN /\ CleanPriority < MaxSize
             /\ priorityWaitList' = Joined(a, p) /\ waitList' = b
             /\ CleanSizes(1, 0)
        ELSE /\ priorityWaitList' = a /\ waitList' = Joined(b, p)
             /\ CleanSizes(0, 1)
     /\ TellPlace(MovedDown(p), p, Line(priorityWaitList', waitList'))

\* clientLogin answers yes or no; online changes when the player is placed.
LetIn(p) == LoginAtOnce(p) \/ LoginFromList(p)
HeldBack(p) == WaitLonger(p) \/ Queue(p)
-----------------------------------------------------------------------------
(* Clients that come and go, or never come back, with nothing but the list *)
(* between them and the game.                                              *)

ClientLogin(p) ==
  /\ p \notin online
  /\ \/ LetIn(p) /\ online' = online \cup {p}
     \/ HeldBack(p) /\ UNCHANGED online
  /\ UNCHANGED now

Leave(p) ==
  /\ p \in online
  /\ online' = online \ {p}
  /\ UNCHANGED <<lists, now, told>>

Tick ==
  /\ now < MaxTime
  /\ now' = now + 1
  /\ UNCHANGED <<lists, online, told>>

ListNext == (\E p \in Players : ClientLogin(p) \/ Leave(p)) \/ Tick

ListSpec == ListInit /\ [][ListNext]_listVars
-----------------------------------------------------------------------------

\* A client that comes back when it was told to, or before, is not worse off
\* than it was told: it still has its entry, and its place is no later than it
\* was but for premium clients that came since.  So whatever others do (come,
\* come back, stay away, give up, find a place), the entry outlives the retry
\* time, although it is reckoned from sizes that erase has made wrong
\* (waitlist.cpp:57-61, 126-145; protocolgame.cpp:112-115).
PlacesAreKept ==
  \A p \in Players :
    told[p] # NotTold /\ now <= told[p].back =>
      LET line == Line(priorityWaitList, waitList)
      IN Waits(line, p) /\ SlotIn(line, p) <= told[p].slot

\* "timeout is set to 15 seconds longer than expected retry attempt"
\* (waitlist.cpp:59): an entry whose timeout has passed does not survive the
\* clean-up of the next login that looks at the lists.
StaleIsDropped ==
  [][\A p \in Players :
       HeldBack(p) => \A e \in Range(Line(priorityWaitList', waitList')) : e.timeout > now]_listVars
=============================================================================
