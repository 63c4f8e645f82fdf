--------------------------- MODULE DealingsProofs ---------------------------
(***************************************************************************)
(* What each operation of the modules Party, Trade and Market does to their*)
(* invariants, for any players, parties, items, containers and offers;     *)
(* TownProofs adds the log-ins, log-outs and restarts.                     *)
(***************************************************************************)
EXTENDS Party, Trade, Market, DataInduction

(* Parties: the invariant.                                                 *)

Group == [leader : Players \cup {None}, members : Seq(Players), invited : SUBSET Players]

\* The members of a party as a set, and that none is in the list twice.
Mem(s) == {s[i] : i \in 1..Len(s)}
Once(s) == \A i, j \in 1..Len(s) : s[i] = s[j] => i = j

\* The three variables of the parties, S, as the handlers take them together.
States ==
  [group : [Parties -> Group], party : [Players -> Parties \cup {None}],
   invitations : [Players -> SUBSET Parties]]

Has(g, p) == g.leader = p \/ p \in Mem(g.members)

\* A leader is not a member, and a party without one has been deleted.
Sound(g) == Once(g.members) /\ g.leader \notin Mem(g.members) /\ (g.leader = None => g = NoGroup)

Linked(S, x) ==
  \A p \in Players :
    /\ S.party[p] = x <=> Has(S.group[x], p)
    /\ Has(S.group[x], p) => p \notin S.group[x].invited

InvitesAgree(S) ==
  \A p \in Players, x \in Parties : x \in S.invitations[p] <=> p \in S.group[x].invited

\* A party that nobody else is in or waits for has disbanded.
Lasts(g) == g.leader # None => ~Empty(g)

Settled(S) ==
  /\ S \in States
  /\ \A x \in Parties : Linked(S, x) /\ Sound(S.group[x]) /\ Lasts(S.group[x])
  /\ InvitesAgree(S)

\* Who is in or waits for a party is in the game.
PartiesArePresent == \A p \in Players \ online : party[p] = None /\ invitations[p] = {}

PartyInv == Settled(Now) /\ PartiesArePresent
-----------------------------------------------------------------------------
(* Lists of members.                                                       *)

\* A list of players is empty when nobody is on it.
LEMMA NoMember == \A s \in Seq(Players) : s = <<>> <=> Mem(s) = {}
<1> SUFFICES ASSUME NEW s \in Seq(Players) PROVE s = <<>> <=> Mem(s) = {}
  OBVIOUS
<1>1. s # <<>> => Len(s) \in Nat \ {0}
  BY EmptySeq
<1>2. s # <<>> => s[1] \in Mem(s)
  BY <1>1 DEF Mem
<1>3. s = <<>> => Mem(s) = {}
  BY DEF Mem
<1> QED
  BY <1>2, <1>3

\* Contains finds exactly the elements.
LEMMA IsMember == \A s \in Seq(Players) : \A p : Contains(s, p) <=> p \in Mem(s)
BY DEF Contains, Mem

\* A member added at the end: joinParty.
LEMMA MemberAdded ==
  ASSUME NEW s \in Seq(Players), NEW p \in Players
  PROVE  /\ Append(s, p) \in Seq(Players) /\ Mem(Append(s, p)) = Mem(s) \cup {p}
         /\ Once(s) /\ p \notin Mem(s) => Once(Append(s, p))
<1> DEFINE t == Append(s, p)
           n == Len(s)
<1>1. /\ t \in Seq(Players) /\ Len(t) = n + 1 /\ n \in Nat
      /\ \A i \in 1..n : t[i] = s[i] /\ s[i] \in Players
      /\ t[n + 1] = p
  OBVIOUS
<1>2. 1..(n + 1) = (1..n) \cup {n + 1}
  BY <1>1
<1> HIDE DEF t, n
<1>3. Mem(t) = Mem(s) \cup {p}
  BY <1>1, <1>2 DEF Mem, n
<1>4. Once(s) /\ p \notin Mem(s) => Once(t)
  BY <1>1, <1>2 DEF Mem, Once, n
<1> QED
  BY <1>1, <1>3, <1>4 DEF t

\* A member added in front: passPartyLeadership.
LEMMA MemberFirst ==
  ASSUME NEW s \in Seq(Players), NEW p \in Players
  PROVE  /\ <<p>> \o s \in Seq(Players) /\ Mem(<<p>> \o s) = Mem(s) \cup {p}
         /\ Once(s) /\ p \notin Mem(s) => Once(<<p>> \o s)
<1> DEFINE t == <<p>> \o s
           n == Len(s)
<1>1. <<p>> \in Seq(Players) /\ Len(<<p>>) = 1 /\ <<p>>[1] = p /\ n \in Nat
  OBVIOUS
<1>2. /\ t \in Seq(Players) /\ Len(t) = 1 + n
      /\ \A i \in 1..(1 + n) : t[i] = IF i <= 1 THEN <<p>>[i] ELSE s[i - 1]
  BY <1>1, ConcatProperties
<1>3. /\ t[1] = p
      /\ \A i \in 1..n : t[i + 1] = s[i]
      /\ \A i \in 1..(1 + n) : i = 1 \/ (i - 1 \in 1..n /\ t[i] = s[i - 1])
  BY <1>1, <1>2
<1> HIDE DEF t, n
<1>4. Mem(t) = Mem(s) \cup {p}
  <2>1. ASSUME NEW q \in Mem(t) PROVE q \in Mem(s) \cup {p}
    BY <1>2, <1>3, <2>1 DEF Mem, n
  <2>2. ASSUME NEW q \in Mem(s) PROVE q \in Mem(t)
    <3>1. PICK i \in 1..n : q = s[i]
      BY <2>2 DEF Mem, n
    <3>2. i + 1 \in 1..(1 + n) /\ q = t[i + 1]
      BY <1>1, <1>3, <3>1
    <3> QED
      BY <1>2, <3>2 DEF Mem
  <2>3. p \in Mem(t)
    BY <1>1, <1>2, <1>3 DEF Mem
  <2> QED
    BY <2>1, <2>2, <2>3
<1>5. ASSUME Once(s), p \notin Mem(s) PROVE Once(t)
  <2>1. \A i \in 1..n : s[i] # p
    BY <1>5 DEF Mem, n
  <2> SUFFICES ASSUME NEW i \in 1..(1 + n), NEW j \in 1..(1 + n), t[i] = t[j] PROVE i = j
    BY <1>2 DEF Once
  <2>2. CASE i = 1 \/ j = 1
    BY <1>3, <2>1, <2>2
  <2>3. CASE i # 1 /\ j # 1
    <3>1. i - 1 \in 1..n /\ j - 1 \in 1..n /\ s[i - 1] = s[j - 1]
      BY <1>3, <2>3
    <3>2. i - 1 = j - 1
      BY <1>5, <3>1 DEF Once, n
    <3> QED
      BY <1>1, <3>2
  <2> QED
    BY <2>2, <2>3
<1> QED
  BY <1>2, <1>4, <1>5 DEF t

\* RemoveFirst takes a member off a list it is on once.
LEMMA MemberRemoved ==
  ASSUME NEW s \in Seq(Players), Once(s), NEW p \in Players
  PROVE  /\ RemoveFirst(s, p) \in Seq(Players) /\ Mem(RemoveFirst(s, p)) = Mem(s) \ {p}
         /\ Once(RemoveFirst(s, p))
<1>1. CASE p \notin Mem(s)
  <2>1. RemoveFirst(s, p) = s
    BY <1>1 DEF RemoveFirst, Mem
  <2> QED
    BY <1>1, <2>1
<1>2. CASE p \in Mem(s)
  <2>1. PICK i \in 1..Len(s) : s[i] = p
    BY <1>2 DEF Mem
  <2>2. {j \in 1..Len(s) : s[j] = p} = {i}
    BY <2>1 DEF Once
  <2>3. Min({i}) = i
    BY DEF Min
  <2>4. RemoveFirst(s, p) = SubSeq(s, 1, i - 1) \o SubSeq(s, i + 1, Len(s))
    BY <2>1, <2>2, <2>3 DEF RemoveFirst, RemoveAt, SelectInSeq
  <2> DEFINE n == Len(s)
             r == SubSeq(s, 1, i - 1) \o SubSeq(s, i + 1, n)
  <2>5. /\ SubSeq(s, 1, i - 1) \in Seq(Players) /\ Len(SubSeq(s, 1, i - 1)) = i - 1
        /\ \A j \in 1..(i - 1) : SubSeq(s, 1, i - 1)[j] = s[j]
    BY <2>1, SubSeqProperties
  <2>6. /\ SubSeq(s, i + 1, n) \in Seq(Players) /\ Len(SubSeq(s, i + 1, n)) = n - i
        /\ \A j \in 1..(n - i) : SubSeq(s, i + 1, n)[j] = s[i + j]
    <3>1. \A j \in (i + 1)..n : s[j] \in Players
      BY <2>1
    <3> QED
      BY <2>1, <3>1, SubSeqProperties
  <2>7. /\ r \in Seq(Players) /\ Len(r) = n - 1
        /\ \A j \in 1..(n - 1) : r[j] = IF j < i THEN s[j] ELSE s[j + 1]
    <3> DEFINE u == SubSeq(s, 1, i - 1)
               v == SubSeq(s, i + 1, n)
    <3>1. u \in Seq(Players) /\ v \in Seq(Players) /\ Len(u) = i - 1 /\ Len(v) = n - i
      BY <2>5, <2>6
    <3>2. /\ u \o v \in Seq(Players) /\ Len(u \o v) = Len(u) + Len(v)
          /\ \A j \in 1..(Len(u) + Len(v)) : (u \o v)[j] = IF j <= Len(u) THEN u[j] ELSE v[j - Len(u)]
      BY <3>1, ConcatProperties
    <3>3. n \in Nat /\ i \in 1..n
      BY <2>1
    <3>4. \A j \in 1..(n - 1) : IF j < i THEN u[j] = s[j] ELSE v[j - (i - 1)] = s[j + 1]
      <4> SUFFICES ASSUME NEW j \in 1..(n - 1)
                   PROVE  IF j < i THEN u[j] = s[j] ELSE v[j - (i - 1)] = s[j + 1]
        OBVIOUS
      <4>1. CASE j < i
        BY <2>5, <3>3, <4>1
      <4>2. CASE ~(j < i)
        <5>1. j - (i - 1) \in 1..(n - i) /\ i + (j - (i - 1)) = j + 1
          BY <3>3, <4>2
        <5> QED
          BY <2>6, <4>2, <5>1
      <4> QED
        BY <4>1, <4>2
    <3>5. r = u \o v
      OBVIOUS
    <3> HIDE DEF u, v, r, n
    <3>6. r \in Seq(Players) /\ Len(r) = n - 1
      BY <3>1, <3>2, <3>3, <3>5
    <3>7. \A j \in 1..(n - 1) : r[j] = IF j < i THEN u[j] ELSE v[j - (i - 1)]
      BY <3>1, <3>2, <3>3, <3>5
    <3> QED
      BY <3>4, <3>6, <3>7
  <2> HIDE DEF r
  <2>8. Once(r)
    BY <2>1, <2>7 DEF Once
  <2>9. Mem(r) = Mem(s) \ {p}
    <3>1. ASSUME NEW q \in Mem(r) PROVE q \in Mem(s) \ {p}
      BY <2>1, <2>7 DEF Mem, Once
    <3>2. ASSUME NEW q \in Mem(s) \ {p} PROVE q \in Mem(r)
      <4>1. PICK j \in 1..n : q = s[j] /\ j # i
        BY <2>1, <3>2 DEF Mem
      <4>2. CASE j < i
        BY <2>1, <2>7, <4>1, <4>2 DEF Mem
      <4>3. CASE j > i
        <5>1. j - 1 \in 1..(n - 1) /\ r[j - 1] = s[j]
          BY <2>1, <2>7, <4>1, <4>3
        <5> QED
          BY <2>7, <4>1, <5>1 DEF Mem
      <4> QED
        BY <2>1, <4>1, <4>2, <4>3
    <3> QED
      BY <3>1, <3>2
  <2> QED
    BY <2>4, <2>7, <2>8, <2>9 DEF r
<1> QED
  BY <1>1, <1>2
-----------------------------------------------------------------------------
(* What each operation does to the parties.                                *)

\* What a party that disbands has to have right: those that point to it are in it,
\* and those in it point to no other.
Ending(S, x) ==
  \A p \in Players :
    /\ S.party[p] = x => Has(S.group[x], p)
    /\ Has(S.group[x], p) => S.party[p] \in {x, None}

\* What a handler may do to the links of the others: take them away.
Fewer(S, T) ==
  \A p \in Players : T.party[p] \in {S.party[p], None} /\ T.invitations[p] \subseteq S.invitations[p]

\* Party::disband for a set of parties that are ending leaves the others as they
\* were, and no player or invitation points to those that ended.
LEMMA Disbanded ==
  ASSUME NEW S \in States, NEW X \in SUBSET Parties, InvitesAgree(S), \A x \in X : Ending(S, x),
         \A x \in Parties \ X : Linked(S, x) /\ Sound(S.group[x]) /\ Lasts(S.group[x])
  PROVE  Settled(DisbandIn(S, X)) /\ Fewer(S, DisbandIn(S, X))
<1> DEFINE D == DisbandIn(S, X)
<1>1. /\ S.group \in [Parties -> Group] /\ S.party \in [Players -> Parties \cup {None}]
      /\ S.invitations \in [Players -> SUBSET Parties]
  BY DEF States
<1>2. \A x \in Parties, p \in Players :
        Has(S.group[x], p) <=> S.group[x].leader = p \/ Contains(S.group[x].members, p)
  BY <1>1, IsMember DEF Has, Group
<1>3. D = [group |-> [x \in Parties |-> IF x \in X THEN NoGroup ELSE S.group[x]],
           party |-> [p \in Players |-> IF \E x \in X : Has(S.group[x], p) THEN None ELSE S.party[p]],
           invitations |-> [p \in Players |->
             {x \in S.invitations[p] : x \in X => p \notin S.group[x].invited}]]
  BY <1>2 DEF DisbandIn
<1>4. /\ D.group = [x \in Parties |-> IF x \in X THEN NoGroup ELSE S.group[x]]
      /\ D.party = [p \in Players |-> IF \E x \in X : Has(S.group[x], p) THEN None ELSE S.party[p]]
      /\ D.invitations = [p \in Players |->
           {x \in S.invitations[p] : x \in X => p \notin S.group[x].invited}]
  BY <1>3
<1>5. NoGroup \in Group /\ NoGroup.leader = None /\ NoGroup.invited = {} /\ Mem(NoGroup.members) = {}
  BY NoMember, EmptySeq DEF NoGroup, Group
<1>6. Sound(NoGroup) /\ Lasts(NoGroup) /\ \A p \in Players : ~Has(NoGroup, p)
  BY <1>5, RosterAssumption DEF Sound, Lasts, Has, Once, NoGroup
<1>7. D \in States
  <2>1. D.group \in [Parties -> Group] /\ D.party \in [Players -> Parties \cup {None}]
    BY <1>1, <1>4, <1>5
  <2>2. D.invitations \in [Players -> SUBSET Parties]
    BY <1>1, <1>4
  <2> QED
    BY <1>3, <2>1, <2>2 DEF States
<1> HIDE DEF D
<1>8. InvitesAgree(D)
  BY <1>1, <1>4, <1>5 DEF InvitesAgree
<1>9. ASSUME NEW x \in X PROVE Linked(D, x) /\ Sound(D.group[x]) /\ Lasts(D.group[x])
  <2>1. D.group[x] = NoGroup
    BY <1>4
  <2>2. \A p \in Players : D.party[p] # x
    <3> SUFFICES ASSUME NEW p \in Players, D.party[p] = x PROVE FALSE
      OBVIOUS
    <3>1. S.party[p] = x /\ ~Has(S.group[x], p)
      BY <1>4, PartyAssumption
    <3> QED
      BY <3>1 DEF Ending
  <2> QED
    BY <1>5, <1>6, <2>1, <2>2 DEF Linked
<1>10. ASSUME NEW x \in Parties \ X PROVE Linked(D, x) /\ Sound(D.group[x]) /\ Lasts(D.group[x])
  <2>1. D.group[x] = S.group[x]
    BY <1>4
  <2>2. \A p \in Players : D.party[p] = x <=> S.party[p] = x
    <3> SUFFICES ASSUME NEW p \in Players PROVE D.party[p] = x <=> S.party[p] = x
      OBVIOUS
    <3>1. ASSUME S.party[p] = x, NEW y \in X PROVE ~Has(S.group[y], p)
      <4>1. x # y /\ x # None
        BY PartyAssumption
      <4>2. Ending(S, y)
        OBVIOUS
      <4> QED
        BY <3>1, <4>1, <4>2 DEF Ending
    <3>2. D.party[p] = IF \E y \in X : Has(S.group[y], p) THEN None ELSE S.party[p]
      BY <1>4
    <3>3. x # None
      BY PartyAssumption
    <3> QED
      BY <3>1, <3>2, <3>3
  <2> QED
    BY <2>1, <2>2 DEF Linked
<1>11. Fewer(S, D)
  BY <1>1, <1>4 DEF Fewer
<1> QED
  BY <1>7, <1>8, <1>9, <1>10, <1>11 DEF Settled, D

\* Party::removeInvite for any of a player's invitations: a party left with neither
\* member nor invitation disbands.
LEMMA InvitesRemoved ==
  ASSUME NEW S, Settled(S), NEW p \in Players, NEW X \in SUBSET S.invitations[p]
  PROVE  LET D == RemoveInvitesIn(S, p, X)
         IN Settled(D) /\ Fewer(S, D) /\ D.invitations[p] \subseteq S.invitations[p] \ X
<1> DEFINE T == [group |-> [x \in Parties |-> IF x \in X THEN Uninviting(S.group[x], p) ELSE S.group[x]],
                 party |-> S.party,
                 invitations |-> [S.invitations EXCEPT ![p] = @ \ X]]
           G == T.group
           Y == {x \in X : Empty(G[x])}
<1>1. /\ S.group \in [Parties -> Group] /\ S.party \in [Players -> Parties \cup {None}]
      /\ S.invitations \in [Players -> SUBSET Parties] /\ X \subseteq Parties
  BY DEF Settled, States
<1>2. \A x \in Parties :
        /\ G[x] \in Group
        /\ G[x].leader = S.group[x].leader /\ G[x].members = S.group[x].members
        /\ G[x].invited = S.group[x].invited \ (IF x \in X THEN {p} ELSE {})
        /\ x \notin X => G[x] = S.group[x]
  BY <1>1 DEF Uninviting, Group
<1>3. T.party = S.party /\ T.invitations = [S.invitations EXCEPT ![p] = @ \ X]
  OBVIOUS
<1>4. T \in States
  <2>1. G \in [Parties -> Group]
    BY <1>2
  <2>2. T.invitations \in [Players -> SUBSET Parties]
    BY <1>1, <1>3
  <2> QED
    BY <1>1, <2>1, <2>2 DEF States
<1>5. RemoveInvitesIn(S, p, X) = DisbandIn(T, Y)
  BY DEF RemoveInvitesIn
<1> HIDE DEF T
<1>6. InvitesAgree(T)
  BY <1>1, <1>2, <1>3 DEF Settled, InvitesAgree
<1>7. ASSUME NEW x \in Parties PROVE Linked(T, x) /\ Ending(T, x)
  BY <1>1, <1>2, <1>3 DEF Settled, Linked, Ending, Has
<1>8. ASSUME NEW x \in Parties PROVE Sound(G[x])
  <2>1. Sound(S.group[x])
    BY DEF Settled
  <2>2. ASSUME G[x].leader = None PROVE G[x] = NoGroup
    <3>1. S.group[x] = NoGroup
      BY <1>2, <2>1, <2>2 DEF Sound
    <3>2. x \notin X
      BY <1>1, <3>1 DEF Settled, InvitesAgree, NoGroup
    <3> QED
      BY <1>2, <3>1, <3>2
  <2> QED
    BY <1>2, <2>1, <2>2 DEF Sound
<1>9. ASSUME NEW x \in Parties \ Y PROVE Lasts(G[x])
  <2>1. Lasts(S.group[x])
    BY DEF Settled
  <2> QED
    BY <1>2, <2>1 DEF Lasts, Empty
<1>10. Settled(DisbandIn(T, Y)) /\ Fewer(T, DisbandIn(T, Y))
  BY <1>1, <1>4, <1>6, <1>7, <1>8, <1>9, Disbanded
<1>11. \A q \in Players : T.invitations[q] \subseteq S.invitations[q] /\ T.party[q] = S.party[q]
  BY <1>1, <1>3
<1>12. T.invitations[p] = S.invitations[p] \ X
  BY <1>1, <1>3
<1> HIDE DEF Y
<1> QED
  BY <1>5, <1>10, <1>11, <1>12 DEF Fewer

\* The old leader becomes a member in the place of the new one.
LEMMA Passed ==
  ASSUME NEW g \in Group, Sound(g), g.leader \in Players, NEW p \in Mem(g.members)
  PROVE  LET h == PassedTo(g, p)
         IN /\ h \in Group /\ Sound(h) /\ h.leader = p /\ h.invited = g.invited
            /\ Mem(h.members) = (Mem(g.members) \ {p}) \cup {g.leader}
<1> DEFINE s == g.members
           r == RemoveFirst(s, p)
           h == PassedTo(g, p)
<1>1. /\ s \in Seq(Players) /\ Once(s) /\ g.leader \notin Mem(s) /\ p \in Players
      /\ g.invited \in SUBSET Players
  BY DEF Group, Sound, Mem
<1>2. r \in Seq(Players) /\ Mem(r) = Mem(s) \ {p} /\ Once(r)
  BY <1>1, MemberRemoved
<1> DEFINE m == <<g.leader>> \o r
<1>a. h = [g EXCEPT !.leader = p, !.members = m]
  BY DEF PassedTo
<1> HIDE DEF m
<1>3. /\ h.leader = p /\ h.invited = g.invited /\ h.members = m
      /\ h = [leader |-> p, members |-> m, invited |-> g.invited]
  BY <1>a DEF Group
<1> HIDE DEF r, h
<1>4. m \in Seq(Players) /\ Mem(m) = Mem(r) \cup {g.leader} /\ Once(m)
  BY <1>1, <1>2, MemberFirst DEF m
<1>5. h \in Group
  BY <1>1, <1>3, <1>4 DEF Group
<1>6. Sound(h)
  BY <1>1, <1>2, <1>3, <1>4, RosterAssumption DEF Sound
<1> QED
  BY <1>2, <1>3, <1>4, <1>5, <1>6 DEF h

\* Party::leaveParty, with what follows from it: the leadership passes on, or the
\* party disbands.
LEMMA Left ==
  ASSUME NEW S, Settled(S), NEW p \in Players, S.party[p] # None
  PROVE  /\ Settled(LeaveIn(S, p)) /\ Fewer(S, LeaveIn(S, p)) /\ LeaveIn(S, p).party[p] = None
<1> DEFINE x == S.party[p]
           g == S.group[x]
           h == IF g.leader = p /\ ~MissingLeader(g, p) THEN PassedTo(g, Head(g.members)) ELSE g
           k == [h EXCEPT !.members = RemoveFirst(@, p)]
           T == [group |-> [S.group EXCEPT ![x] = k], party |-> [S.party EXCEPT ![p] = None],
                 invitations |-> S.invitations]
           X == IF MissingLeader(g, p) \/ Empty(k) THEN {x} ELSE {}
<1>1. /\ S.group \in [Parties -> Group] /\ S.party \in [Players -> Parties \cup {None}]
      /\ S.invitations \in [Players -> SUBSET Parties] /\ x \in Parties /\ g \in Group
  BY DEF Settled, States
<1>2. /\ g.members \in Seq(Players) /\ g.leader \in Players /\ g.invited \in SUBSET Players
      /\ Sound(g) /\ Linked(S, x) /\ Has(g, p) /\ p \notin g.invited
  <2>1. Sound(g) /\ Linked(S, x)
    BY <1>1 DEF Settled
  <2>2. Has(g, p) /\ p \notin g.invited
    BY <1>1, <2>1 DEF Linked
  <2>3. g # NoGroup
    <3>1. NoGroup.leader \notin Players /\ Mem(NoGroup.members) = {}
      BY RosterAssumption, EmptySeq, NoMember DEF NoGroup
    <3> QED
      BY <2>2, <3>1 DEF Has
  <2> QED
    BY <1>1, <2>1, <2>2, <2>3 DEF Sound, Group
<1>3. /\ T.group = [S.group EXCEPT ![x] = k] /\ T.party = [S.party EXCEPT ![p] = None]
      /\ T.invitations = S.invitations
      /\ T = [group |-> T.group, party |-> T.party, invitations |-> T.invitations]
  OBVIOUS
<1>4. T.group[x] = k
  BY <1>1, <1>3
<1>5. LeaveIn(S, p) = DisbandIn(T, X)
  BY <1>4 DEF LeaveIn
<1> HIDE DEF T
\* Whether another leads or not: the ones in the party are the others.
<1>6. ASSUME ~MissingLeader(g, p)
      PROVE  /\ k \in Group /\ Sound(k) /\ k.leader # None /\ k.invited = g.invited
             /\ \A q \in Players : Has(k, q) <=> Has(g, q) /\ q # p
  <2>1. /\ h \in Group /\ Sound(h) /\ h.leader \in Players \ {p} /\ h.invited = g.invited
        /\ \A q \in Players : Has(h, q) <=> Has(g, q)
    <3>1. CASE g.leader = p
      <4>1. g.members # <<>>
        BY <1>6, <3>1 DEF MissingLeader
      <4>2. Head(g.members) \in Mem(g.members)
        BY <1>2, <4>1, EmptySeq DEF Mem
      <4>3. Head(g.members) # p /\ Head(g.members) \in Players
        BY <1>2, <3>1, <4>1, <4>2, HeadTailProperties DEF Sound
      <4>4. h = PassedTo(g, Head(g.members))
        BY <1>6, <3>1
      <4> HIDE DEF h
      <4>5. /\ h \in Group /\ Sound(h) /\ h.leader = Head(g.members) /\ h.invited = g.invited
            /\ Mem(h.members) = (Mem(g.members) \ {Head(g.members)}) \cup {g.leader}
        BY <1>1, <1>2, <4>2, <4>4, Passed
      <4> QED
        BY <3>1, <4>2, <4>3, <4>5 DEF Has
    <3>2. CASE g.leader # p
      BY <1>1, <1>2, <3>2
    <3> QED
      BY <3>1, <3>2
  <2> HIDE DEF h
  <2>2. /\ h.members \in Seq(Players) /\ Once(h.members)
        /\ k = [leader |-> h.leader, members |-> RemoveFirst(h.members, p), invited |-> h.invited]
    BY <2>1 DEF Group, Sound
  <2>3. /\ RemoveFirst(h.members, p) \in Seq(Players) /\ Once(RemoveFirst(h.members, p))
        /\ Mem(RemoveFirst(h.members, p)) = Mem(h.members) \ {p}
    BY <2>2, MemberRemoved
  <2>4. /\ k \in Group /\ k.leader = h.leader /\ k.invited = h.invited
        /\ k.members = RemoveFirst(h.members, p)
    BY <2>1, <2>2, <2>3 DEF Group
  <2> HIDE DEF k
  <2> QED
    BY <2>1, <2>3, <2>4, RosterAssumption DEF Sound, Has
<1>7. ASSUME MissingLeader(g, p)
      PROVE  k \in Group /\ k.invited = g.invited /\ \A q \in Players : Has(k, q) <=> Has(g, q)
  <2>1. g.leader = p /\ h = g
    BY <1>7 DEF MissingLeader
  <2> HIDE DEF h
  <2>2. /\ RemoveFirst(g.members, p) \in Seq(Players)
        /\ Mem(RemoveFirst(g.members, p)) = Mem(g.members) \ {p}
    BY <1>2, MemberRemoved DEF Sound
  <2>3. k = [leader |-> p, members |-> RemoveFirst(g.members, p), invited |-> g.invited]
    BY <1>1, <2>1 DEF Group
  <2> HIDE DEF k
  <2> QED
    BY <1>2, <2>1, <2>2, <2>3 DEF Group, Has, Sound
<1> HIDE DEF k, h
<1>8. k \in Group /\ k.invited = g.invited
  BY <1>6, <1>7
<1>9. T \in States
  <2>1. T.group \in [Parties -> Group] /\ T.party \in [Players -> Parties \cup {None}]
    BY <1>1, <1>3, <1>8
  <2> QED
    BY <1>1, <1>3, <2>1 DEF States
<1>10. InvitesAgree(T)
  BY <1>1, <1>3, <1>8 DEF Settled, InvitesAgree
<1>11. Ending(T, x)
  <2>1. \A q \in Players \ {p} : T.party[q] = x <=> Has(k, q)
    BY <1>1, <1>2, <1>3, <1>6, <1>7 DEF Linked
  <2>2. T.party[p] = None /\ None # x
    BY <1>1, <1>3, PartyAssumption
  <2> QED
    BY <1>4, <2>1, <2>2 DEF Ending
<1>12. ASSUME NEW y \in Parties \ X PROVE Linked(T, y) /\ Sound(T.group[y]) /\ Lasts(T.group[y])
  <2>1. CASE y # x
    <3>1. T.group[y] = S.group[y] /\ \A q \in Players : T.party[q] = y <=> S.party[q] = y
      BY <1>1, <1>3, <2>1, PartyAssumption
    <3> QED
      BY <3>1 DEF Settled, Linked
  <2>2. CASE y = x
    <3>1. ~MissingLeader(g, p) /\ ~Empty(k)
      BY <1>12, <2>2
    <3>2. \A q \in Players : T.party[q] = x <=> Has(k, q)
      BY <1>1, <1>2, <1>3, <1>6, <3>1, PartyAssumption DEF Linked
    <3>3. \A q \in Players : Has(k, q) => q \notin k.invited
      BY <1>2, <1>6, <3>1 DEF Linked
    <3> QED
      BY <1>4, <1>6, <2>2, <3>1, <3>2, <3>3 DEF Linked, Lasts
  <2> QED
    BY <2>1, <2>2
<1>13. X \in SUBSET Parties /\ \A y \in X : Ending(T, y)
  BY <1>1, <1>11
<1> HIDE DEF X
<1>14. Settled(DisbandIn(T, X)) /\ Fewer(T, DisbandIn(T, X))
  BY <1>9, <1>10, <1>12, <1>13, Disbanded
<1>15. \A q \in Players : T.party[q] \in {S.party[q], None} /\ T.invitations[q] = S.invitations[q]
  BY <1>1, <1>3
<1>16. T.party[p] = None
  BY <1>1, <1>3
<1> QED
  BY <1>5, <1>14, <1>15, <1>16 DEF Fewer

\* The state as the record the operators work on.
LEMMA NowIs == Now.group = group /\ Now.party = party /\ Now.invitations = invitations
BY DEF Now

\* A step that changes one party, whose links and list are right afterwards.
LEMMA OneChanged ==
  ASSUME Settled(Now), NEW x \in Parties, NEW g \in Group, Sound(g), Lasts(g),
         group' = [group EXCEPT ![x] = g],
         party' \in [Players -> Parties \cup {None}], invitations' \in [Players -> SUBSET Parties],
         \A p \in Players : (party'[p] = x <=> Has(g, p)) /\ (Has(g, p) => p \notin g.invited),
         \A p \in Players : x \in invitations'[p] <=> p \in g.invited,
         \A p \in Players, y \in Parties \ {x} :
           (party'[p] = y <=> party[p] = y) /\ (y \in invitations'[p] <=> y \in invitations[p])
  PROVE  Settled(Now)'
<1> DEFINE T == [group |-> group', party |-> party', invitations |-> invitations']
<1>1. T.group = group' /\ T.party = party' /\ T.invitations = invitations'
  OBVIOUS
<1>2. /\ group \in [Parties -> Group] /\ InvitesAgree(Now)
      /\ \A y \in Parties : Linked(Now, y) /\ Sound(group[y]) /\ Lasts(group[y])
  BY NowIs DEF Settled, States
<1>3. group' \in [Parties -> Group] /\ group'[x] = g /\ \A y \in Parties \ {x} : group'[y] = group[y]
  BY <1>2
<1>4. T \in States
  BY <1>3 DEF States
<1> HIDE DEF T
<1>5. ASSUME NEW y \in Parties PROVE Linked(T, y) /\ Sound(T.group[y]) /\ Lasts(T.group[y])
  <2>1. CASE y = x
    BY <1>1, <1>3, <2>1 DEF Linked
  <2>2. CASE y # x
    BY <1>1, <1>2, <1>3, <2>2, NowIs DEF Linked
  <2> QED
    BY <2>1, <2>2
<1>6. InvitesAgree(T)
  <2>1. \A p \in Players : x \in T.invitations[p] <=> p \in T.group[x].invited
    BY <1>1, <1>3
  <2>2. \A p \in Players, y \in Parties \ {x} : y \in T.invitations[p] <=> p \in T.group[y].invited
    BY <1>1, <1>2, <1>3, NowIs DEF InvitesAgree
  <2> QED
    BY <2>1, <2>2 DEF InvitesAgree
<1>7. Settled(T)
  BY <1>4, <1>5, <1>6 DEF Settled
<1> QED
  BY <1>7 DEF T, Now

\* What is known of the parties before a step.
LEMMA PartyKnown ==
  ASSUME PartyInv
  PROVE  /\ group \in [Parties -> Group] /\ party \in [Players -> Parties \cup {None}]
         /\ invitations \in [Players -> SUBSET Parties]
         /\ \A x \in Parties :
              /\ Sound(group[x]) /\ Lasts(group[x])
              /\ group[x].members \in Seq(Players) /\ group[x].invited \in SUBSET Players
              /\ \A p \in Players :
                   /\ party[p] = x <=> Has(group[x], p)
                   /\ Has(group[x], p) => p \notin group[x].invited
                   /\ x \in invitations[p] <=> p \in group[x].invited
BY NowIs DEF PartyInv, Settled, States, Linked, InvitesAgree, Group

\* An invitation, which makes a party when there is none, keeps the invariant.
LEMMA InvitedToParty ==
  ASSUME PartyInv, NEW p \in Players, NEW q \in Players, Invite(p, q)
  PROVE  Settled(Now)'
<1>1. /\ q # p /\ party[q] = None /\ None \notin Parties
      /\ \E x \in Parties :
           /\ \/ party[p] = None /\ ~Alive(x) /\ group' = [group EXCEPT ![x] = Inviting([@ EXCEPT !.leader = p], q)]
              \/ Leads(p) /\ party[p] = x /\ group' = [group EXCEPT ![x] = Inviting(@, q)]
           /\ party' = [party EXCEPT ![p] = x]
           /\ invitations' = [invitations EXCEPT ![q] = @ \cup {x}]
  BY PartyAssumption DEF Invite
<1>2. PICK x \in Parties :
           /\ \/ party[p] = None /\ ~Alive(x) /\ group' = [group EXCEPT ![x] = Inviting([@ EXCEPT !.leader = p], q)]
              \/ Leads(p) /\ party[p] = x /\ group' = [group EXCEPT ![x] = Inviting(@, q)]
           /\ party' = [party EXCEPT ![p] = x]
           /\ invitations' = [invitations EXCEPT ![q] = @ \cup {x}]
  BY <1>1
<1> DEFINE h == [leader |-> p, members |-> group[x].members, invited |-> group[x].invited]
           g == [leader |-> p, members |-> group[x].members, invited |-> group[x].invited \cup {q}]
<1>3. group[x] \in Group /\ group[x] = [leader |-> group[x].leader, members |-> group[x].members,
                                         invited |-> group[x].invited]
  BY PartyKnown DEF Group
<1>4. group' = [group EXCEPT ![x] = g]
  <2>1. CASE Leads(p) /\ party[p] = x /\ group' = [group EXCEPT ![x] = Inviting(@, q)]
    <3>1. group[x].leader = p
      BY <2>1 DEF Leads
    <3>2. Inviting(group[x], q) = g
      BY <1>3, <3>1 DEF Inviting
    <3> QED
      BY <2>1, <3>2
  <2>2. CASE group' = [group EXCEPT ![x] = Inviting([@ EXCEPT !.leader = p], q)]
    <3>1. [group[x] EXCEPT !.leader = p] = h
      BY <1>3
    <3>2. Inviting(h, q) = g
      BY DEF Inviting
    <3> QED
      BY <2>2, <3>1, <3>2
  <2> QED
    BY <1>2, <2>1, <2>2
<1>5. \/ party[p] = None /\ group[x] = NoGroup
      \/ party[p] = x /\ group[x].leader = p
  BY <1>2, PartyKnown DEF Leads, Alive, Sound
<1>6. /\ Sound(g) /\ g \in Group /\ Lasts(g)
      /\ \A r \in Players : Has(g, r) <=> r = p \/ Has(group[x], r)
  <2>1. /\ Once(g.members) /\ p \notin Mem(g.members)
        /\ \A r \in Players : Has(g, r) <=> r = p \/ Has(group[x], r)
    <3>1. CASE group[x] = NoGroup
      <4>a. <<>> \in Seq(Players) /\ Len(<<>>) = 0
        BY EmptySeq
      <4>b. g.members = <<>>
        BY <3>1 DEF NoGroup
      <4>1. g.members = <<>> /\ Mem(<<>>) = {} /\ Once(<<>>)
        <5>1. Once(<<>>)
          BY <4>a DEF Once
        <5>2. Mem(<<>>) = {}
          BY <4>a, NoMember
        <5> QED
          BY <4>b, <5>1, <5>2
      <4>2. \A r \in Players : ~Has(group[x], r)
        BY <3>1, <4>1, RosterAssumption DEF Has, NoGroup
      <4> QED
        BY <4>1, <4>2 DEF Has
    <3>2. CASE group[x].leader = p
      BY <3>2, PartyKnown DEF Sound, Has
    <3> QED
      BY <1>5, <3>1, <3>2
  <2> QED
    BY <2>1, PartyKnown, RosterAssumption DEF Sound, Lasts, Empty, Group
<1>7. g.invited = group[x].invited \cup {q} /\ p \notin group[x].invited
  BY <1>5, PartyKnown DEF NoGroup, Has
<1> HIDE DEF g, h
<1>8. \A r \in Players : (party'[r] = x <=> Has(g, r)) /\ (Has(g, r) => r \notin g.invited)
  BY <1>1, <1>2, <1>6, <1>7, PartyKnown
<1>9. \A r \in Players : x \in invitations'[r] <=> r \in g.invited
  BY <1>2, <1>7, PartyKnown
<1>10. /\ party' \in [Players -> Parties \cup {None}] /\ invitations' \in [Players -> SUBSET Parties]
       /\ \A r \in Players, y \in Parties \ {x} :
            (party'[r] = y <=> party[r] = y) /\ (y \in invitations'[r] <=> y \in invitations[r])
  BY <1>1, <1>2, <1>5, PartyKnown
<1> QED
  BY <1>4, <1>6, <1>8, <1>9, <1>10, OneChanged DEF PartyInv

\* So does joining a party, which gives up all other invitations.
LEMMA JoinedParty ==
  ASSUME PartyInv, NEW p \in Players, NEW q \in Players, Join(p, q)
  PROVE  Settled(Now)'
<1> DEFINE x == party[q]
           g == Joined(group[x], p)
<1>1. /\ x \in Parties /\ p \in group[x].invited /\ party[p] = None /\ None \notin Parties
      /\ group[x].leader = q
      /\ group' = [group EXCEPT ![x] = g]
      /\ party' = [party EXCEPT ![p] = x]
      /\ invitations' = [invitations EXCEPT ![p] = @ \ {x}]
  BY PartyKnown, PartyAssumption DEF Join, IsInviting, Leads
<1>2. /\ group[x] \in Group /\ Sound(group[x]) /\ group[x].members \in Seq(Players)
      /\ p \notin Mem(group[x].members) /\ q # p
  BY <1>1, PartyKnown DEF Has
<1>3. g = [leader |-> q, members |-> Append(group[x].members, p), invited |-> group[x].invited \ {p}]
  BY <1>1 DEF Joined
<1> DEFINE m == Append(group[x].members, p)
<1>4. m \in Seq(Players) /\ Mem(m) = Mem(group[x].members) \cup {p} /\ Once(m)
  BY <1>2, MemberAdded DEF Sound
<1> HIDE DEF m
<1>5. /\ g.leader = q /\ g.members = m /\ g.invited = group[x].invited \ {p} /\ g \in Group
  BY <1>1, <1>2, <1>3, <1>4 DEF m, Group
<1>6. m # <<>>
  BY <1>4, NoMember
<1> HIDE DEF g
<1>7. Sound(g) /\ Lasts(g) /\ \A r \in Players : Has(g, r) <=> r = p \/ Has(group[x], r)
  BY <1>1, <1>2, <1>4, <1>5, <1>6, RosterAssumption DEF Sound, Lasts, Empty, Has
<1> HIDE DEF x
<1>8. \A r \in Players : (party'[r] = x <=> Has(g, r)) /\ (Has(g, r) => r \notin g.invited)
  BY <1>1, <1>5, <1>7, PartyKnown
<1>9. \A r \in Players : x \in invitations'[r] <=> r \in g.invited
  BY <1>1, <1>5, PartyKnown
<1>10. /\ party' \in [Players -> Parties \cup {None}] /\ invitations' \in [Players -> SUBSET Parties]
       /\ \A r \in Players, y \in Parties \ {x} :
            (party'[r] = y <=> party[r] = y) /\ (y \in invitations'[r] <=> y \in invitations[r])
  BY <1>1, PartyKnown
<1> QED
  BY <1>1, <1>5, <1>7, <1>8, <1>9, <1>10, OneChanged DEF PartyInv

\* So does passing the leadership on.
LEMMA LeadershipPassed ==
  ASSUME PartyInv, NEW p \in Players, NEW q \in Players, PassLeadership(p, q)
  PROVE  Settled(Now)'
<1> DEFINE x == party[p]
           g == PassedTo(group[x], q)
<1>1. /\ x \in Parties /\ group[x].leader = p /\ party[q] = x /\ q # p
      /\ group' = [group EXCEPT ![x] = g] /\ UNCHANGED <<party, invitations>>
  BY PartyKnown, PartyAssumption DEF PassLeadership, Leads, IsPartner
<1>2. /\ group[x] \in Group /\ Sound(group[x]) /\ q \in Mem(group[x].members)
  BY <1>1, PartyKnown DEF Has
<1>a. g = PassedTo(group[x], q) /\ group[x].leader \in Players
  BY <1>1
<1> HIDE DEF g, x
<1>3. /\ g \in Group /\ Sound(g) /\ g.leader = q /\ g.invited = group[x].invited
      /\ Mem(g.members) = (Mem(group[x].members) \ {q}) \cup {p}
  BY <1>1, <1>2, <1>a, Passed
<1>4. g.members # <<>>
  BY <1>3, NoMember, EmptySeq DEF Group
<1>5. Lasts(g) /\ \A r \in Players : Has(g, r) <=> Has(group[x], r)
  BY <1>1, <1>2, <1>3, <1>4 DEF Lasts, Empty, Has
<1>6. /\ party' \in [Players -> Parties \cup {None}] /\ invitations' \in [Players -> SUBSET Parties]
      /\ \A r \in Players : (party'[r] = x <=> Has(g, r)) /\ (Has(g, r) => r \notin g.invited)
      /\ \A r \in Players : x \in invitations'[r] <=> r \in g.invited
  BY <1>1, <1>3, <1>5, PartyKnown
<1> QED
  BY <1>1, <1>3, <1>5, <1>6, OneChanged DEF PartyInv

\* A handler that ends in S has S as its next state.
LEMMA BecomeIs == \A S : Settled(S) /\ Become(S) => Settled(Now)'
<1> SUFFICES ASSUME NEW S, Settled(S), Become(S) PROVE Settled(Now)'
  OBVIOUS
<1>1. S = [group |-> group', party |-> party', invitations |-> invitations']
  BY DEF Settled, States, Become
<1> QED
  BY <1>1 DEF Now

\* Every step of the parties while the players stay keeps the invariant.
LEMMA PartyKept == PartyInv /\ PartyNext /\ UNCHANGED online => PartyInv'
<1> SUFFICES ASSUME PartyInv, PartyNext, UNCHANGED online PROVE PartyInv'
  OBVIOUS
<1>1. ASSUME NEW p \in Players, NEW q \in Players, Invite(p, q) PROVE PartyInv'
  <2>1. {p, q} \subseteq online
    BY <1>1 DEF Invite
  <2>2. PartiesArePresent'
    BY <1>1, <2>1 DEF Invite, PartyInv, PartiesArePresent
  <2> QED
    BY <1>1, <2>2, InvitedToParty DEF PartyInv
<1>2. ASSUME NEW p \in Players, NEW q \in Players, Join(p, q) PROVE PartyInv'
  <2>1. PartiesArePresent'
    BY <1>2 DEF Join, PartyInv, PartiesArePresent
  <2> QED
    BY <1>2, <2>1, JoinedParty DEF PartyInv
<1>3. ASSUME NEW p \in Players, NEW q \in Players, PassLeadership(p, q) PROVE PartyInv'
  <2>1. PartiesArePresent'
    BY <1>3 DEF PassLeadership, PartyInv, PartiesArePresent
  <2> QED
    BY <1>3, <2>1, LeadershipPassed DEF PartyInv
<1>4. ASSUME NEW S, Settled(S), Fewer(Now, S), Become(S) PROVE PartyInv'
  <2>1. PartiesArePresent'
    BY <1>4, NowIs DEF Fewer, Become, PartyInv, PartiesArePresent
  <2> QED
    BY <1>4, <2>1, BecomeIs DEF PartyInv
<1>5. ASSUME NEW p \in Players, NEW q \in Players, Revoke(p, q) PROVE PartyInv'
  <2>1. {party[p]} \in SUBSET Now.invitations[q] /\ Become(RemoveInvitesIn(Now, q, {party[p]}))
    BY <1>5, NowIs, PartyKnown, PartyAssumption DEF Revoke, IsInviting, Leads
  <2> QED
    BY <1>4, <2>1, InvitesRemoved DEF PartyInv
<1>6. ASSUME NEW p \in Players, LeaveParty(p) PROVE PartyInv'
  <2>1. Now.party[p] # None /\ Become(LeaveIn(Now, p))
    BY <1>6, NowIs DEF LeaveParty
  <2> QED
    BY <1>4, <2>1, Left DEF PartyInv
<1> QED
  BY <1>1, <1>2, <1>3, <1>5, <1>6 DEF PartyNext

\* A log-out leaves the party and gives up the invitations, and gives nobody a party
\* or an invitation.
LEMMA PartyLeft ==
  ASSUME PartyInv, NEW p \in Players, online' = online \ {p}, PartyLogout(p)
  PROVE  /\ PartyInv'
         /\ \A q \in Players : party'[q] \in {party[q], None} /\ invitations'[q] \subseteq invitations[q]
<1> DEFINE S == ClearInvitationsIn(Now, p)
           T == IF S.party[p] # None THEN LeaveIn(S, p) ELSE S
<1>1. Settled(S) /\ Fewer(Now, S) /\ S.invitations[p] = {}
  BY InvitesRemoved DEF ClearInvitationsIn, PartyInv
<1>2. Become(T)
  BY DEF PartyLogout
<1> HIDE DEF S
<1>3. Settled(T) /\ Fewer(S, T) /\ T.party[p] = None
  <2>1. CASE S.party[p] # None
    BY <1>1, <2>1, Left
  <2>2. CASE S.party[p] = None
    BY <1>1, <2>2 DEF Fewer
  <2> QED
    BY <2>1, <2>2
<1> HIDE DEF T
<1>4. \A q \in Players : T.party[q] \in {party[q], None} /\ T.invitations[q] \subseteq invitations[q]
  BY <1>1, <1>3, NowIs DEF Fewer
<1>5. T.invitations[p] = {}
  BY <1>1, <1>3 DEF Fewer
<1>6. PartiesArePresent'
  BY <1>2, <1>3, <1>4, <1>5 DEF Become, PartyInv, PartiesArePresent
<1>7. PartyInv'
  BY <1>2, <1>3, <1>6, BecomeIs DEF PartyInv
<1> QED
  BY <1>2, <1>4, <1>7 DEF Become

\* No player has a party when the server starts.
LEMMA PartyStart == PartyInit => PartyInv
<1> SUFFICES ASSUME PartyInit PROVE PartyInv
  OBVIOUS
<1>1. Now = [group |-> [x \in Parties |-> NoGroup], party |-> [p \in Players |-> None],
             invitations |-> [p \in Players |-> {}]]
  BY DEF PartyInit, Now
<1>2. NoGroup \in Group /\ NoGroup.leader = None /\ NoGroup.invited = {} /\ NoGroup.members = <<>>
  BY EmptySeq DEF NoGroup, Group
<1>3. Mem(<<>>) = {} /\ Len(<<>>) = 0
  BY NoMember, EmptySeq
<1>4. Sound(NoGroup) /\ Lasts(NoGroup) /\ \A p \in Players : ~Has(NoGroup, p)
  BY <1>2, <1>3, RosterAssumption DEF Sound, Lasts, Has, Once
<1>5. Settled(Now)
  BY <1>1, <1>2, <1>4, PartyAssumption DEF Settled, States, Linked, InvitesAgree
<1> QED
  BY <1>5 DEF PartyInit, PartyInv, PartiesArePresent

\* Steps of the other parts keep the invariant when who is gone has no party.
LEMMA PartyAsBefore ==
  ASSUME PartyInv, UNCHANGED partyVars, \A p \in Players \ online' : party[p] = None /\ invitations[p] = {}
  PROVE  PartyInv'
<1>1. Settled(Now)'
  BY DEF PartyInv, partyVars, Now
<1> QED
  BY <1>1 DEF partyVars, PartyInv, PartiesArePresent

\* A member is in the list once: the number of its places there.
LEMMA PlacesOf ==
  ASSUME NEW s \in Seq(Players), Once(s), NEW p \in Players
  PROVE  Cardinality({i \in DOMAIN s : s[i] = p}) = IF p \in Mem(s) THEN 1 ELSE 0
<1>1. DOMAIN s = 1..Len(s)
  BY LenProperties
<1>2. CASE p \notin Mem(s)
  <2>1. {i \in DOMAIN s : s[i] = p} = {}
    BY <1>1, <1>2 DEF Mem
  <2> QED
    BY <1>2, <2>1, FS_EmptySet
<1>3. CASE p \in Mem(s)
  <2>1. PICK i \in 1..Len(s) : s[i] = p
    BY <1>3 DEF Mem
  <2>2. {j \in DOMAIN s : s[j] = p} = {i}
    BY <1>1, <2>1 DEF Once
  <2> QED
    BY <1>3, <2>2, FS_Singleton
<1> QED
  BY <1>2, <1>3

\* The invariant says what the run checks.
LEMMA PartyInvAgrees ==
  PartyInv => PartyAgrees /\ \A p \in Players \ online : ~PartyKnows(p)
<1> SUFFICES ASSUME PartyInv PROVE PartyAgrees /\ \A p \in Players \ online : ~PartyKnows(p)
  OBVIOUS
<1>1. \A p \in Players, x \in Parties : Belongs(p, x) <=> Has(group[x], p)
  BY PartyKnown, IsMember DEF Belongs, Has
<1>2. ASSUME NEW p \in Players, NEW x \in Parties
      PROVE  /\ party[p] = x <=> Belongs(p, x)
             /\ x \in invitations[p] <=> p \in group[x].invited
             /\ ~(Belongs(p, x) /\ p \in group[x].invited)
  BY <1>1, PartyKnown
<1>3. ASSUME NEW p \in Players, NEW x \in Parties
      PROVE  Cardinality({i \in DOMAIN group[x].members : group[x].members[i] = p})
               = (IF party[p] = x /\ group[x].leader # p THEN 1 ELSE 0)
  <2>1. group[x].members \in Seq(Players) /\ Once(group[x].members)
    BY PartyKnown DEF Sound
  <2>2. p \in Mem(group[x].members) <=> party[p] = x /\ group[x].leader # p
    BY PartyKnown DEF Sound, Has
  <2> QED
    BY <2>1, <2>2, PlacesOf
<1>4. \A x \in Parties : Alive(x) => ~Empty(group[x])
  BY PartyKnown DEF Alive, Lasts
<1>5. ASSUME NEW p \in Players \ online, NEW x \in Parties
      PROVE  ~Belongs(p, x) /\ p \notin group[x].invited
  <2>1. party[p] # x /\ x \notin invitations[p]
    BY PartyAssumption DEF PartyInv, PartiesArePresent
  <2> QED
    BY <1>2, <2>1
<1> QED
  BY <1>2, <1>3, <1>4, <1>5 DEF PartyAgrees, PartyKnows
-----------------------------------------------------------------------------
(* Bags within bags.                                                       *)

\* Players, items and the places that are neither differ.
LEMMA TradeConstants ==
  /\ None \notin Players /\ None \notin Items /\ Ground \notin Items /\ Nowhere \notin Items
  /\ Ground \notin Players /\ Nowhere \notin Players /\ Containers \subseteq Items
  /\ \A p \in Players : p \notin Items
  /\ ItemReach \in Nat /\ PartnerReach \in Nat /\ Places \subseteq Nat
BY RosterAssumption, TradeAssumption

\* What is in c is the least set with what lies in c and in its members,
LEMMA NestedLeast ==
  ASSUME NEW f, NEW c, NEW s \in SUBSET Items, \A j \in Items : f[j] \in s \cup {c} => j \in s
  PROVE  Nested(f, c) \subseteq s
BY DEF Nested

\* so an item is in c when it lies in c or in what is in c;
LEMMA NestedStep ==
  ASSUME NEW f, NEW c, NEW i \in Items
  PROVE  i \in Nested(f, c) <=> f[i] = c \/ f[i] \in Nested(f, c)
<1>1. \A j \in Items : f[j] = c \/ f[j] \in Nested(f, c) => j \in Nested(f, c)
  BY DEF Nested
<1> DEFINE s == {j \in Items : f[j] = c \/ f[j] \in Nested(f, c)}
<1>2. \A j \in Items : f[j] \in s \cup {c} => j \in s
  BY <1>1
<1>3. Nested(f, c) \subseteq s
  <2> HIDE DEF s
  <2>1. s \in SUBSET Items
    BY DEF s
  <2> QED
    BY <1>2, <2>1, NestedLeast
<1> QED
  BY <1>1, <1>3

LEMMA NestedItems == \A f, c : Nested(f, c) \subseteq Items
BY DEF Nested

\* what is in a is in all that a is in;
LEMMA NestedDeeper ==
  ASSUME NEW f, NEW c, NEW a \in Nested(f, c)
  PROVE  Nested(f, a) \subseteq Nested(f, c)
<1>1. \A j \in Items : f[j] \in Nested(f, c) \cup {a} => j \in Nested(f, c)
  BY NestedStep
<1>2. Nested(f, c) \in SUBSET Items
  BY NestedItems
<1> QED
  BY <1>1, <1>2, NestedLeast

\* and of two things an item is in, one is in the other.
LEMMA NestedLine ==
  ASSUME NEW f, NEW a, NEW b, NEW k \in Nested(f, a), k \in Nested(f, b)
  PROVE  a = b \/ a \in Nested(f, b) \/ b \in Nested(f, a)
<1> DEFINE s == {j \in Nested(f, a) : j \in Nested(f, b) =>
                                        a = b \/ a \in Nested(f, b) \/ b \in Nested(f, a)}
<1>1. ASSUME NEW j \in Items, f[j] \in s \cup {a} PROVE j \in s
  <2>1. j \in Nested(f, a)
    BY <1>1, NestedStep
  <2>2. j \in Nested(f, b) => f[j] = b \/ f[j] \in Nested(f, b)
    BY NestedStep
  <2> QED
    BY <1>1, <2>1, <2>2
<1>2. Nested(f, a) \subseteq s
  <2>1. s \in SUBSET Items
    BY NestedItems
  <2> HIDE DEF s
  <2> QED
    BY <1>1, <2>1, NestedLeast
<1> QED
  BY <1>2

\* What is not moved, and is in nothing that is moved, stays where it is.
LEMMA NestedStays ==
  ASSUME NEW f, NEW g, NEW X \in SUBSET Items, \A x \in Items \ X : g[x] = f[x],
         NEW c, NEW t \in Nested(f, c), t \notin X, \A x \in X : t \notin Nested(f, x)
  PROVE  t \in Nested(g, c)
<1> DEFINE Still(k) == k \notin X /\ \A x \in X : k \notin Nested(f, x)
           s == {k \in Nested(f, c) : Still(k) => k \in Nested(g, c)}
<1>1. ASSUME NEW j \in Items, f[j] \in s \cup {c} PROVE j \in s
  <2>1. j \in Nested(f, c)
    BY <1>1, NestedStep
  <2>2. ASSUME Still(j) PROVE j \in Nested(g, c)
    <3>1. g[j] = f[j]
      BY <2>2
    <3>2. CASE f[j] = c
      BY <3>1, <3>2, NestedStep
    <3>3. CASE f[j] \in s
      <4>1. f[j] \notin X
        BY <2>2, NestedStep
      <4>2. \A x \in X : f[j] \notin Nested(f, x)
        BY <2>2, NestedStep
      <4> QED
        BY <3>1, <3>3, <4>1, <4>2, NestedStep
    <3> QED
      BY <1>1, <3>2, <3>3
  <2> QED
    BY <2>1, <2>2
<1>2. Nested(f, c) \subseteq s
  <2>1. s \in SUBSET Items
    BY NestedItems
  <2> HIDE DEF s
  <2> QED
    BY <1>1, <2>1, NestedLeast
<1> QED
  BY <1>2

\* An item put into d takes what is in it along, and nothing else moves;
LEMMA NestedMoved ==
  ASSUME NEW f, NEW g, NEW i \in Items, NEW d, g[i] = d, \A x \in Items \ {i} : g[x] = f[x],
         d # i, d \notin Nested(f, i), NEW c
  PROVE  Nested(g, c) \subseteq
           Nested(f, c) \cup {k \in {i} \cup Nested(f, i) : d = c \/ d \in Nested(f, c)}
<1> DEFINE s == Nested(f, c) \cup {k \in {i} \cup Nested(f, i) : d = c \/ d \in Nested(f, c)}
<1>1. ASSUME NEW j \in Items, g[j] \in s \cup {c} PROVE j \in s
  <2>1. CASE j = i
    BY <1>1, <2>1
  <2>2. CASE j # i
    <3>1. g[j] = f[j]
      BY <2>2
    <3>2. f[j] = c \/ f[j] \in Nested(f, c) => j \in Nested(f, c)
      BY NestedStep
    <3>3. f[j] = i \/ f[j] \in Nested(f, i) => j \in Nested(f, i)
      BY NestedStep
    <3> QED
      BY <1>1, <3>1, <3>2, <3>3
  <2> QED
    BY <2>1, <2>2
<1>2. s \in SUBSET Items
  BY NestedItems
<1> HIDE DEF s
<1>3. Nested(g, c) \subseteq s
  BY <1>1, <1>2, NestedLeast
<1> QED
  BY <1>3 DEF s

\* so no loop of bags comes about when d is not in the item,
LEMMA MovedWithoutLoops ==
  ASSUME NEW f, NEW g, NEW i \in Items, NEW d, g[i] = d, \A x \in Items \ {i} : g[x] = f[x],
         d # i, d \notin Nested(f, i), \A x \in Items : x \notin Nested(f, x)
  PROVE  \A x \in Items : x \notin Nested(g, x)
<1> SUFFICES ASSUME NEW x \in Items, x \in Nested(g, x) PROVE FALSE
  OBVIOUS
<1>1. x \in Nested(f, x) \cup {k \in {i} \cup Nested(f, i) : d = x \/ d \in Nested(f, x)}
  BY NestedMoved
<1>2. x \in Nested(f, i) => Nested(f, x) \subseteq Nested(f, i)
  BY NestedDeeper
<1> QED
  BY <1>1, <1>2

\* and what neither had the item nor gets it holds what it held.
LEMMA MovedElsewhere ==
  ASSUME NEW f, NEW g, NEW i \in Items, NEW d, g[i] = d, \A x \in Items \ {i} : g[x] = f[x],
         d # i, d \notin Nested(f, i),
         NEW t, t # i, i \notin Nested(f, t), d # t, d \notin Nested(f, t)
  PROVE  Nested(g, t) = Nested(f, t)
<1>1. Nested(g, t) \subseteq Nested(f, t)
  BY NestedMoved
<1>2. ASSUME NEW j \in Items, f[j] \in Nested(g, t) \cup {t} PROVE j \in Nested(g, t)
  <2>1. j \in Nested(f, t)
    BY <1>1, <1>2, NestedStep
  <2>2. g[j] = f[j]
    BY <2>1
  <2> QED
    BY <1>2, <2>2, NestedStep
<1>3. Nested(f, t) \subseteq Nested(g, t)
  BY <1>2, NestedItems, NestedLeast
<1> QED
  BY <1>1, <1>3

\* An item taken out of the world with all that is in it leaves no new bags
\* behind, and the bags that held nothing of it as they were.
LEMMA NestedRemoved ==
  ASSUME NEW f, NEW g, NEW X \in SUBSET Items, \A j \in Items : f[j] \in X => j \in X,
         \A x \in Items : g[x] = IF x \in X THEN Nowhere ELSE f[x], NEW c, c # Nowhere
  PROVE  /\ Nested(g, c) \subseteq Nested(f, c)
         /\ Nested(f, c) \cap X = {} => Nested(g, c) = Nested(f, c)
<1>1. ASSUME NEW j \in Items, g[j] \in Nested(f, c) \cup {c} PROVE j \in Nested(f, c)
  <2>1. j \notin X
    BY <1>1, NestedItems, TradeConstants
  <2> QED
    BY <1>1, <2>1, NestedStep
<1>2. Nested(g, c) \subseteq Nested(f, c)
  BY <1>1, NestedItems, NestedLeast
<1>3. ASSUME Nested(f, c) \cap X = {}, NEW j \in Items, f[j] \in Nested(g, c) \cup {c}
      PROVE  j \in Nested(g, c)
  <2>1. j \in Nested(f, c)
    BY <1>2, <1>3, NestedStep
  <2>2. g[j] = f[j]
    BY <1>3, <2>1
  <2> QED
    BY <1>3, <2>2, NestedStep
<1>4. ASSUME Nested(f, c) \cap X = {} PROVE Nested(f, c) \subseteq Nested(g, c)
  BY <1>3, <1>4, NestedItems, NestedLeast
<1> QED
  BY <1>2, <1>4
-----------------------------------------------------------------------------
(* Trades: the invariant.                                                  *)

TradeTypeOK ==
  /\ online \subseteq Players
  /\ tradeState \in [Players -> {"NONE", "INITIATED", "ACKNOWLEDGE", "ACCEPT"}]
  /\ tradePartner \in [Players -> Players \cup {None}]
  /\ tradeItem \in [Players -> Items \cup {None}]
  /\ tradeItems \in [Items -> Players \cup {None}]
  /\ parent \in [Items -> Containers \cup Players \cup {Ground, Nowhere}]
  /\ place \in [Players -> Nat]

\* Where the items and the players are to one another.
Within == [c \in Items |-> Contents(c)]
Tops == [i \in Items |-> {t \in Players \cup {Ground} : TopIs(i, t)}]
Reach == [p \in Players |-> {i \in Items : ItemInReach(p, i)}]
Near == [p \in Players |-> {q \in Players : PlayersInReach(p, q)}]

LEMMA WithinItems == \A i \in Items : Within[i] \subseteq Items
BY NestedItems DEF Within, Contents

\* The parts of TradeAgrees: the two sides of a trade and the game's list of
\* locked items; no locked item in another; no loop of bags; and the reach of each.
Sides ==
  /\ \A p \in Players :
       /\ tradeState[p] = "NONE" <=> tradePartner[p] = None
       /\ tradePartner[p] = None => tradeItem[p] = None
       /\ tradePartner[p] # None =>
            /\ tradePartner[p] # p /\ tradePartner[tradePartner[p]] = p
            /\ tradeItem[p] # None \/ tradeItem[tradePartner[p]] # None
       /\ tradeState[p] = "INITIATED" => tradeItem[p] # None
       /\ tradeState[p] = "ACKNOWLEDGE" => tradeItem[p] = None
  /\ \A i \in Items, p \in Players : tradeItems[i] = p <=> tradeItem[p] = i
Apart == \A i \in Items : \A j \in Within[i] : tradeItems[i] = None \/ tradeItems[j] = None
NoLoops == \A i \in Items : i \notin Within[i]
InReach ==
  \A p \in Players :
    /\ tradeItem[p] # None => tradeItem[p] \in Reach[p]
    /\ tradePartner[p] # None => tradePartner[p] \in Near[p]

\* Who is not in the game has no part in a trade.
TradersArePresent == \A p \in Players \ online : tradePartner[p] = None

TradeInv == TradeTypeOK /\ Sides /\ Apart /\ NoLoops /\ InReach /\ TradersArePresent

\* The invariant says what the run checks.
LEMMA TradeInvAgrees == TradeInv => TradeAgrees
<1> SUFFICES ASSUME TradeInv PROVE TradeAgrees
  OBVIOUS
<1>1. OfferedInReach
  <2>1. ASSUME NEW p \in Players
        PROVE  /\ tradeItem[p] # None => ItemInReach(p, tradeItem[p])
               /\ tradePartner[p] # None => PlayersInReach(p, tradePartner[p])
    <3>1. /\ tradeItem[p] # None => tradeItem[p] \in Reach[p]
          /\ tradePartner[p] # None => tradePartner[p] \in Near[p]
      BY DEF TradeInv, InReach
    <3> QED
      BY <3>1 DEF Reach, Near
  <2> QED
    BY <2>1 DEF OfferedInReach
<1>2. \A i, j \in Items : Holds(i, j) => None \in {tradeItems[i], tradeItems[j]}
  BY DEF TradeInv, Apart, Within, Holds
<1>3. \A i \in Items : ~Holds(i, i)
  BY DEF TradeInv, NoLoops, Within, Holds
<1> QED
  BY <1>1, <1>2, <1>3 DEF TradeInv, Sides, TradeAgrees

\* Nobody trades when the server starts.
LEMMA TradeStart == TradeInit /\ online \subseteq Players => TradeInv
<1> SUFFICES ASSUME TradeInit, online \subseteq Players PROVE TradeInv
  OBVIOUS
<1> USE TradeConstants DEF TradeInit
<1>1. TradeTypeOK
  BY DEF TradeTypeOK
<1>2. ASSUME NEW i \in Items PROVE Within[i] = {}
  <2>1. \A j \in Items : parent[j] \notin {} \cup {i}
    OBVIOUS
  <2>2. Nested(parent, i) \subseteq {}
    BY <2>1, NestedLeast
  <2> QED
    BY <2>2 DEF Within, Contents
<1> QED
  BY <1>1, <1>2 DEF TradeInv, Sides, Apart, NoLoops, InReach, Within, TradersArePresent
-----------------------------------------------------------------------------
(* Closing trades.                                                         *)

\* A trade is closed for both or for neither, and its items are unlocked; the
\* others' trades are as they were.
LEMMA Closed ==
  ASSUME TradeTypeOK, Sides, NEW ps \in SUBSET Players, CloseTrade(ps)
  PROVE  /\ tradeState' \in [Players -> {"NONE", "INITIATED", "ACKNOWLEDGE", "ACCEPT"}]
         /\ tradePartner' \in [Players -> Players \cup {None}]
         /\ tradeItem' \in [Players -> Items \cup {None}]
         /\ tradeItems' \in [Items -> Players \cup {None}]
         /\ \A p \in ps : tradePartner'[p] = None
         /\ \A p \in Players :
              tradePartner'[p] # None => p \notin ps /\ tradePartner'[p] = tradePartner[p]
         /\ \A p \in Players :
              tradeItem'[p] # None => p \notin ps /\ tradeItem'[p] = tradeItem[p]
         /\ \A i \in Items : tradeItems'[i] # None => tradeItems'[i] = tradeItems[i]
         /\ Sides'
<1> DEFINE all == Closing(ps)
<1>1. /\ all \subseteq Players /\ ps \subseteq all /\ None \notin all
      /\ \A p \in ps : tradePartner[p] # None => tradePartner[p] \in all
      /\ \A p \in all : p \in ps \/ \E q \in ps : p = tradePartner[q]
  BY TradeConstants DEF Closing, TradeTypeOK
<1>2. \A p \in Players : tradePartner[p] # None => (p \in all <=> tradePartner[p] \in all)
  <2>1. \A p \in Players :
          tradePartner[p] # None => tradePartner[p] \in Players /\ tradePartner[tradePartner[p]] = p
    BY DEF Sides, TradeTypeOK
  <2>2. ASSUME NEW p \in all, tradePartner[p] # None PROVE tradePartner[p] \in all
    <3>1. CASE p \in ps
      BY <1>1, <2>2, <3>1
    <3>2. CASE p \notin ps
      <4>1. PICK q \in ps : p = tradePartner[q]
        BY <1>1, <3>2
      <4>2. p \in Players /\ q \in Players /\ p # None
        BY <1>1, TradeConstants
      <4>3. tradePartner[p] = q
        BY <2>1, <4>1, <4>2
      <4> QED
        BY <1>1, <4>3
    <3> QED
      BY <3>1, <3>2
  <2> QED
    BY <2>1, <2>2, TradeConstants
<1>3. /\ tradeState' = [p \in Players |-> IF p \in all THEN "NONE" ELSE tradeState[p]]
      /\ tradePartner' = [p \in Players |-> IF p \in all THEN None ELSE tradePartner[p]]
      /\ tradeItem' = [p \in Players |-> IF p \in all THEN None ELSE tradeItem[p]]
      /\ tradeItems' = [i \in Items |-> IF \E p \in all : tradeItem[p] = i THEN None ELSE tradeItems[i]]
  BY DEF CloseTrade
<1> HIDE DEF all
<1>4. /\ tradeState' \in [Players -> {"NONE", "INITIATED", "ACKNOWLEDGE", "ACCEPT"}]
      /\ tradePartner' \in [Players -> Players \cup {None}]
      /\ tradeItem' \in [Players -> Items \cup {None}]
      /\ tradeItems' \in [Items -> Players \cup {None}]
  BY <1>3 DEF TradeTypeOK
<1>5. ASSUME NEW p \in Players
      PROVE  /\ tradeState'[p] = "NONE" <=> tradePartner'[p] = None
             /\ tradePartner'[p] = None => tradeItem'[p] = None
             /\ tradeState'[p] = "INITIATED" => tradeItem'[p] # None
             /\ tradeState'[p] = "ACKNOWLEDGE" => tradeItem'[p] = None
  BY <1>3 DEF Sides
<1>6. ASSUME NEW p \in Players, tradePartner'[p] # None
      PROVE  /\ tradePartner'[p] # p /\ tradePartner'[tradePartner'[p]] = p
             /\ tradeItem'[p] # None \/ tradeItem'[tradePartner'[p]] # None
  <2>1. p \notin all /\ tradePartner'[p] = tradePartner[p] /\ tradePartner[p] \in Players \ all
    BY <1>2, <1>3, <1>6 DEF TradeTypeOK
  <2> QED
    BY <1>3, <1>6, <2>1 DEF Sides
<1>7. ASSUME NEW i \in Items, NEW p \in Players PROVE tradeItems'[i] = p <=> tradeItem'[p] = i
  <2>1. tradeItems[i] = p <=> tradeItem[p] = i
    BY DEF Sides
  <2>2. CASE p \in all
    BY <1>3, <2>1, <2>2, TradeConstants
  <2>3. CASE p \notin all
    <3>1. \A q \in all : tradeItem[q] = i => tradeItems[i] = q
      BY <1>1 DEF Sides
    <3> QED
      BY <1>3, <2>1, <2>3, <3>1, TradeConstants
  <2> QED
    BY <2>2, <2>3
<1>8. Sides'
  BY <1>5, <1>6, <1>7 DEF Sides
<1> QED
  BY <1>1, <1>3, <1>4, <1>8

\* Nothing is nearer or farther, in or out, when nothing moves.
LEMMA Unmoved ==
  ASSUME UNCHANGED <<parent, place>>
  PROVE  UNCHANGED <<Within, Tops, Reach, Near>>
BY DEF Within, Tops, Reach, Near, TopIs, Contents, ItemInReach, PlayersInReach

\* What is still offered after a closing was offered before, and what was apart
\* and in reach is still so as long as the items and players do not move.
LEMMA ClosedKeeps ==
  ASSUME TradeInv, NEW ps \in SUBSET Players, CloseTrade(ps), UNCHANGED <<parent, place>>,
         online' \subseteq online, \A p \in online \ online' : p \in ps \/ tradePartner[p] = None
  PROVE  TradeInv'
<1>1. TradeTypeOK' /\ Sides'
  BY Closed DEF TradeInv, TradeTypeOK
<1>2. Apart' /\ NoLoops'
  BY Closed, Unmoved, WithinItems DEF TradeInv, Apart, NoLoops
<1>3. InReach'
  BY Closed, Unmoved DEF TradeInv, InReach
<1>4. TradersArePresent'
  BY Closed DEF TradeInv, TradersArePresent
<1> QED
  BY <1>1, <1>2, <1>3, <1>4 DEF TradeInv
-----------------------------------------------------------------------------
(* Operations that leave the items where they are.                         *)

\* Game::internalStartTrade keeps the invariant.
LEMMA Requested ==
  ASSUME TradeInv, NEW p \in Players, NEW q \in Players, NEW i \in Items, RequestTrade(p, q, i),
         UNCHANGED online
  PROVE  TradeInv'
<1>1. /\ p \in online /\ q \in online /\ q # p /\ PlayersInReach(p, q) /\ ItemInReach(p, i)
      /\ ~IsTraded(i) /\ MayStart(p, q)
      /\ tradeState' = [tradeState EXCEPT ![p] = "INITIATED",
                                          ![q] = IF @ = "NONE" THEN "ACKNOWLEDGE" ELSE @]
      /\ tradePartner' = [tradePartner EXCEPT ![p] = q, ![q] = p]
      /\ tradeItem' = [tradeItem EXCEPT ![p] = i]
      /\ tradeItems' = [tradeItems EXCEPT ![i] = p]
      /\ UNCHANGED <<parent, place>>
  BY DEF RequestTrade
<1>2. TradeTypeOK'
  BY <1>1 DEF TradeInv, TradeTypeOK
\* Neither is in a trade with somebody else.
<1>3. /\ p # None /\ q # None /\ i # None
      /\ tradeItem[p] = None
      /\ tradePartner[p] \in {None, q} /\ tradePartner[q] \in {None, p}
      /\ tradePartner[p] = q <=> tradePartner[q] = p
  BY <1>1, TradeConstants DEF MayStart, TradeInv, Sides
<1>4. \A r \in Players : tradeItem[r] # i
  BY <1>1, TradeConstants DEF IsTraded, TradeInv, Sides
<1>5. \A r \in Players \ {p, q} :
        /\ tradeState'[r] = tradeState[r] /\ tradePartner'[r] = tradePartner[r]
        /\ tradeItem'[r] = tradeItem[r] /\ tradePartner[r] \notin {p, q}
  BY <1>1, <1>3, TradeConstants DEF TradeInv, TradeTypeOK, Sides
<1>6. /\ tradeState'[p] = "INITIATED" /\ tradePartner'[p] = q /\ tradeItem'[p] = i
      /\ tradePartner'[q] = p /\ tradeItem'[q] = tradeItem[q]
      /\ tradeState'[q] = IF tradeState[q] = "NONE" THEN "ACKNOWLEDGE" ELSE tradeState[q]
  BY <1>1 DEF TradeInv, TradeTypeOK
<1>7. Sides'
  <2>1. ASSUME NEW r \in Players
        PROVE  /\ tradeState'[r] = "NONE" <=> tradePartner'[r] = None
               /\ tradePartner'[r] = None => tradeItem'[r] = None
               /\ tradePartner'[r] # None =>
                    /\ tradePartner'[r] # r /\ tradePartner'[tradePartner'[r]] = r
                    /\ tradeItem'[r] # None \/ tradeItem'[tradePartner'[r]] # None
               /\ tradeState'[r] = "INITIATED" => tradeItem'[r] # None
               /\ tradeState'[r] = "ACKNOWLEDGE" => tradeItem'[r] = None
    <3>1. CASE r \in {p, q}
      BY <1>1, <1>3, <1>6, <3>1 DEF TradeInv, Sides
    <3>2. CASE r \notin {p, q}
      <4>1. tradePartner[r] # None => tradePartner[r] \in Players \ {p, q}
        BY <1>5, <3>2 DEF TradeInv, TradeTypeOK
      <4> QED
        BY <1>5, <3>2, <4>1 DEF TradeInv, Sides
    <3> QED
      BY <3>1, <3>2
  <2>2. ASSUME NEW j \in Items, NEW r \in Players PROVE tradeItems'[j] = r <=> tradeItem'[r] = j
    BY <1>1, <1>3, <1>4, TradeConstants DEF TradeInv, TradeTypeOK, Sides
  <2> QED
    BY <2>1, <2>2 DEF Sides
<1>8. Apart' /\ NoLoops'
  <2>1. \A j \in Items : tradeItems[j] # None => i # j /\ j \notin Within[i] /\ i \notin Within[j]
    BY <1>1 DEF IsTraded, Within, Holds
  <2>2. \A j \in Items : tradeItems'[j] = IF j = i THEN p ELSE tradeItems[j]
    BY <1>1 DEF TradeInv, TradeTypeOK
  <2>3. Within' = Within /\ \A j \in Items : Within[j] \subseteq Items
    BY <1>1, Unmoved, WithinItems
  <2> QED
    BY <2>1, <2>2, <2>3 DEF TradeInv, Apart, NoLoops
<1>9. InReach'
  <2>1. Reach' = Reach /\ Near' = Near
    BY <1>1, Unmoved
  <2>2. i \in Reach[p] /\ q \in Near[p]
    BY <1>1 DEF Reach, Near
  <2>3. p \in Near[q]
    BY <1>1, TradeConstants DEF Near, PlayersInReach, TradeInv, TradeTypeOK
  <2>4. ASSUME NEW r \in Players, tradeItem'[r] # None PROVE tradeItem'[r] \in Reach[r]
    BY <1>5, <1>6, <2>2, <2>4 DEF TradeInv, InReach
  <2>5. ASSUME NEW r \in Players, tradePartner'[r] # None PROVE tradePartner'[r] \in Near[r]
    BY <1>5, <1>6, <2>2, <2>3, <2>5 DEF TradeInv, InReach
  <2> QED
    BY <2>1, <2>4, <2>5 DEF InReach
<1>10. TradersArePresent'
  BY <1>1, <1>5 DEF TradeInv, TradersArePresent, TradeTypeOK
<1> QED
  BY <1>2, <1>7, <1>8, <1>9, <1>10 DEF TradeInv

\* So does the first player who accepts.
LEMMA AcceptedFirst ==
  ASSUME TradeInv, NEW p \in Players, AcceptFirst(p), UNCHANGED online
  PROVE  TradeInv'
<1>1. /\ tradeState[p] \in {"ACKNOWLEDGE", "INITIATED"}
      /\ tradeState' = [tradeState EXCEPT ![p] = "ACCEPT"]
      /\ UNCHANGED <<tradePartner, tradeItem, tradeItems, parent, place>>
  BY DEF AcceptFirst, MayAccept
<1>2. TradeTypeOK' /\ Sides'
  BY <1>1 DEF TradeInv, TradeTypeOK, Sides
<1>3. (Apart /\ NoLoops /\ InReach /\ TradersArePresent)'
  BY <1>1, Unmoved DEF TradeInv, Apart, NoLoops, InReach, TradersArePresent
<1> QED
  BY <1>2, <1>3 DEF TradeInv

\* Whose walk takes it out of reach has its trade closed; being in reach is mutual.
LEMMA Walked ==
  ASSUME TradeInv, NEW p \in Players, NEW x \in Places, Walk(p, x), UNCHANGED online
  PROVE  TradeInv'
<1>1. place' = [place EXCEPT ![p] = x] /\ UNCHANGED parent /\ x \in Nat
  BY TradeConstants DEF Walk
<1>2. \A r \in Players \ {p} : Reach'[r] = Reach[r]
  BY <1>1 DEF Reach, ItemInReach, TopIs, Contents, TradeInv, TradeTypeOK
<1>3. /\ \A r \in Players \ {p} : Near'[r] \ {p} = Near[r] \ {p}
      /\ \A t \in Players \ {p} :
           x - place[t] \in -PartnerReach .. PartnerReach => t \in Near'[p] /\ p \in Near'[t]
  BY <1>1, TradeConstants DEF Near, PlayersInReach, TradeInv, TradeTypeOK
<1>4. /\ TradeTypeOK' /\ Sides'
      /\ \A r \in Players : tradePartner'[r] # None => tradePartner'[r] = tradePartner[r]
      /\ \A r \in Players : tradeItem'[r] # None => tradeItem'[r] = tradeItem[r]
      /\ \A i \in Items : tradeItems'[i] # None => tradeItems'[i] = tradeItems[i]
      /\ (ItemTooFar(p, x) \/ PartnerTooFar(p, x)) => tradePartner'[p] = None
  <2>1. CASE ItemTooFar(p, x) \/ PartnerTooFar(p, x)
    <3>1. CloseTrade({p})
      BY <2>1 DEF Walk
    <3> QED
      BY <1>1, <3>1, Closed DEF TradeInv, TradeTypeOK
  <2>2. CASE ~(ItemTooFar(p, x) \/ PartnerTooFar(p, x))
    <3>1. UNCHANGED trades
      BY <2>2 DEF Walk
    <3> QED
      BY <1>1, <2>2, <3>1 DEF trades, TradeInv, TradeTypeOK, Sides
  <2> QED
    BY <2>1, <2>2
<1>5. ASSUME NEW r \in Players, tradeItem'[r] # None PROVE tradeItem'[r] \in Reach'[r]
  <2>1. tradeItem'[r] = tradeItem[r] /\ tradeItem[r] \in Items /\ tradeItem[r] \in Reach[r]
    BY <1>4, <1>5 DEF TradeInv, InReach, TradeTypeOK
  <2>2. CASE r # p
    BY <1>2, <2>1, <2>2
  <2>3. CASE r = p
    <3>1. ~ItemTooFar(p, x)
      BY <1>4, <1>5, <2>3 DEF Sides
    <3>2. TopIs(tradeItem[p], p) \/ (TopIs(tradeItem[p], Ground) /\ x <= ItemReach)
      BY <1>1, <2>1, <2>3, <3>1, TradeConstants DEF ItemTooFar, Reach, ItemInReach
    <3>3. \A i \in Items : (TopIs(i, p) \/ (TopIs(i, Ground) /\ x <= ItemReach)) => i \in Reach'[p]
      BY <1>1 DEF Reach, ItemInReach, TopIs, Contents, TradeInv, TradeTypeOK
    <3> QED
      BY <2>1, <2>3, <3>2, <3>3
  <2> QED
    BY <2>2, <2>3
<1>6. ASSUME NEW r \in Players, tradePartner'[r] # None PROVE tradePartner'[r] \in Near'[r]
  <2>1. PICK t \in Players : /\ tradePartner[r] = t /\ tradePartner'[r] = t /\ t # r
                             /\ tradePartner'[t] = r /\ t \in Near[r]
    BY <1>4, <1>6 DEF TradeInv, InReach, TradeTypeOK, Sides
  <2>2. CASE r # p /\ t # p
    BY <1>3, <2>1, <2>2
  <2>3. CASE r = p
    <3>1. x - place[t] \in -PartnerReach .. PartnerReach
      BY <1>4, <1>6, <2>1, <2>3 DEF PartnerTooFar
    <3> QED
      BY <1>3, <2>1, <2>3, <3>1
  <2>4. CASE t = p
    <3>1. tradePartner'[p] = r /\ tradePartner[p] = r /\ r # None
      BY <1>4, <2>1, <2>4, TradeConstants
    <3>2. x - place[r] \in -PartnerReach .. PartnerReach
      BY <1>4, <3>1 DEF PartnerTooFar
    <3> QED
      BY <1>3, <2>1, <2>4, <3>2
  <2> QED
    BY <2>2, <2>3, <2>4
<1>7. Apart' /\ NoLoops' /\ TradersArePresent'
  <2>1. Within' = Within /\ \A i \in Items : Within[i] \subseteq Items
    BY <1>1, WithinItems DEF Within, Contents
  <2> QED
    BY <1>4, <2>1 DEF TradeInv, Apart, NoLoops, TradersArePresent, Walk
<1> QED
  BY <1>4, <1>5, <1>6, <1>7 DEF TradeInv, InReach
-----------------------------------------------------------------------------
(* Bags within bags: the items of the game.                                *)

\* What carries an item carries what is in it,
LEMMA InnerTop ==
  ASSUME NEW t \in Items, NEW k \in Within[t], NEW a \in Tops[k]
  PROVE  a \in Tops[t]
<1>1. k \in Items /\ k \in Nested(parent, t)
  BY NestedItems DEF Within, Contents
<1>2. a \in Players \cup {Ground} /\ a \notin Items /\ k \in Nested(parent, a)
  BY <1>1, TradeConstants DEF Tops, TopIs, Contents
<1>3. t \in Nested(parent, a)
  BY <1>1, <1>2, NestedLine, NestedItems
<1> QED
  BY <1>2, <1>3 DEF Tops, TopIs, Contents

\* and only one player or place carries an item.
LEMMA OneTop ==
  ASSUME NEW t \in Items, NEW a \in Tops[t], NEW b \in Tops[t]
  PROVE  a = b
<1>1. /\ a \notin Items /\ t \in Nested(parent, a)
      /\ b \notin Items /\ t \in Nested(parent, b)
  BY TradeConstants DEF Tops, TopIs, Contents
<1> QED
  BY <1>1, NestedLine, NestedItems

\* An offered item is in reach, so it has a top: the player or the tile.
LEMMA OfferedHasTop ==
  ASSUME TradeInv, NEW p \in Players, tradeItem[p] # None
  PROVE  /\ tradeItem[p] \in Items
         /\ p \in Tops[tradeItem[p]] \/ Ground \in Tops[tradeItem[p]]
BY DEF TradeInv, TradeTypeOK, InReach, Reach, ItemInReach, Tops

\* What is not moved, and is in nothing that is moved, stays in reach.
LEMMA StaysInReach ==
  ASSUME NEW X \in SUBSET Items, \A x \in Items \ X : parent'[x] = parent[x],
         UNCHANGED place, NEW t \in Items \ X, \A c \in X : t \notin Within[c],
         NEW p \in Players, t \in Reach[p]
  PROVE  t \in Reach'[p] /\ parent'[t] = parent[t]
<1>1. \A c \in X : t \notin Nested(parent, c)
  BY DEF Within, Contents
<1>2. \A top : t \in Nested(parent, top) => t \in Nested(parent', top)
  BY <1>1, NestedStays
<1>3. t \in Nested(parent, p) \/ (t \in Nested(parent, Ground) /\ place[p] <= ItemReach)
  BY DEF Reach, ItemInReach, TopIs, Contents
<1>4. t \in Nested(parent', p) \/ (t \in Nested(parent', Ground) /\ place'[p] <= ItemReach)
  BY <1>2, <1>3
<1> QED
  BY <1>4 DEF Reach, ItemInReach, TopIs, Contents

\* What a standing offer keeps: its item's place and all that is in it.
Untouched ==
  \A p \in Players : tradeItem[p] # None /\ tradeItem'[p] = tradeItem[p] =>
    /\ parent'[tradeItem[p]] = parent[tradeItem[p]]
    /\ Within'[tradeItem[p]] = Within[tradeItem[p]]

\* Offered items whose places are as before, with all they hold, still stand.
LEMMA UntouchedStands == TradeTypeOK /\ Untouched => OfferedUntouched
<1> SUFFICES ASSUME TradeTypeOK, Untouched, NEW p \in Players, NEW t \in Items,
                    tradeItem[p] = t, tradeItem'[p] = t
             PROVE  parent'[t] = parent[t] /\ Contents(t)' = Contents(t)
  BY TradeConstants DEF OfferedUntouched, TradeTypeOK
<1>1. parent'[t] = parent[t] /\ Within'[t] = Within[t]
  BY TradeConstants DEF Untouched
<1>2. Contents(t) = Within[t] /\ Contents(t)' = Within'[t]
  BY DEF Contents, Within
<1> QED
  BY <1>1, <1>2

\* The invariant after items have moved and the trades they disturb are closed.
LEMMA MovedAndClosed ==
  ASSUME TradeInv, NEW ps \in SUBSET Players, CloseTrade(ps), UNCHANGED <<place, online>>,
         parent' \in [Items -> Containers \cup Players \cup {Ground, Nowhere}], NoLoops', Untouched,
         \A p \in Players : tradeItem'[p] # None => tradeItem[p] \in Reach'[p]
  PROVE  TradeInv'
<1>1. TradeTypeOK' /\ Sides'
  BY Closed DEF TradeInv, TradeTypeOK
<1>2. Near' = Near
  BY DEF Near, PlayersInReach
<1>3. InReach' /\ TradersArePresent'
  BY <1>2, Closed DEF TradeInv, InReach, TradersArePresent
<1>4. ASSUME NEW i \in Items, NEW j \in Within'[i], tradeItems'[i] # None, tradeItems'[j] # None
      PROVE  FALSE
  <2>1. j \in Items
    BY NestedItems DEF Within, Contents
  <2>2. PICK p \in Players : tradeItems'[i] = p
    BY <1>1, <1>4 DEF TradeTypeOK
  <2>3. tradeItem'[p] = i /\ tradeItem[p] = i /\ i # None
    BY <1>1, <2>2, Closed, TradeConstants DEF TradeInv, Sides
  <2>4. j \in Within[i]
    BY <2>3 DEF Untouched
  <2>5. tradeItems[i] # None /\ tradeItems[j] # None
    BY <1>4, <2>1, Closed DEF TradeInv
  <2> QED
    BY <2>4, <2>5 DEF TradeInv, Apart
<1>5. Apart'
  BY <1>4 DEF Apart
<1> QED
  BY <1>1, <1>3, <1>5 DEF TradeInv

\* Taking i from where it is disturbs who offers it, what is in it or what it is in.
LEMMA Undisturbed ==
  ASSUME TradeInv, NEW p \in Players, NEW t \in Items, tradeItem[p] = t, NEW i \in Items,
         ~Disturbs(p, i)
  PROVE  /\ t # i /\ i \notin Within[t] /\ t \notin Within[i]
         /\ parent[t] # i /\ parent[i] # t
<1>1. /\ t # i /\ i \notin Within[t] /\ t # None
      /\ parent[i] \notin Items => t \notin Within[i]
      /\ parent[i] \in Items => parent[t] = parent[i] \/ t \notin Within[parent[i]]
  BY TradeConstants DEF Disturbs, Holds, Within
<1>2. \A x \in Items : x \notin Nested(parent, x)
  BY DEF TradeInv, NoLoops, Within, Contents
<1>3. t \notin Within[i]
  <2> SUFFICES ASSUME t \in Nested(parent, i) PROVE FALSE
    BY DEF Within, Contents
  <2>1. parent[i] \in Items /\ (parent[t] = parent[i] \/ t \notin Nested(parent, parent[i]))
    BY <1>1 DEF Within, Contents
  <2>2. i \in Nested(parent, parent[i])
    BY NestedStep
  <2>3. t \in Nested(parent, parent[i])
    BY <2>2, NestedDeeper
  <2>4. parent[t] = i \/ parent[t] \in Nested(parent, i)
    BY NestedStep
  <2>5. parent[i] = i \/ parent[i] \in Nested(parent, i)
    BY <2>1, <2>3, <2>4
  <2>6. i \in Nested(parent, i)
    BY <2>5, NestedStep
  <2> QED
    BY <1>2, <2>6
<1>4. parent[t] # i /\ parent[i] # t
  BY <1>1, <1>3, NestedStep DEF Within, Contents
<1> QED
  BY <1>1, <1>3, <1>4

\* A move ends the trades whose items it takes, takes from or puts into, and
\* touches no item that is still offered.
LEMMA Moved ==
  ASSUME TradeInv, NEW q \in Players, NEW i \in Items, NEW d \in Players \cup Containers \cup {Ground},
         MoveItem(q, i, d), UNCHANGED online
  PROVE  TradeInv' /\ Untouched
<1> DEFINE ps == {t \in Players : Disturbs(t, i) \/ Fills(t, d)}
<1>1. /\ parent' = [parent EXCEPT ![i] = d] /\ CloseTrade(ps) /\ UNCHANGED place
      /\ d # i /\ d \notin Nested(parent, i)
  BY TradeConstants, NestedItems DEF MoveItem, MayPut, Holds, Contents
<1>2. /\ parent' \in [Items -> Containers \cup Players \cup {Ground, Nowhere}]
      /\ parent'[i] = d /\ \A x \in Items \ {i} : parent'[x] = parent[x]
  BY <1>1 DEF TradeInv, TradeTypeOK
<1>3. NoLoops'
  <2>1. \A x \in Items : x \notin Nested(parent, x)
    BY DEF TradeInv, NoLoops, Within, Contents
  <2>2. \A x \in Items : x \notin Nested(parent', x)
    BY <1>1, <1>2, <2>1, MovedWithoutLoops
  <2> QED
    BY <2>2 DEF NoLoops, Within, Contents
<1>4. ASSUME NEW p \in Players, NEW t \in Items, tradeItem[p] = t, tradeItem'[p] = t
      PROVE  t \in Reach'[p] /\ parent'[t] = parent[t] /\ Within'[t] = Within[t]
  <2>1. p \notin ps /\ ps \subseteq Players /\ t # None
    BY <1>1, <1>4, Closed, TradeConstants DEF TradeInv
  <2>2. ~Disturbs(p, i) /\ ~Fills(p, d)
    BY <2>1
  <2>3. t # i /\ i \notin Within[t] /\ t \notin Within[i] /\ parent[t] # i /\ parent[i] # t
    BY <1>4, <2>2, Undisturbed
  <2>4. t # d /\ d \notin Nested(parent, t)
    BY <1>4, <2>1, <2>2, NestedItems DEF Fills, Holds, Contents
  <2>5. t \in Reach'[p] /\ parent'[t] = parent[t]
    <3>1. t \in Reach[p]
      BY <1>4, <2>1 DEF TradeInv, InReach
    <3>2. {i} \in SUBSET Items /\ t \in Items \ {i} /\ \A c \in {i} : t \notin Within[c]
      BY <2>3
    <3>3. UNCHANGED place
      BY <1>1
    <3> HIDE DEF ps
    <3> QED
      BY <1>2, <3>1, <3>2, <3>3, StaysInReach
  <2>6. Nested(parent', t) = Nested(parent, t)
    <3>1. i \notin Nested(parent, t)
      BY <2>3 DEF Within, Contents
    <3>2. d # i /\ d \notin Nested(parent, i)
      BY <1>1
    <3> HIDE DEF ps
    <3> QED
      BY <1>2, <2>3, <2>4, <3>1, <3>2, MovedElsewhere
  <2> QED
    BY <2>5, <2>6 DEF Within, Contents
<1>5. Untouched
  BY <1>4 DEF Untouched, TradeInv, TradeTypeOK
<1>6. \A p \in Players : tradeItem'[p] # None => tradeItem[p] \in Reach'[p]
  <2>1. ps \subseteq Players
    OBVIOUS
  <2>2. \A p \in Players : tradeItem'[p] # None => tradeItem'[p] = tradeItem[p] /\ tradeItem[p] \in Items
    BY <1>1, <2>1, Closed DEF TradeInv, TradeTypeOK
  <2> QED
    BY <1>4, <2>2
<1> QED
  BY <1>1, <1>2, <1>3, <1>5, <1>6, MovedAndClosed

\* Game::internalRemoveItem ends the trade of what it takes away.
LEMMA Removed ==
  ASSUME TradeInv, NEW i \in Items, RemoveItem(i), UNCHANGED online
  PROVE  TradeInv' /\ Untouched
<1> DEFINE ps == {t \in Players : Disturbs(t, i)}
           X == {i} \cup Within[i]
<1>1. CloseTrade(ps) /\ UNCHANGED place /\ ps \subseteq Players
  BY DEF RemoveItem
<1>2. /\ X \subseteq Items
      /\ \A j \in Items : parent'[j] = IF j \in X THEN Nowhere ELSE parent[j]
      /\ \A j \in Items : parent[j] \in X => j \in X
  <2>1. \A j \in Items : parent[j] \in {i} \cup Nested(parent, i) => j \in Nested(parent, i)
    BY NestedStep
  <2> QED
    BY <2>1, WithinItems DEF RemoveItem, Within, Holds, Contents
<1>4. parent' \in [Items -> Containers \cup Players \cup {Ground, Nowhere}]
  BY DEF RemoveItem, TradeInv, TradeTypeOK
<1> HIDE DEF ps, X
<1>5. ASSUME NEW c \in Items
      PROVE  /\ Nested(parent', c) \subseteq Nested(parent, c)
             /\ Nested(parent, c) \cap X = {} => Nested(parent', c) = Nested(parent, c)
  BY <1>2, NestedRemoved, TradeConstants
<1>6. NoLoops'
  BY <1>5 DEF TradeInv, NoLoops, Within, Contents
<1>7. ASSUME NEW p \in Players, NEW t \in Items, tradeItem[p] = t, tradeItem'[p] = t
      PROVE  t \in Reach'[p] /\ parent'[t] = parent[t] /\ Within'[t] = Within[t]
  <2>1. p \notin ps /\ t # None
    BY <1>1, <1>7, Closed, TradeConstants DEF TradeInv
  <2>2. ~Disturbs(p, i)
    BY <2>1 DEF ps
  <2>3. t # i /\ i \notin Nested(parent, t) /\ t \notin Nested(parent, i)
    BY <1>7, <2>2, Undisturbed DEF Within, Contents
  <2>4. t \in Items \ X
    BY <2>3 DEF X, Within, Contents
  <2>5. \A c \in X : t \notin Within[c]
    <3>1. ASSUME NEW c \in X, t \in Nested(parent, c) PROVE FALSE
      <4>1. c \in Nested(parent, i)
        BY <2>3, <3>1 DEF X, Within, Contents
      <4>2. t \in Nested(parent, i)
        BY <3>1, <4>1, NestedDeeper
      <4> QED
        BY <2>3, <4>2
    <3> QED
      BY <1>2, <3>1 DEF Within, Contents
  <2>6. t \in Reach'[p] /\ parent'[t] = parent[t]
    <3>1. t \in Reach[p]
      BY <1>7, <2>1 DEF TradeInv, InReach
    <3>2. X \in SUBSET Items /\ (\A x \in Items \ X : parent'[x] = parent[x]) /\ UNCHANGED place
      BY <1>1, <1>2
    <3> QED
      BY <2>4, <2>5, <3>1, <3>2, StaysInReach
  <2>7. Nested(parent, t) \cap X = {}
    <3>1. ASSUME NEW k \in Nested(parent, t), k \in X PROVE FALSE
      <4>1. k \in Nested(parent, i)
        BY <2>3, <3>1 DEF X, Within, Contents
      <4> QED
        BY <2>3, <3>1, <4>1, NestedLine
    <3> QED
      BY <3>1
  <2>8. Nested(parent', t) = Nested(parent, t)
    BY <1>5, <2>7
  <2> QED
    BY <2>6, <2>8 DEF Within, Contents
<1>8. Untouched
  BY <1>7 DEF Untouched, TradeInv, TradeTypeOK
<1>9. \A p \in Players : tradeItem'[p] # None => tradeItem[p] \in Reach'[p]
  <2>1. \A p \in Players : tradeItem'[p] # None => tradeItem'[p] = tradeItem[p] /\ tradeItem[p] \in Items
    BY <1>1, Closed DEF TradeInv, TradeTypeOK
  <2> QED
    BY <1>7, <2>1
<1> QED
  BY <1>1, <1>4, <1>6, <1>8, <1>9, MovedAndClosed

\* What q gets is put into nothing that is offered.
LEMMA OutsideOffers ==
  ASSUME TradeInv, NEW q \in Players, tradeItem[q] # None, NEW d \in Destinations(q, tradeItem[q]),
         NEW r \in Players, NEW k \in Items, tradeItem[r] = k
  PROVE  /\ d \in Containers \cup Players \cup {Ground, Nowhere}
         /\ d # k /\ d \notin Nested(parent, k)
<1>1. \/ d = q
      \/ d \in Containers /\ TopIs(d, q) /\ d # tradeItem[q] /\ d \notin Nested(parent, tradeItem[q])
  BY DEF Destinations, Holds, Contents
<1>2. CASE d = q
  BY <1>2, TradeConstants, NestedItems
<1>3. CASE d # q /\ r # q
  <2>1. d \in Items /\ q \in Tops[d]
    BY <1>1, <1>3, TradeConstants DEF Tops
  <2>2. d = k \/ d \in Nested(parent, k) => q \in Tops[k]
    BY <2>1, InnerTop DEF Within, Contents
  <2>3. r \in Tops[k] \/ Ground \in Tops[k]
    BY OfferedHasTop, TradeConstants
  <2>4. q # r /\ q # Ground
    BY <1>3, TradeConstants
  <2>5. q \notin Tops[k]
    BY <2>3, <2>4, OneTop
  <2> QED
    BY <1>1, <1>3, <2>2, <2>5
<1>4. CASE d # q /\ r = q
  BY <1>1, <1>4
<1> QED
  BY <1>2, <1>3, <1>4

\* Items of a trade that go over take nothing that others offer along, and bring
\* nothing into it.
LEMMA HandedOver ==
  ASSUME TradeInv, NEW ps \in SUBSET Players, CloseTrade(ps), UNCHANGED <<place, online>>,
         NEW gone \in SUBSET Items,
         \A k \in gone : tradeItems[k] # None /\ \A r \in Players : tradeItem[r] = k => tradeItem'[r] # k,
         parent' \in [Items -> Containers \cup Players \cup {Ground, Nowhere}], NoLoops',
         \A x \in Items \ gone : parent'[x] = parent[x],
         \A r \in Players, t \in Items \ gone : tradeItem[r] = t => Nested(parent', t) = Nested(parent, t)
  PROVE  TradeInv' /\ Untouched
<1>1. ASSUME NEW r \in Players, NEW t \in Items, tradeItem[r] = t, tradeItem'[r] = t
      PROVE  t \in Reach'[r] /\ parent'[t] = parent[t] /\ Within'[t] = Within[t]
  <2>1. t # None /\ t \in Items \ gone
    BY <1>1, TradeConstants
  <2>2. \A k \in gone : t \notin Within[k]
    <3>1. tradeItems[t] # None
      BY <1>1, TradeConstants DEF TradeInv, Sides
    <3> QED
      BY <3>1 DEF TradeInv, Apart
  <2>3. t \in Reach[r]
    BY <1>1, <2>1 DEF TradeInv, InReach
  <2>4. t \in Reach'[r] /\ parent'[t] = parent[t]
    BY <2>1, <2>2, <2>3, StaysInReach
  <2>5. Nested(parent', t) = Nested(parent, t)
    BY <1>1, <2>1
  <2> QED
    BY <2>4, <2>5 DEF Within, Contents
<1>2. Untouched
  BY <1>1 DEF Untouched, TradeInv, TradeTypeOK
<1>3. \A r \in Players : tradeItem'[r] # None => tradeItem[r] \in Reach'[r]
  <2>1. \A r \in Players : tradeItem'[r] # None => tradeItem'[r] = tradeItem[r] /\ tradeItem[r] \in Items
    BY Closed DEF TradeInv, TradeTypeOK
  <2> QED
    BY <1>1, <2>1
<1> QED
  BY <1>2, <1>3, MovedAndClosed

\* Game::playerAcceptTrade exchanges the items, or gives one away, and ends the trade.
LEMMA AcceptedSecond ==
  ASSUME TradeInv, NEW p \in Players, AcceptSecond(p), UNCHANGED online
  PROVE  TradeInv' /\ Untouched
<1> DEFINE q == tradePartner[p]
           i == tradeItem[p]
           j == tradeItem[q]
<1>1. /\ UNCHANGED place
      /\ \/ UNCHANGED parent /\ CloseTrade({p})
         \/ /\ None \notin {i, j}
            /\ \E d \in Destinations(q, j), ps \in SUBSET Players :
                 /\ p \in ps /\ CloseTrade(ps)
                 /\ \/ parent' = [parent EXCEPT ![i] = d]
                    \/ \E e \in Destinations(p, i) : parent' = [parent EXCEPT ![i] = d, ![j] = e]
  <2> DEFINE Others(k, d) == {r \in Players \ {p, q} : Disturbs(r, k) \/ Fills(r, d)}
  <2>1. /\ UNCHANGED place
        /\ \/ UNCHANGED parent /\ CloseTrade({p})
           \/ /\ None \notin {i, j}
              /\ \E d \in Destinations(q, j) :
                   \/ /\ parent' = [parent EXCEPT ![i] = d]
                      /\ CloseTrade({p} \cup Others(i, d))
                   \/ \E e \in Destinations(p, i) :
                        /\ parent' = [parent EXCEPT ![i] = d, ![j] = e]
                        /\ CloseTrade({p} \cup Others(i, d) \cup Others(j, e))
    BY DEF AcceptSecond
  <2>2. \A k, d : Others(k, d) \subseteq Players
    OBVIOUS
  <2> HIDE DEF Others, q, i, j
  <2> QED
    BY <2>1, <2>2
<1>2. q \in Players /\ q # p /\ tradePartner[q] = p
  BY DEF AcceptSecond, MayAccept, TradeInv, TradeTypeOK, Sides
<1>3. CASE UNCHANGED parent /\ CloseTrade({p})
  <2>1. TradeInv'
    BY <1>1, <1>3, ClosedKeeps
  <2>2. Untouched
    BY <1>1, <1>3, Unmoved DEF Untouched
  <2> QED
    BY <2>1, <2>2
<1>4. ASSUME None \notin {i, j}, NEW d \in Destinations(q, j), NEW ps \in SUBSET Players,
             p \in ps, CloseTrade(ps),
             \/ parent' = [parent EXCEPT ![i] = d]
             \/ \E e \in Destinations(p, i) : parent' = [parent EXCEPT ![i] = d, ![j] = e]
      PROVE  TradeInv' /\ Untouched
  <2>1. i \in Items /\ j \in Items /\ i # j
    BY <1>2, <1>4 DEF TradeInv, TradeTypeOK, Sides
  <2>2. \A r \in Players, k \in Items : tradeItem[r] = k =>
          /\ d \in Containers \cup Players \cup {Ground, Nowhere} /\ d # k /\ d \notin Nested(parent, k)
          /\ \A e \in Destinations(p, i) :
               e \in Containers \cup Players \cup {Ground, Nowhere} /\ e # k /\ e \notin Nested(parent, k)
    BY <1>2, <1>4, OutsideOffers
  <2>3. \A r \in Players, t \in Items \ {i, j} : tradeItem[r] = t =>
          i \notin Nested(parent, t) /\ j \notin Nested(parent, t)
    <3>1. \A r \in Players, t \in Items : tradeItem[r] = t => tradeItems[t] # None
      BY TradeConstants DEF TradeInv, Sides
    <3>2. tradeItems[i] # None /\ tradeItems[j] # None
      BY <1>2, <2>1, <3>1
    <3> QED
      BY <2>1, <3>1, <3>2 DEF TradeInv, Apart, Within, Contents
\* Both sides of the trade are closed.
  <2>4. /\ \A k \in {i, j} : tradeItems[k] # None
        /\ \A r \in Players : tradeItem[r] \in {i, j} => tradeItem'[r] # tradeItem[r]
    <3>1. tradeItem[p] = i /\ tradeItem[q] = j /\ tradePartner[p] = q
      OBVIOUS
    <3> HIDE DEF q, i, j
    <3>2. tradeItems[i] = p /\ tradeItems[j] = q /\ \A r \in Players : tradeItem[r] \in {i, j} => r \in {p, q}
      BY <1>2, <2>1, <3>1, TradeConstants DEF TradeInv, Sides
    <3>3. tradePartner'[p] = None /\ Sides'
      BY <1>4, Closed DEF TradeInv
    <3>4. tradePartner'[q] = None
      BY <1>2, <1>4, <3>3, Closed, TradeConstants DEF TradeInv, Sides
    <3>5. tradeItem'[p] = None /\ tradeItem'[q] = None
      BY <1>2, <3>3, <3>4 DEF Sides
    <3> QED
      BY <1>2, <2>1, <3>1, <3>2, <3>5, TradeConstants
  <2>5. \A x \in Items : x \notin Nested(parent, x)
    BY DEF TradeInv, NoLoops, Within, Contents
  <2> DEFINE f == [parent EXCEPT ![i] = d]
  <2>6. /\ d \in Containers \cup Players \cup {Ground, Nowhere}
        /\ d # i /\ d # j /\ d \notin Nested(parent, i) /\ d \notin Nested(parent, j)
    BY <1>2, <2>1, <2>2
  <2>7. /\ f \in [Items -> Containers \cup Players \cup {Ground, Nowhere}]
        /\ f[i] = d /\ \A x \in Items \ {i} : f[x] = parent[x]
    BY <2>1, <2>6 DEF TradeInv, TradeTypeOK
  <2> HIDE DEF q, i, j, f
  <2>8. \A x \in Items : x \notin Nested(f, x)
    BY <2>1, <2>5, <2>6, <2>7, MovedWithoutLoops
  <2>9. \A r \in Players, t \in Items \ {i, j} : tradeItem[r] = t => Nested(f, t) = Nested(parent, t)
    BY <2>1, <2>2, <2>3, <2>6, <2>7, MovedElsewhere
  <2>10. CASE parent' = f
    <3>1. NoLoops'
      BY <2>8, <2>10 DEF NoLoops, Within, Contents
    <3> DEFINE gone == {i}
    <3>2. \A t \in Items : tradeItem[q] = t => t = j
      BY DEF j
    <3>3. \A r \in Players : tradeItem[r] = j => Nested(f, j) = Nested(parent, j)
      <4>1. i \notin Nested(parent, j)
        BY <2>1, <2>4 DEF TradeInv, Apart, Within, Contents
      <4> QED
        BY <2>1, <2>6, <2>7, <4>1, MovedElsewhere
    <3>4. /\ gone \in SUBSET Items /\ \A x \in Items \ gone : parent'[x] = parent[x]
          /\ \A k \in gone : tradeItems[k] # None /\ \A r \in Players : tradeItem[r] = k => tradeItem'[r] # k
          /\ \A r \in Players, t \in Items \ gone :
               tradeItem[r] = t => Nested(parent', t) = Nested(parent, t)
      BY <2>1, <2>4, <2>7, <2>9, <2>10, <3>3
    <3> HIDE DEF gone
    <3> QED
      BY <1>1, <1>4, <2>7, <2>10, <3>1, <3>4, HandedOver
  <2>11. ASSUME NEW e \in Destinations(p, i), parent' = [f EXCEPT ![j] = e] PROVE TradeInv' /\ Untouched
    <3>1. /\ e \in Containers \cup Players \cup {Ground, Nowhere}
          /\ e # i /\ e # j /\ e \notin Nested(parent, i) /\ e \notin Nested(parent, j)
      BY <1>2, <2>1, <2>2 DEF i, j
    <3>2. /\ parent' \in [Items -> Containers \cup Players \cup {Ground, Nowhere}]
          /\ parent'[j] = e /\ \A x \in Items \ {j} : parent'[x] = f[x]
      BY <2>1, <2>7, <2>11, <3>1
    <3>3. e \notin Nested(f, j)
      BY <2>1, <2>6, <2>7, <3>1, NestedMoved
    <3>4. NoLoops'
      <4>1. \A x \in Items : x \notin Nested(parent', x)
        BY <2>1, <2>8, <3>1, <3>2, <3>3, MovedWithoutLoops
      <4> QED
        BY <4>1 DEF NoLoops, Within, Contents
    <3>5. \A r \in Players, t \in Items \ {i, j} : tradeItem[r] = t => Nested(parent', t) = Nested(parent, t)
      <4>1. ASSUME NEW r \in Players, NEW t \in Items \ {i, j}, tradeItem[r] = t
            PROVE  Nested(parent', t) = Nested(f, t)
        <5>1. j \notin Nested(f, t) /\ e # t /\ e \notin Nested(f, t) /\ t # j
          BY <2>2, <2>3, <2>9, <4>1
        <5> QED
          BY <2>1, <3>1, <3>2, <3>3, <5>1, MovedElsewhere
      <4> QED
        BY <2>9, <4>1
    <3> DEFINE gone == {i, j}
    <3>6. /\ gone \in SUBSET Items /\ \A x \in Items \ gone : parent'[x] = parent[x]
          /\ \A k \in gone : tradeItems[k] # None /\ \A r \in Players : tradeItem[r] = k => tradeItem'[r] # k
          /\ \A r \in Players, t \in Items \ gone :
               tradeItem[r] = t => Nested(parent', t) = Nested(parent, t)
      BY <2>1, <2>4, <2>7, <3>2, <3>5
    <3> HIDE DEF gone
    <3> QED
      BY <1>1, <1>4, <3>2, <3>4, <3>6, HandedOver
  <2>12. parent' = f \/ \E e \in Destinations(p, i) : parent' = [f EXCEPT ![j] = e]
    BY <1>4 DEF f
  <2> QED
    BY <2>10, <2>11, <2>12
<1> HIDE DEF q, i, j
<1> QED
  BY <1>1, <1>3, <1>4
-----------------------------------------------------------------------------
(* What every step of a trade keeps.                                       *)

\* Nothing is touched when no item moves.
LEMMA StillUntouched == UNCHANGED parent => Untouched
BY DEF Untouched, Within, Contents

\* Every step of a trade while the players stay keeps the invariant.
LEMMA TradeKept == TradeInv /\ TradeNext /\ UNCHANGED online => TradeInv' /\ OfferedUntouched
<1> SUFFICES ASSUME TradeInv, TradeNext, UNCHANGED online PROVE TradeInv' /\ Untouched
  BY UntouchedStands DEF TradeInv
<1>1. ASSUME NEW p \in Players, NEW q \in Players, NEW i \in Items, RequestTrade(p, q, i)
      PROVE  TradeInv' /\ Untouched
  BY <1>1, Requested, StillUntouched DEF RequestTrade
<1>2. ASSUME NEW p \in Players, AcceptFirst(p) PROVE TradeInv' /\ Untouched
  BY <1>2, AcceptedFirst, StillUntouched DEF AcceptFirst
<1>3. ASSUME NEW p \in Players, AcceptSecond(p) PROVE TradeInv' /\ Untouched
  BY <1>3, AcceptedSecond
<1>4. ASSUME NEW p \in Players, CancelTrade(p) PROVE TradeInv' /\ Untouched
  <2>1. CloseTrade({p}) /\ {p} \in SUBSET Players /\ UNCHANGED <<parent, place>>
    BY <1>4 DEF CancelTrade
  <2> QED
    BY <2>1, ClosedKeeps, StillUntouched
<1>5. ASSUME NEW p \in Players, NEW x \in Places, Walk(p, x) PROVE TradeInv' /\ Untouched
  BY <1>5, Walked, StillUntouched DEF Walk
<1>6. ASSUME NEW p \in Players, NEW i \in Items, NEW d \in Players \cup Containers \cup {Ground},
             MoveItem(p, i, d)
      PROVE  TradeInv' /\ Untouched
  BY <1>6, Moved
<1>7. ASSUME NEW i \in Items, RemoveItem(i) PROVE TradeInv' /\ Untouched
  BY <1>7, Removed
<1> QED
  BY <1>1, <1>2, <1>3, <1>4, <1>5, <1>6, <1>7 DEF TradeNext

\* Who leaves the game leaves its trade.
LEMMA TradeLeft ==
  ASSUME TradeInv, NEW p \in Players, online' = online \ {p}, TradeLogout(p),
         UNCHANGED <<parent, place>>
  PROVE  TradeInv' /\ OfferedUntouched
<1>1. TradeInv'
  <2>1. CASE tradePartner[p] # None
    <3>1. CloseTrade({p}) /\ {p} \in SUBSET Players
      BY <2>1 DEF TradeLogout
    <3> QED
      BY <3>1, ClosedKeeps
  <2>2. CASE tradePartner[p] = None
    <3>1. UNCHANGED <<tradeState, tradePartner, tradeItem, tradeItems>>
      BY <2>2 DEF TradeLogout, trades
    <3> QED
      BY <2>2, <3>1, Unmoved
      DEF TradeInv, TradeTypeOK, Sides, Apart, NoLoops, InReach, TradersArePresent
  <2> QED
    BY <2>1, <2>2
<1> QED
  BY <1>1, StillUntouched, UntouchedStands DEF TradeInv

\* So does any step of the other parts after which nobody who is gone trades.
LEMMA TradeAsBefore ==
  ASSUME TradeInv, \A p \in Players \ online' : tradePartner[p] = None, online' \subseteq Players,
         UNCHANGED tradeVars
  PROVE  TradeInv' /\ OfferedUntouched
<1>1. TradeInv'
  BY Unmoved
  DEF tradeVars, TradeInv, TradeTypeOK, Sides, Apart, NoLoops, InReach, TradersArePresent
<1> QED
  BY <1>1, StillUntouched, UntouchedStands DEF TradeInv, tradeVars
-----------------------------------------------------------------------------
(* The market.                                                             *)

Coins == [gold : Nat, goods : Nat]
PurseStates == [live : [Players -> Coins], stored : [Players -> Coins]]
Offers == [owner : Players, sells : BOOLEAN, amount : Nat]

MarketTypeOK ==
  /\ online \subseteq Players
  /\ Purses \in PurseStates
  /\ offers \in [OfferIds -> Offers \cup {None}] /\ rows \in [OfferIds -> Offers \cup {None}]
  /\ minted \in [gold : Int, goods : Int]

MarketInv == MarketTypeOK /\ Accounted

\* What is in all purses together, and in all offers.
Purse(s, p) == IF p \in online THEN s.live[p] ELSE s.stored[p]
GoldIn(s) == SumFunction([p \in Players |-> Purse(s, p).gold])
GoodsIn(s) == SumFunction([p \in Players |-> Purse(s, p).goods])
OfferedGold(os) == SumFunction([i \in OfferIds |-> EscrowGold(os[i])])
OfferedGoods(os) == SumFunction([i \in OfferIds |-> EscrowGoods(os[i])])

\* One purse more or less full makes all purses more or less full.
LEMMA OnePurse ==
  ASSUME NEW s \in PurseStates, NEW t \in PurseStates, NEW p \in Players,
         \A q \in Players \ {p} : Purse(t, q) = Purse(s, q)
  PROVE  /\ GoldIn(t) = GoldIn(s) + Purse(t, p).gold - Purse(s, p).gold
         /\ GoodsIn(t) = GoodsIn(s) + Purse(t, p).goods - Purse(s, p).goods
<1> DEFINE F(u) == [q \in Players |-> Purse(u, q).gold]
           G(u) == [q \in Players |-> Purse(u, q).goods]
<1>1. /\ F(s) \in [Players -> Int] /\ F(t) \in [Players -> Int]
      /\ G(s) \in [Players -> Int] /\ G(t) \in [Players -> Int]
  BY DEF PurseStates, Purse, Coins
<1>2. \A q \in Players \ {p} : F(t)[q] = F(s)[q] /\ G(t)[q] = G(s)[q]
  OBVIOUS
<1>3. /\ F(s)[p] = Purse(s, p).gold /\ F(t)[p] = Purse(t, p).gold
      /\ G(s)[p] = Purse(s, p).goods /\ G(t)[p] = Purse(t, p).goods
  OBVIOUS
<1>4. /\ GoldIn(s) = SumFunction(F(s)) /\ GoldIn(t) = SumFunction(F(t))
      /\ GoodsIn(s) = SumFunction(G(s)) /\ GoodsIn(t) = SumFunction(G(t))
  BY DEF GoldIn, GoodsIn
<1>5. IsFiniteSet(Players)
  BY MarketAssumption
<1> HIDE DEF F, G
<1>6. SumFunction(F(t)) = SumFunction(F(s)) + F(t)[p] - F(s)[p]
  BY <1>1, <1>2, <1>5, SumChanges
<1>7. SumFunction(G(t)) = SumFunction(G(s)) + G(t)[p] - G(s)[p]
  BY <1>1, <1>2, <1>5, SumChanges
<1> QED
  BY <1>3, <1>4, <1>6, <1>7

\* Sums of what purses and offers hold are numbers.
LEMMA GoldIsInt == \A s \in PurseStates : GoldIn(s) \in Int /\ GoodsIn(s) \in Int
<1> SUFFICES ASSUME NEW s \in PurseStates PROVE GoldIn(s) \in Int /\ GoodsIn(s) \in Int
  OBVIOUS
<1> DEFINE f == [q \in Players |-> Purse(s, q).gold]
           g == [q \in Players |-> Purse(s, q).goods]
<1>1. f \in [Players -> Int] /\ g \in [Players -> Int] /\ IsFiniteSet(Players)
  BY MarketAssumption DEF PurseStates, Purse, Coins
<1>2. GoldIn(s) = SumFunction(f) /\ GoodsIn(s) = SumFunction(g)
  BY DEF GoldIn, GoodsIn
<1> HIDE DEF f, g
<1> QED
  BY <1>1, <1>2, SumIsInt

\* A credit fills the purse that counts, in memory or in the database.
LEMMA Credited ==
  \A s \in PurseStates, p \in Players, gold \in Nat, goods \in Nat :
    /\ Credit(s, p, gold, goods) \in PurseStates
    /\ GoldIn(Credit(s, p, gold, goods)) = GoldIn(s) + gold
    /\ GoodsIn(Credit(s, p, gold, goods)) = GoodsIn(s) + goods
<1> SUFFICES ASSUME NEW s \in PurseStates, NEW p \in Players, NEW gold \in Nat, NEW goods \in Nat
             PROVE  /\ Credit(s, p, gold, goods) \in PurseStates
                    /\ GoldIn(Credit(s, p, gold, goods)) = GoldIn(s) + gold
                    /\ GoodsIn(Credit(s, p, gold, goods)) = GoodsIn(s) + goods
  OBVIOUS
<1> DEFINE t == Credit(s, p, gold, goods)
<1>1. t \in PurseStates
  <2>1. Add(s.live[p], gold, goods) \in Coins /\ Add(s.stored[p], gold, goods) \in Coins
    BY DEF PurseStates, Coins, Add
  <2> QED
    BY <2>1 DEF Credit, PurseStates
<1>2. \A q \in Players \ {p} : Purse(t, q) = Purse(s, q)
  BY DEF Credit, PurseStates, Purse
<1>3. Purse(t, p) = Add(Purse(s, p), gold, goods)
  BY DEF Credit, PurseStates, Purse
<1>4. Purse(s, p) \in Coins
  BY DEF PurseStates, Purse
<1>5. Purse(t, p).gold = Purse(s, p).gold + gold /\ Purse(t, p).goods = Purse(s, p).goods + goods
  BY <1>3 DEF Add
<1> HIDE DEF t
<1>6. /\ GoldIn(t) = GoldIn(s) + Purse(t, p).gold - Purse(s, p).gold
      /\ GoodsIn(t) = GoodsIn(s) + Purse(t, p).goods - Purse(s, p).goods
  BY <1>1, <1>2, OnePurse
<1>7. GoldIn(s) \in Int /\ GoodsIn(s) \in Int /\ Purse(s, p).gold \in Nat /\ Purse(s, p).goods \in Nat
  BY <1>4, GoldIsInt DEF Coins
<1>8. GoldIn(t) = GoldIn(s) + gold /\ GoodsIn(t) = GoodsIn(s) + goods
  BY <1>5, <1>6, <1>7
<1> QED
  BY <1>1, <1>8 DEF t

\* A debit empties that of a player in the game, who has as much.
LEMMA Debited ==
  \A p \in Players, gold \in Nat, goods \in Nat :
    p \in online /\ Affords(p, gold, goods) /\ Purses \in PurseStates =>
      /\ Debit(Purses, p, gold, goods) \in PurseStates
      /\ GoldIn(Debit(Purses, p, gold, goods)) = GoldIn(Purses) - gold
      /\ GoodsIn(Debit(Purses, p, gold, goods)) = GoodsIn(Purses) - goods
<1> SUFFICES ASSUME NEW p \in Players, NEW gold \in Nat, NEW goods \in Nat,
                    p \in online, Affords(p, gold, goods), Purses \in PurseStates
             PROVE  /\ Debit(Purses, p, gold, goods) \in PurseStates
                    /\ GoldIn(Debit(Purses, p, gold, goods)) = GoldIn(Purses) - gold
                    /\ GoodsIn(Debit(Purses, p, gold, goods)) = GoodsIn(Purses) - goods
  OBVIOUS
<1> DEFINE s == Purses
           t == Debit(Purses, p, gold, goods)
<1>0. s.live[p] \in Coins /\ s.live[p].gold >= gold /\ s.live[p].goods >= goods
  BY DEF Affords, Purses, PurseStates
<1>0a. s \in PurseStates
  OBVIOUS
<1>0b. t = [s EXCEPT !.live[p] = Add(@, -gold, -goods)]
  BY DEF Debit
<1> HIDE DEF s, t
<1>1. t \in PurseStates
  <2>1. Add(s.live[p], -gold, -goods) \in Coins
    BY <1>0 DEF Add, Coins
  <2> QED
    BY <1>0a, <1>0b, <2>1 DEF PurseStates
<1>2. \A q \in Players \ {p} : Purse(t, q) = Purse(s, q)
  BY <1>0a, <1>0b DEF PurseStates, Purse
<1>3. Purse(t, p) = Add(s.live[p], -gold, -goods) /\ Purse(s, p) = s.live[p]
  BY <1>0a, <1>0b DEF PurseStates, Purse
<1>5. Purse(t, p).gold = Purse(s, p).gold - gold /\ Purse(t, p).goods = Purse(s, p).goods - goods
  BY <1>0, <1>3 DEF Add, Coins
<1>6. /\ GoldIn(t) = GoldIn(s) + Purse(t, p).gold - Purse(s, p).gold
      /\ GoodsIn(t) = GoodsIn(s) + Purse(t, p).goods - Purse(s, p).goods
  BY <1>0a, <1>1, <1>2, OnePurse
<1>7. GoldIn(s) \in Int /\ GoodsIn(s) \in Int /\ Purse(s, p).gold \in Nat /\ Purse(s, p).goods \in Nat
  BY <1>0, <1>0a, <1>3, GoldIsInt DEF Coins
<1>8. GoldIn(t) = GoldIn(s) - gold /\ GoodsIn(t) = GoodsIn(s) - goods
  BY <1>5, <1>6, <1>7
<1> QED
  BY <1>1, <1>8 DEF s, t

\* An offer holds a number of coins and pieces.
LEMMA EscrowIsNat ==
  \A o \in Offers \cup {None} : EscrowGold(o) \in Nat /\ EscrowGoods(o) \in Nat
<1>1. Price \in Nat /\ \A m, n \in Nat : m * n \in Nat
  BY MarketAssumption
<1> QED
  BY <1>1 DEF EscrowGold, EscrowGoods, Offers

\* One offer that changes makes all offers hold more or less.
LEMMA OneOffer ==
  ASSUME NEW os \in [OfferIds -> Offers \cup {None}], NEW i \in OfferIds,
         NEW o \in Offers \cup {None}
  PROVE  /\ OfferedGold([os EXCEPT ![i] = o])
              = OfferedGold(os) + EscrowGold(o) - EscrowGold(os[i])
         /\ OfferedGoods([os EXCEPT ![i] = o])
              = OfferedGoods(os) + EscrowGoods(o) - EscrowGoods(os[i])
         /\ OfferedGold(os) \in Int /\ OfferedGoods(os) \in Int
<1> DEFINE ot == [os EXCEPT ![i] = o]
           F(u) == [k \in OfferIds |-> EscrowGold(u[k])]
           G(u) == [k \in OfferIds |-> EscrowGoods(u[k])]
<1>0. /\ ot \in [OfferIds -> Offers \cup {None}] /\ ot[i] = o
      /\ \A k \in OfferIds \ {i} : ot[k] = os[k]
  OBVIOUS
<1> HIDE DEF ot
<1>1. /\ F(os) \in [OfferIds -> Int] /\ F(ot) \in [OfferIds -> Int]
      /\ G(os) \in [OfferIds -> Int] /\ G(ot) \in [OfferIds -> Int]
  BY <1>0, EscrowIsNat
<1>2. \A k \in OfferIds \ {i} : F(ot)[k] = F(os)[k] /\ G(ot)[k] = G(os)[k]
  BY <1>0
<1>3. /\ F(os)[i] = EscrowGold(os[i]) /\ F(ot)[i] = EscrowGold(o)
      /\ G(os)[i] = EscrowGoods(os[i]) /\ G(ot)[i] = EscrowGoods(o)
  BY <1>0
<1>4. /\ OfferedGold(os) = SumFunction(F(os)) /\ OfferedGold(ot) = SumFunction(F(ot))
      /\ OfferedGoods(os) = SumFunction(G(os)) /\ OfferedGoods(ot) = SumFunction(G(ot))
  BY DEF OfferedGold, OfferedGoods
<1>5. IsFiniteSet(OfferIds)
  BY MarketAssumption
<1> HIDE DEF F, G
<1>6. SumFunction(F(ot)) = SumFunction(F(os)) + F(ot)[i] - F(os)[i]
  BY <1>1, <1>2, <1>5, SumChanges
<1>7. SumFunction(G(ot)) = SumFunction(G(os)) + G(ot)[i] - G(os)[i]
  BY <1>1, <1>2, <1>5, SumChanges
<1>8. SumFunction(F(os)) \in Int /\ SumFunction(G(os)) \in Int
  BY <1>1, <1>5, SumIsInt
<1> QED
  BY <1>3, <1>4, <1>6, <1>7, <1>8 DEF ot

\* What all offers hold is a number.
LEMMA OfferedIsInt ==
  \A os \in [OfferIds -> Offers \cup {None}] : OfferedGold(os) \in Int /\ OfferedGoods(os) \in Int
<1> SUFFICES ASSUME NEW os \in [OfferIds -> Offers \cup {None}]
             PROVE  OfferedGold(os) \in Int /\ OfferedGoods(os) \in Int
  OBVIOUS
<1> DEFINE f == [i \in OfferIds |-> EscrowGold(os[i])]
           g == [i \in OfferIds |-> EscrowGoods(os[i])]
<1>1. f \in [OfferIds -> Int] /\ g \in [OfferIds -> Int] /\ IsFiniteSet(OfferIds)
  BY MarketAssumption, EscrowIsNat
<1>2. OfferedGold(os) = SumFunction(f) /\ OfferedGoods(os) = SumFunction(g)
  BY DEF OfferedGold, OfferedGoods
<1> HIDE DEF f, g
<1> QED
  BY <1>1, <1>2, SumIsInt

\* What is owed to the owners of old offers: the goods and the gold of the answer, from
\* what the offers still hold and for the rest from nowhere.
LEMMA OwnersPaid ==
  ASSUME MarketTypeOK
  PROVE  LET s == FoldSet(PayBack, Purses, Due)
             left == [i \in OfferIds |-> IF i \in Due THEN None ELSE offers[i]]
             gold == SumFunction([i \in OfferIds |-> Excess(i).gold])
             goods == SumFunction([i \in OfferIds |-> Excess(i).goods])
         IN  /\ s \in PurseStates /\ gold \in Int /\ goods \in Int
             /\ GoldIn(s) + OfferedGold(left) = GoldIn(Purses) + OfferedGold(offers) + gold
             /\ GoodsIn(s) + OfferedGoods(left) = GoodsIn(Purses) + OfferedGoods(offers) + goods
<1> DEFINE D == Due
           V == PurseStates
           base == Purses
           op == [i \in D |-> [s \in V |-> PayBack(i, s)]]
           Rest(T) == [i \in OfferIds |-> IF i \in T THEN None ELSE offers[i]]
           xg == [i \in OfferIds |-> Excess(i).gold]
           xs == [i \in OfferIds |-> Excess(i).goods]
<1>0. /\ D \subseteq OfferIds /\ IsFiniteSet(D) /\ IsFiniteSet(OfferIds) /\ base \in V
      /\ \A i \in D : rows[i] \in Offers /\ offers[i] \in Offers
  <2>1. D \subseteq OfferIds /\ base \in V
    BY DEF MarketTypeOK, Due, Answered
  <2>2. \A i \in D : rows[i] \in Offers /\ offers[i] \in Offers
    BY DEF MarketTypeOK, Due, Answered, StillThere
  <2>3. IsFiniteSet(D) /\ IsFiniteSet(OfferIds)
    BY <2>1, MarketAssumption, FS_Subset
  <2> QED
    BY <2>1, <2>2, <2>3
<1>1. \A i \in D, s \in V :
        /\ PayBack(i, s) \in V
        /\ GoldIn(PayBack(i, s)) = GoldIn(s) + EscrowGold(rows[i])
        /\ GoodsIn(PayBack(i, s)) = GoodsIn(s) + EscrowGoods(rows[i])
  <2> SUFFICES ASSUME NEW i \in D, NEW s \in V
               PROVE  /\ PayBack(i, s) \in V
                      /\ GoldIn(PayBack(i, s)) = GoldIn(s) + EscrowGold(rows[i])
                      /\ GoodsIn(PayBack(i, s)) = GoodsIn(s) + EscrowGoods(rows[i])
    OBVIOUS
  <2>1. rows[i] \in Offers /\ rows[i].owner \in Players
    BY <1>0 DEF Offers
  <2>2. EscrowGold(rows[i]) \in Nat /\ EscrowGoods(rows[i]) \in Nat
    BY <2>1, EscrowIsNat
  <2>3. PayBack(i, s) = Credit(s, rows[i].owner, EscrowGold(rows[i]), EscrowGoods(rows[i]))
    BY DEF PayBack
  <2> QED
    BY <2>1, <2>2, <2>3, Credited
<1>2. xg \in [OfferIds -> Int] /\ xs \in [OfferIds -> Int]
  <2>1. \A i \in OfferIds : Excess(i).gold \in Int /\ Excess(i).goods \in Int
    <3> SUFFICES ASSUME NEW i \in OfferIds PROVE Excess(i).gold \in Int /\ Excess(i).goods \in Int
      OBVIOUS
    <3>1. CASE i \in D
      <4>1. /\ EscrowGold(rows[i]) \in Nat /\ EscrowGold(offers[i]) \in Nat
            /\ EscrowGoods(rows[i]) \in Nat /\ EscrowGoods(offers[i]) \in Nat
        BY <1>0, <3>1, EscrowIsNat
      <4> QED
        BY <3>1, <4>1 DEF Excess
    <3>2. CASE i \notin D
      BY <3>2 DEF Excess, Nothing
    <3> QED
      BY <3>1, <3>2
  <2> QED
    BY <2>1
<1> HIDE DEF D, V, base
<1>3. op \in [D -> [V -> V]]
  BY <1>1
<1> DEFINE Body(h, T) == IF T = {} THEN base ELSE PayBack(First(T), h[T \ {First(T)}])
<1>4. \E h : h = [T \in SUBSET D |-> Body(h, T)]
  <2>1. PICK g \in [SUBSET D -> V] : IsFold(g, D, base, op)
    <3> HIDE DEF op
    <3> QED
      BY <1>0, <1>3, FoldExists
  <2>2. ASSUME NEW T \in SUBSET D PROVE g[T] = Body(g, T)
    <3>1. CASE T = {}
      BY <2>1, <3>1 DEF IsFold
    <3>2. CASE T # {}
      <4>1. First(T) \in T
        BY <3>2 DEF First
      <4>2. g[T \ {First(T)}] \in V /\ First(T) \in D
        BY <4>1
      <4>3. g[T] = op[First(T)][g[T \ {First(T)}]]
        <5> HIDE DEF op
        <5> QED
          BY <2>1, <3>2 DEF IsFold
      <4> QED
        BY <3>2, <4>2, <4>3
    <3> QED
      BY <3>1, <3>2
  <2>3. g = [T \in SUBSET D |-> Body(g, T)]
    <3> HIDE DEF Body
    <3> QED
      BY <2>2
  <2> QED
    BY <2>3
<1> DEFINE h == CHOOSE h : h = [T \in SUBSET D |-> Body(h, T)]
<1>5. h = [T \in SUBSET D |-> Body(h, T)]
  <2> HIDE DEF Body
  <2> QED
    BY <1>4
<1>6. FoldSet(PayBack, base, D) = h[D]
  BY DEF FoldSet, MapThenFoldSet, First
<1> HIDE DEF h, op
<1> DEFINE Paid(T) ==
      /\ h[T] \in V
      /\ GoldIn(h[T]) + OfferedGold(Rest(T)) = GoldIn(base) + OfferedGold(offers) + SumOver(xg, T)
      /\ GoodsIn(h[T]) + OfferedGoods(Rest(T)) = GoodsIn(base) + OfferedGoods(offers) + SumOver(xs, T)
<1>7. Paid({})
  <2>1. h[{}] = base /\ Rest({}) = offers
    BY <1>5 DEF MarketTypeOK
  <2> HIDE DEF Rest, xg, xs
  <2>2. SumOver(xg, {}) = 0 /\ SumOver(xs, {}) = 0
    BY <1>0, <1>2, SumOfNone
  <2>3. GoldIn(base) \in Int /\ GoodsIn(base) \in Int
    BY <1>0, GoldIsInt DEF V
  <2>4. OfferedGold(offers) \in Int /\ OfferedGoods(offers) \in Int
    BY OfferedIsInt DEF MarketTypeOK
  <2> QED
    BY <1>0, <2>1, <2>2, <2>3, <2>4
<1>8. ASSUME NEW T \in SUBSET D, T # {}, Paid(T \ {First(T)}) PROVE Paid(T)
  <2> DEFINE c == First(T)
             U == T \ {c}
  <2>1. c \in T /\ c \in D /\ c \in OfferIds /\ U \in SUBSET D
    BY <1>0, <1>8 DEF First
  <2>2. h[T] = PayBack(c, h[U])
    BY <1>5, <1>8
  <2>3. /\ h[T] \in V /\ GoldIn(h[T]) = GoldIn(h[U]) + EscrowGold(rows[c])
        /\ GoodsIn(h[T]) = GoodsIn(h[U]) + EscrowGoods(rows[c])
    <3> HIDE DEF c, U, Rest, xg, xs
    <3> QED
      BY <1>1, <1>8, <2>1, <2>2 DEF c, U
  <2>4. Rest(T) = [Rest(U) EXCEPT ![c] = None] /\ Rest(U)[c] = offers[c]
        /\ Rest(U) \in [OfferIds -> Offers \cup {None}]
    <3> HIDE DEF c
    <3> QED
      BY <1>0, <2>1 DEF MarketTypeOK
  <2>5. xg[c] = EscrowGold(rows[c]) - EscrowGold(offers[c])
        /\ xs[c] = EscrowGoods(rows[c]) - EscrowGoods(offers[c])
    <3> HIDE DEF c
    <3> QED
      BY <2>1 DEF Excess, D
  <2>6. /\ EscrowGold(rows[c]) \in Int /\ EscrowGold(offers[c]) \in Int
        /\ EscrowGoods(rows[c]) \in Int /\ EscrowGoods(offers[c]) \in Int
        /\ EscrowGold(None) = 0 /\ EscrowGoods(None) = 0
    <3> HIDE DEF c
    <3>1. rows[c] \in Offers /\ offers[c] \in Offers
      BY <1>0, <2>1
    <3>2. EscrowGold(None) = 0 /\ EscrowGoods(None) = 0
      BY DEF EscrowGold, EscrowGoods
    <3> QED
      BY <3>1, <3>2, EscrowIsNat
  <2> HIDE DEF Rest, xg, xs, c
  <2>7. /\ OfferedGold(Rest(T)) = OfferedGold(Rest(U)) + EscrowGold(None) - EscrowGold(offers[c])
        /\ OfferedGoods(Rest(T)) = OfferedGoods(Rest(U)) + EscrowGoods(None) - EscrowGoods(offers[c])
        /\ OfferedGold(Rest(U)) \in Int /\ OfferedGoods(Rest(U)) \in Int
    <3> DEFINE os == Rest(U)
    <3>1. os \in [OfferIds -> Offers \cup {None}] /\ None \in Offers \cup {None}
      BY <2>4
    <3> HIDE DEF U, os
    <3>2. /\ OfferedGold([os EXCEPT ![c] = None]) = OfferedGold(os) + EscrowGold(None) - EscrowGold(os[c])
          /\ OfferedGoods([os EXCEPT ![c] = None])
               = OfferedGoods(os) + EscrowGoods(None) - EscrowGoods(os[c])
          /\ OfferedGold(os) \in Int /\ OfferedGoods(os) \in Int
      BY <2>1, <3>1, OneOffer
    <3> QED
      BY <2>4, <3>2 DEF os
  <2>8. /\ SumOver(xg, T) = SumOver(xg, U) + xg[c] /\ SumOver(xg, U) \in Int
        /\ SumOver(xs, T) = SumOver(xs, U) + xs[c] /\ SumOver(xs, U) \in Int
    <3>1. T \in SUBSET OfferIds /\ c \in T
      BY <1>0, <2>1
    <3>2. ASSUME NEW f \in [OfferIds -> Int]
          PROVE  /\ SumOver(f, T) = SumOver(f, T \ {c}) + f[c]
                 /\ SumOver(f, T) \in Int /\ SumOver(f, T \ {c}) \in Int
      BY <1>0, <3>1, SumOneMore
    <3>3. /\ SumOver(xg, T) = SumOver(xg, T \ {c}) + xg[c] /\ SumOver(xg, T \ {c}) \in Int
      BY <1>2, <3>2
    <3>4. /\ SumOver(xs, T) = SumOver(xs, T \ {c}) + xs[c] /\ SumOver(xs, T \ {c}) \in Int
      BY <1>2, <3>2
    <3> QED
      BY <3>3, <3>4 DEF U
  <2>9. /\ GoldIn(h[U]) + OfferedGold(Rest(U)) = GoldIn(base) + OfferedGold(offers) + SumOver(xg, U)
        /\ GoodsIn(h[U]) + OfferedGoods(Rest(U)) = GoodsIn(base) + OfferedGoods(offers) + SumOver(xs, U)
        /\ h[U] \in V
    BY <1>8 DEF c
  <2>10. /\ GoldIn(h[U]) \in Int /\ GoodsIn(h[U]) \in Int /\ GoldIn(base) \in Int /\ GoodsIn(base) \in Int
    BY <1>0, <2>9, GoldIsInt DEF V
  <2>11. OfferedGold(offers) \in Int /\ OfferedGoods(offers) \in Int
    BY OfferedIsInt DEF MarketTypeOK
  <2> HIDE DEF U
  <2>12. \A b, q, r, x, y, z \in Int :
          b + q = r + z => (b + x) + (q - y) = r + (z + (x - y))
    OBVIOUS
  <2>13. GoldIn(h[T]) + OfferedGold(Rest(T)) = GoldIn(base) + OfferedGold(offers) + SumOver(xg, T)
    <3>1. /\ GoldIn(base) + OfferedGold(offers) \in Int /\ GoldIn(h[U]) \in Int
          /\ OfferedGold(Rest(U)) \in Int /\ SumOver(xg, U) \in Int
          /\ EscrowGold(rows[c]) \in Int /\ EscrowGold(offers[c]) \in Int
      BY <2>6, <2>7, <2>8, <2>10, <2>11
    <3>2. GoldIn(h[U]) + OfferedGold(Rest(U)) = GoldIn(base) + OfferedGold(offers) + SumOver(xg, U)
      BY <2>9
    <3>3. /\ GoldIn(h[T]) = GoldIn(h[U]) + EscrowGold(rows[c])
          /\ OfferedGold(Rest(T)) = OfferedGold(Rest(U)) - EscrowGold(offers[c])
          /\ SumOver(xg, T) = SumOver(xg, U) + (EscrowGold(rows[c]) - EscrowGold(offers[c]))
      BY <2>3, <2>5, <2>6, <2>7, <2>8
    <3> QED
      BY <2>12, <3>1, <3>2, <3>3
  <2>14. GoodsIn(h[T]) + OfferedGoods(Rest(T)) = GoodsIn(base) + OfferedGoods(offers) + SumOver(xs, T)
    <3>1. /\ GoodsIn(base) + OfferedGoods(offers) \in Int /\ GoodsIn(h[U]) \in Int
          /\ OfferedGoods(Rest(U)) \in Int /\ SumOver(xs, U) \in Int
          /\ EscrowGoods(rows[c]) \in Int /\ EscrowGoods(offers[c]) \in Int
      BY <2>6, <2>7, <2>8, <2>10, <2>11
    <3>2. GoodsIn(h[U]) + OfferedGoods(Rest(U)) = GoodsIn(base) + OfferedGoods(offers) + SumOver(xs, U)
      BY <2>9
    <3>3. /\ GoodsIn(h[T]) = GoodsIn(h[U]) + EscrowGoods(rows[c])
          /\ OfferedGoods(Rest(T)) = OfferedGoods(Rest(U)) - EscrowGoods(offers[c])
          /\ SumOver(xs, T) = SumOver(xs, U) + (EscrowGoods(rows[c]) - EscrowGoods(offers[c]))
      BY <2>3, <2>5, <2>6, <2>7, <2>8
    <3> QED
      BY <2>12, <3>1, <3>2, <3>3
  <2> QED
    BY <2>3, <2>13, <2>14
<1> HIDE DEF Paid
<1>9. Paid(D)
  <2> DEFINE F == {T \in SUBSET D : Paid(T)}
  <2>1. ASSUME NEW T \in SUBSET D, \A U \in SUBSET T : U # T => U \in F PROVE T \in F
    <3>1. CASE T = {}
      BY <1>7, <3>1
    <3>2. CASE T # {}
      <4>1. First(T) \in T
        BY <3>2 DEF First
      <4>2. T \ {First(T)} \in SUBSET T /\ T \ {First(T)} # T
        BY <4>1
      <4>3. Paid(T \ {First(T)})
        BY <2>1, <4>2
      <4> QED
        BY <1>8, <3>2, <4>3
    <3> QED
      BY <3>1, <3>2
  <2> HIDE DEF F
  <2>2. \A T \in SUBSET D : T \in F
    BY <1>0, <2>1, SetInduction
  <2>3. D \in F
    BY <2>2
  <2> QED
    BY <2>3 DEF F
<1>10. SumOver(xg, D) = SumFunction(xg) /\ SumOver(xs, D) = SumFunction(xs)
  <2>1. \A i \in OfferIds \ D : xg[i] = 0 /\ xs[i] = 0
    BY DEF Excess, Nothing, D
  <2> HIDE DEF xg, xs
  <2> QED
    BY <1>2, <2>1, SumOfAll
<1>11. SumFunction(xg) \in Int /\ SumFunction(xs) \in Int
  <2> HIDE DEF xg, xs
  <2> QED
    BY <1>0, <1>2, SumIsInt
<1> QED
  BY <1>6, <1>9, <1>10, <1>11 DEF Paid, D, V, base

\* The accounts, in these terms.
Balanced ==
  /\ GoldIn(Purses) + OfferedGold(offers) = Cardinality(Players) * Gold + minted.gold
  /\ GoodsIn(Purses) + OfferedGoods(offers) = Cardinality(Players) * Goods + minted.goods

\* Purses of players in the game and of the others are what Accounted sums up.
LEMMA AccountsAre == MarketTypeOK => (Accounted <=> Balanced)
<1> SUFFICES ASSUME MarketTypeOK PROVE Accounted <=> Balanced
  OBVIOUS
<1>1. \A p \in Players : Belongings(p) = Purse(Purses, p) /\ Belongings(p) \in Coins
  BY DEF MarketTypeOK, Belongings, Purse, Purses, PurseStates
<1>2. /\ [p \in Players |-> Belongings(p).gold] = [p \in Players |-> Purse(Purses, p).gold]
      /\ [p \in Players |-> Belongings(p).goods] = [p \in Players |-> Purse(Purses, p).goods]
  BY <1>1
<1>3. \A p \in Players : Belongings(p).gold >= 0 /\ Belongings(p).goods >= 0
  <2> SUFFICES ASSUME NEW p \in Players PROVE Belongings(p).gold >= 0 /\ Belongings(p).goods >= 0
    OBVIOUS
  <2> DEFINE b == Belongings(p)
  <2>1. b \in Coins
    BY <1>1
  <2> HIDE DEF b
  <2>2. b.gold >= 0 /\ b.goods >= 0
    BY <2>1 DEF Coins
  <2> QED
    BY <2>2 DEF b
<1> QED
  BY <1>2, <1>3 DEF Accounted, Balanced, GoldIn, GoodsIn, OfferedGold, OfferedGoods

\* A handler keeps the accounts when purses, offers and what is minted change alike.
LEMMA Balances ==
  ASSUME MarketInv, UNCHANGED online, NEW s \in PurseStates, SetPurses(s),
         offers' \in [OfferIds -> Offers \cup {None}], rows' \in [OfferIds -> Offers \cup {None}],
         minted' \in [gold : Int, goods : Int],
         GoldIn(s) + OfferedGold(offers') - minted'.gold
           = GoldIn(Purses) + OfferedGold(offers) - minted.gold,
         GoodsIn(s) + OfferedGoods(offers') - minted'.goods
           = GoodsIn(Purses) + OfferedGoods(offers) - minted.goods
  PROVE  MarketInv'
<1>1. Purses' = s
  BY DEF SetPurses, Purses, PurseStates
<1>2. MarketTypeOK'
  BY <1>1 DEF MarketInv, MarketTypeOK
<1>3. GoldIn(Purses)' = GoldIn(s) /\ GoodsIn(Purses)' = GoodsIn(s)
  BY <1>1 DEF GoldIn, GoodsIn, Purse
<1>4. OfferedGold(offers)' = OfferedGold(offers') /\ OfferedGoods(offers)' = OfferedGoods(offers')
  BY DEF OfferedGold, OfferedGoods
<1>5. Balanced
  BY AccountsAre DEF MarketInv
<1>6. /\ GoldIn(s) \in Int /\ GoodsIn(s) \in Int /\ GoldIn(Purses) \in Int /\ GoodsIn(Purses) \in Int
  BY GoldIsInt DEF MarketInv, MarketTypeOK
<1>7. /\ OfferedGold(offers) \in Int /\ OfferedGoods(offers) \in Int
      /\ OfferedGold(offers') \in Int /\ OfferedGoods(offers') \in Int
  BY OfferedIsInt DEF MarketInv, MarketTypeOK
<1>8. /\ minted.gold \in Int /\ minted.goods \in Int /\ minted'.gold \in Int /\ minted'.goods \in Int
  BY DEF MarketInv, MarketTypeOK
<1>9. Cardinality(Players) * Gold \in Int /\ Cardinality(Players) * Goods \in Int
  BY MarketAssumption, FS_CardinalityType
<1>10. GoldIn(s) + OfferedGold(offers') = Cardinality(Players) * Gold + minted'.gold
  <2>1. GoldIn(Purses) + OfferedGold(offers) = Cardinality(Players) * Gold + minted.gold
    BY <1>5 DEF Balanced
  <2> QED
    BY <2>1, <1>6, <1>7, <1>8, <1>9
<1>11. GoodsIn(s) + OfferedGoods(offers') = Cardinality(Players) * Goods + minted'.goods
  <2>1. GoodsIn(Purses) + OfferedGoods(offers) = Cardinality(Players) * Goods + minted.goods
    BY <1>5 DEF Balanced
  <2> DEFINE first == Cardinality(Players) * Goods
  <2>2. first \in Int
    BY <1>9
  <2> HIDE DEF first
  <2>3. GoodsIn(s) + OfferedGoods(offers') = first + minted'.goods
    BY <2>1, <2>2, <1>6, <1>7, <1>8 DEF first
  <2> QED
    BY <2>3 DEF first
<1>12. Balanced'
  BY <1>3, <1>4, <1>10, <1>11 DEF Balanced
<1>13. Accounted'
  <2>1. MarketTypeOK' => (Accounted' <=> Balanced')
    BY AccountsAre, PTL
  <2> QED
    BY <1>2, <1>12, <2>1
<1> QED
  BY <1>2, <1>13 DEF MarketInv

\* The market as it is at first.
LEMMA MarketStart == MarketInit /\ online \subseteq Players => MarketInv
<1> SUFFICES ASSUME MarketInit, online \subseteq Players PROVE MarketInv
  OBVIOUS
<1>1. MarketTypeOK
  BY MarketAssumption DEF MarketInit, MarketTypeOK, Purses, PurseStates, Coins, Nothing
<1> DEFINE f == [p \in Players |-> Purse(Purses, p).gold]
           g == [p \in Players |-> Purse(Purses, p).goods]
           x == [i \in OfferIds |-> EscrowGold(offers[i])]
           y == [i \in OfferIds |-> EscrowGoods(offers[i])]
<1>2. /\ f \in [Players -> Int] /\ \A p \in Players : f[p] = Gold
      /\ g \in [Players -> Int] /\ \A p \in Players : g[p] = Goods
  BY MarketAssumption DEF MarketInit, Purses, Purse
<1>3. /\ x \in [OfferIds -> Int] /\ \A i \in OfferIds : x[i] = 0
      /\ y \in [OfferIds -> Int] /\ \A i \in OfferIds : y[i] = 0
  BY DEF MarketInit, EscrowGold, EscrowGoods
<1>4. /\ GoldIn(Purses) = SumFunction(f) /\ GoodsIn(Purses) = SumFunction(g)
      /\ OfferedGold(offers) = SumFunction(x) /\ OfferedGoods(offers) = SumFunction(y)
  BY DEF GoldIn, GoodsIn, OfferedGold, OfferedGoods
<1>5. /\ IsFiniteSet(Players) /\ IsFiniteSet(OfferIds) /\ Gold \in Nat /\ Goods \in Nat
      /\ Cardinality(Players) \in Nat /\ Cardinality(OfferIds) \in Nat
  BY MarketAssumption, FS_CardinalityType
<1> HIDE DEF f, g, x, y
<1>6. SumFunction(f) = Cardinality(Players) * Gold /\ SumFunction(g) = Cardinality(Players) * Goods
  BY <1>2, <1>5, SumConst
<1>7. SumFunction(x) = Cardinality(OfferIds) * 0 /\ SumFunction(y) = Cardinality(OfferIds) * 0
  BY <1>3, <1>5, SumConst
<1>8. minted.gold = 0 /\ minted.goods = 0
  BY DEF MarketInit, Nothing
<1>9. Cardinality(Players) * Gold \in Int /\ Cardinality(Players) * Goods \in Int
  BY <1>5
<1>10. Balanced
  BY <1>4, <1>5, <1>6, <1>7, <1>8, <1>9 DEF Balanced
<1> QED
  BY <1>1, <1>10, AccountsAre DEF MarketInv

\* Who offers pays, and the fee is gone.
LEMMA Created ==
  ASSUME MarketInv, UNCHANGED online, NEW p \in Players, NEW i \in OfferIds,
         NEW n \in Amounts, NEW sells \in BOOLEAN,
         CreateOffer(p, i, [owner |-> p, sells |-> sells, amount |-> n])
  PROVE  MarketInv'
<1> DEFINE o == [owner |-> p, sells |-> sells, amount |-> n]
           s == Debit(Purses, p, EscrowGold(o) + Fee, EscrowGoods(o))
<1>1. o \in Offers /\ Fee \in Nat
  BY MarketAssumption DEF Offers
<1>2. EscrowGold(o) \in Nat /\ EscrowGoods(o) \in Nat
  <2> HIDE DEF o
  <2> QED
    BY <1>1, EscrowIsNat
<1>3. /\ p \in online /\ offers[i] = None /\ Affords(p, EscrowGold(o) + Fee, EscrowGoods(o))
      /\ SetPurses(s) /\ offers' = [offers EXCEPT ![i] = o]
      /\ minted' = [minted EXCEPT !.gold = @ - Fee] /\ UNCHANGED rows
  BY DEF CreateOffer, Fresh, Active
<1> HIDE DEF o
<1>4. /\ s \in PurseStates /\ GoldIn(s) = GoldIn(Purses) - (EscrowGold(o) + Fee)
      /\ GoodsIn(s) = GoodsIn(Purses) - EscrowGoods(o)
  <2>1. EscrowGold(o) + Fee \in Nat /\ Purses \in PurseStates
    BY <1>1, <1>2 DEF MarketInv, MarketTypeOK
  <2> QED
    BY <1>2, <1>3, <2>1, Debited
<1>5. /\ OfferedGold(offers') = OfferedGold(offers) + EscrowGold(o) - EscrowGold(None)
      /\ OfferedGoods(offers') = OfferedGoods(offers) + EscrowGoods(o) - EscrowGoods(None)
      /\ OfferedGold(offers) \in Int /\ OfferedGoods(offers) \in Int
      /\ EscrowGold(None) = 0 /\ EscrowGoods(None) = 0
  <2>1. offers \in [OfferIds -> Offers \cup {None}] /\ o \in Offers \cup {None}
    BY <1>1 DEF MarketInv, MarketTypeOK
  <2>2. /\ OfferedGold([offers EXCEPT ![i] = o])
             = OfferedGold(offers) + EscrowGold(o) - EscrowGold(offers[i])
        /\ OfferedGoods([offers EXCEPT ![i] = o])
             = OfferedGoods(offers) + EscrowGoods(o) - EscrowGoods(offers[i])
        /\ OfferedGold(offers) \in Int /\ OfferedGoods(offers) \in Int
    BY <2>1, OneOffer
  <2> QED
    BY <1>3, <2>2 DEF EscrowGold, EscrowGoods
<1>6. GoldIn(Purses) \in Int /\ GoodsIn(Purses) \in Int
  BY GoldIsInt DEF MarketInv, MarketTypeOK
<1>7. /\ offers' \in [OfferIds -> Offers \cup {None}] /\ rows' \in [OfferIds -> Offers \cup {None}]
      /\ minted' \in [gold : Int, goods : Int]
      /\ minted.gold \in Int /\ minted.goods \in Int
      /\ minted'.gold = minted.gold - Fee /\ minted'.goods = minted.goods
  BY <1>1, <1>3 DEF MarketInv, MarketTypeOK
<1> HIDE DEF s
<1>8. GoldIn(s) + OfferedGold(offers') - minted'.gold
        = GoldIn(Purses) + OfferedGold(offers) - minted.gold
  BY <1>1, <1>2, <1>4, <1>5, <1>6, <1>7
<1>9. GoodsIn(s) + OfferedGoods(offers') - minted'.goods
        = GoodsIn(Purses) + OfferedGoods(offers) - minted.goods
  BY <1>1, <1>2, <1>4, <1>5, <1>6, <1>7
<1> QED
  BY <1>3, <1>4, <1>7, <1>8, <1>9, Balances

\* Who cancels is paid back.
LEMMA Cancelled ==
  ASSUME MarketInv, UNCHANGED online, NEW p \in Players, NEW i \in OfferIds, CancelOffer(p, i)
  PROVE  MarketInv'
<1> DEFINE o == offers[i]
           s == Credit(Purses, p, EscrowGold(o), EscrowGoods(o))
<1>1. o \in Offers
  BY DEF MarketInv, MarketTypeOK, CancelOffer, Active
<1>2. EscrowGold(o) \in Nat /\ EscrowGoods(o) \in Nat
  BY <1>1, EscrowIsNat
<1>3. SetPurses(s) /\ offers' = [offers EXCEPT ![i] = None] /\ UNCHANGED <<minted, rows>>
  BY DEF CancelOffer
<1>4. /\ s \in PurseStates /\ GoldIn(s) = GoldIn(Purses) + EscrowGold(o)
      /\ GoodsIn(s) = GoodsIn(Purses) + EscrowGoods(o)
  <2>1. Purses \in PurseStates
    BY DEF MarketInv, MarketTypeOK
  <2> QED
    BY <1>2, <2>1, Credited
<1>5. /\ OfferedGold(offers') = OfferedGold(offers) - EscrowGold(o)
      /\ OfferedGoods(offers') = OfferedGoods(offers) - EscrowGoods(o)
      /\ OfferedGold(offers) \in Int /\ OfferedGoods(offers) \in Int
  <2>1. offers \in [OfferIds -> Offers \cup {None}] /\ None \in Offers \cup {None}
    BY DEF MarketInv, MarketTypeOK
  <2>2. /\ OfferedGold([offers EXCEPT ![i] = None])
             = OfferedGold(offers) + EscrowGold(None) - EscrowGold(offers[i])
        /\ OfferedGoods([offers EXCEPT ![i] = None])
             = OfferedGoods(offers) + EscrowGoods(None) - EscrowGoods(offers[i])
        /\ OfferedGold(offers) \in Int /\ OfferedGoods(offers) \in Int
    BY <2>1, OneOffer
  <2>3. EscrowGold(None) = 0 /\ EscrowGoods(None) = 0
    BY DEF EscrowGold, EscrowGoods
  <2> QED
    BY <1>2, <1>3, <2>2, <2>3
<1>6. GoldIn(Purses) \in Int /\ GoodsIn(Purses) \in Int
  BY GoldIsInt DEF MarketInv, MarketTypeOK
<1>7. /\ offers' \in [OfferIds -> Offers \cup {None}] /\ rows' \in [OfferIds -> Offers \cup {None}]
      /\ minted' \in [gold : Int, goods : Int] /\ minted' = minted
      /\ minted.gold \in Int /\ minted.goods \in Int
  BY <1>3 DEF MarketInv, MarketTypeOK
<1> HIDE DEF s, o
<1>8. GoldIn(s) + OfferedGold(offers') - minted'.gold
        = GoldIn(Purses) + OfferedGold(offers) - minted.gold
  BY <1>2, <1>4, <1>5, <1>6, <1>7
<1>9. GoodsIn(s) + OfferedGoods(offers') - minted'.goods
        = GoodsIn(Purses) + OfferedGoods(offers) - minted.goods
  BY <1>2, <1>4, <1>5, <1>6, <1>7
<1> QED
  BY <1>3, <1>4, <1>7, <1>8, <1>9, Balances

\* What is left of an offer holds what is left of it.
LEMMA ReducedHolds ==
  ASSUME NEW o \in Offers, NEW n \in Nat, n <= o.amount
  PROVE  /\ Reduced(o, n) \in Offers \cup {None}
         /\ EscrowGold(Reduced(o, n)) = EscrowGold(o) - IF o.sells THEN 0 ELSE n * Price
         /\ EscrowGoods(Reduced(o, n)) = EscrowGoods(o) - IF o.sells THEN n ELSE 0
<1>0. /\ o # None /\ o.amount \in Nat /\ o.sells \in BOOLEAN /\ n * Price \in Int /\ o.amount * Price \in Int
      /\ Price \in Nat
  BY MarketAssumption DEF Offers
<1>1. CASE o.amount = n
  <2>1. Reduced(o, n) = None
    BY <1>1 DEF Reduced
  <2>2. EscrowGold(None) = 0 /\ EscrowGoods(None) = 0
    BY DEF EscrowGold, EscrowGoods
  <2>3. o.amount * Price = n * Price
    BY <1>1
  <2>4. CASE o.sells
    BY <1>0, <1>1, <2>1, <2>2, <2>4 DEF EscrowGold, EscrowGoods
  <2>5. CASE ~o.sells
    BY <1>0, <2>1, <2>2, <2>3, <2>5 DEF EscrowGold, EscrowGoods
  <2> QED
    BY <2>1, <2>4, <2>5
<1>2. CASE o.amount # n
  <2> DEFINE r == [o EXCEPT !.amount = @ - n]
  <2>1. /\ Reduced(o, n) = r /\ r \in Offers /\ r.sells = o.sells /\ r.amount = o.amount - n
        /\ o.amount - n \in Nat
    BY <1>0, <1>2 DEF Reduced, Offers
  <2> HIDE DEF r
  <2>2. r # None
    BY <2>1, MarketAssumption DEF Offers
  <2>3. (o.amount - n) * Price = o.amount * Price - n * Price
    <3>1. \A x, y, z \in Int : (x - y) * z = x * z - y * z
      OBVIOUS
    <3> QED
      BY <1>0, <3>1
  <2>4. CASE o.sells
    BY <1>0, <2>1, <2>2, <2>4 DEF EscrowGold, EscrowGoods
  <2>5. CASE ~o.sells
    BY <1>0, <2>1, <2>2, <2>3, <2>5 DEF EscrowGold, EscrowGoods
  <2> QED
    BY <2>1, <2>4, <2>5
<1> QED
  BY <1>1, <1>2

\* Who accepts and who offered exchange gold and goods.
LEMMA Accepted ==
  ASSUME MarketInv, UNCHANGED online, NEW p \in Players, NEW i \in OfferIds, NEW n \in Amounts,
         AcceptOffer(p, i, n)
  PROVE  MarketInv'
<1> DEFINE o == offers[i]
           price == n * Price
           gold == IF o.sells THEN price ELSE 0
           goods == IF o.sells THEN 0 ELSE n
           paid == Debit(Purses, p, gold, goods)
           served == Credit(paid, p, price - gold, n - goods)
           s == Credit(served, o.owner, gold, goods)
<1>1. /\ o \in Offers /\ o.owner \in Players /\ o.sells \in BOOLEAN /\ n \in Nat /\ n <= o.amount
      /\ p \in online /\ Affords(p, gold, goods) /\ SetPurses(s)
      /\ offers' = [offers EXCEPT ![i] = Reduced(o, n)] /\ UNCHANGED <<minted, rows>>
  BY MarketAssumption DEF MarketInv, MarketTypeOK, AcceptOffer, Active, Offers
<1>2. price \in Nat
  <2>1. \A x, y \in Nat : x * y \in Nat
    OBVIOUS
  <2> QED
    BY <1>1, <2>1, MarketAssumption
<1> HIDE DEF o
<1>3. /\ EscrowGold(Reduced(o, n)) = EscrowGold(o) - IF o.sells THEN 0 ELSE price
      /\ EscrowGoods(Reduced(o, n)) = EscrowGoods(o) - IF o.sells THEN n ELSE 0
      /\ Reduced(o, n) \in Offers \cup {None}
  BY <1>1, ReducedHolds
<1> HIDE DEF price
<1>4. gold \in Nat /\ goods \in Nat /\ price - gold \in Nat /\ n - goods \in Nat
  BY <1>1, <1>2
<1>5. /\ EscrowGold(Reduced(o, n)) = EscrowGold(o) + gold - price
      /\ EscrowGoods(Reduced(o, n)) = EscrowGoods(o) + goods - n
      /\ EscrowGold(o) \in Int /\ EscrowGoods(o) \in Int
  <2>1. EscrowGold(o) \in Nat /\ EscrowGoods(o) \in Nat
    BY <1>1, EscrowIsNat
  <2>2. CASE o.sells
    BY <1>1, <1>2, <1>3, <2>1, <2>2
  <2>3. CASE ~o.sells
    BY <1>1, <1>2, <1>3, <2>1, <2>3
  <2> QED
    BY <2>2, <2>3
<1> HIDE DEF gold, goods
<1>6. /\ paid \in PurseStates /\ GoldIn(paid) = GoldIn(Purses) - gold
      /\ GoodsIn(paid) = GoodsIn(Purses) - goods
  <2>1. Purses \in PurseStates
    BY DEF MarketInv, MarketTypeOK
  <2> QED
    BY <1>1, <1>4, <2>1, Debited
<1> HIDE DEF paid
<1>7. /\ served \in PurseStates /\ GoldIn(served) = GoldIn(paid) + (price - gold)
      /\ GoodsIn(served) = GoodsIn(paid) + (n - goods)
  BY <1>4, <1>6, Credited
<1> HIDE DEF served
<1>8. /\ s \in PurseStates /\ GoldIn(s) = GoldIn(served) + gold /\ GoodsIn(s) = GoodsIn(served) + goods
  BY <1>1, <1>4, <1>7, Credited
<1> HIDE DEF s
<1>9. /\ OfferedGold(offers') = OfferedGold(offers) + (EscrowGold(o) + gold - price) - EscrowGold(o)
      /\ OfferedGoods(offers') = OfferedGoods(offers) + (EscrowGoods(o) + goods - n) - EscrowGoods(o)
      /\ OfferedGold(offers) \in Int /\ OfferedGoods(offers) \in Int
  <2> DEFINE r == Reduced(o, n)
  <2>1. offers \in [OfferIds -> Offers \cup {None}] /\ r \in Offers \cup {None} /\ offers[i] = o
    BY <1>3 DEF MarketInv, MarketTypeOK, o
  <2> HIDE DEF r
  <2>2. /\ OfferedGold([offers EXCEPT ![i] = r])
             = OfferedGold(offers) + EscrowGold(r) - EscrowGold(offers[i])
        /\ OfferedGoods([offers EXCEPT ![i] = r])
             = OfferedGoods(offers) + EscrowGoods(r) - EscrowGoods(offers[i])
        /\ OfferedGold(offers) \in Int /\ OfferedGoods(offers) \in Int
    BY <2>1, OneOffer
  <2> QED
    BY <1>1, <1>5, <2>1, <2>2 DEF r
<1>10. GoldIn(Purses) \in Int /\ GoodsIn(Purses) \in Int
  BY GoldIsInt DEF MarketInv, MarketTypeOK
<1>11. /\ offers' \in [OfferIds -> Offers \cup {None}] /\ rows' \in [OfferIds -> Offers \cup {None}]
       /\ minted' \in [gold : Int, goods : Int] /\ minted' = minted
       /\ minted.gold \in Int /\ minted.goods \in Int
  BY <1>1, <1>3 DEF MarketInv, MarketTypeOK
<1>12. GoldIn(s) = GoldIn(Purses) + price - gold
  BY <1>2, <1>4, <1>6, <1>7, <1>8, <1>10
<1>13. GoodsIn(s) = GoodsIn(Purses) + n - goods
  BY <1>1, <1>4, <1>6, <1>7, <1>8, <1>10
<1>14. OfferedGold(offers') = OfferedGold(offers) + gold - price
  BY <1>2, <1>4, <1>5, <1>9
<1>15. OfferedGoods(offers') = OfferedGoods(offers) + goods - n
  BY <1>1, <1>4, <1>5, <1>9
<1>16. GoldIn(s) + OfferedGold(offers') - minted'.gold
         = GoldIn(Purses) + OfferedGold(offers) - minted.gold
  BY <1>2, <1>4, <1>9, <1>10, <1>11, <1>12, <1>14
<1>17. GoodsIn(s) + OfferedGoods(offers') - minted'.goods
         = GoodsIn(Purses) + OfferedGoods(offers) - minted.goods
  BY <1>1, <1>4, <1>9, <1>10, <1>11, <1>13, <1>15
<1> QED
  BY <1>1, <1>8, <1>11, <1>16, <1>17, Balances

\* What processExpiredOffers pays comes out of the old offers, or is minted.
LEMMA Processed == MarketInv /\ UNCHANGED online /\ ProcessExpiredOffers => MarketInv'
<1> SUFFICES ASSUME MarketInv, UNCHANGED online, ProcessExpiredOffers PROVE MarketInv'
  OBVIOUS
<1> DEFINE s == FoldSet(PayBack, Purses, Due)
           left == [i \in OfferIds |-> IF i \in Due THEN None ELSE offers[i]]
           gold == SumFunction([i \in OfferIds |-> Excess(i).gold])
           goods == SumFunction([i \in OfferIds |-> Excess(i).goods])
<1>1. SetPurses(s) /\ offers' = left /\ minted' = Add(minted, gold, goods) /\ rows' = [i \in OfferIds |-> None]
  BY DEF ProcessExpiredOffers
<1>2. /\ s \in PurseStates /\ gold \in Int /\ goods \in Int
      /\ GoldIn(s) + OfferedGold(left) = GoldIn(Purses) + OfferedGold(offers) + gold
      /\ GoodsIn(s) + OfferedGoods(left) = GoodsIn(Purses) + OfferedGoods(offers) + goods
  BY OwnersPaid DEF MarketInv
<1>3. left \in [OfferIds -> Offers \cup {None}]
  BY DEF MarketInv, MarketTypeOK
<1> HIDE DEF s, left, gold, goods
<1>4. /\ offers' \in [OfferIds -> Offers \cup {None}] /\ rows' \in [OfferIds -> Offers \cup {None}]
      /\ minted' \in [gold : Int, goods : Int] /\ minted.gold \in Int /\ minted.goods \in Int
      /\ minted'.gold = minted.gold + gold /\ minted'.goods = minted.goods + goods
  BY <1>1, <1>2, <1>3 DEF MarketInv, MarketTypeOK, Add
<1>5. /\ GoldIn(s) \in Int /\ GoodsIn(s) \in Int /\ GoldIn(Purses) \in Int /\ GoodsIn(Purses) \in Int
      /\ OfferedGold(left) \in Int /\ OfferedGoods(left) \in Int
      /\ OfferedGold(offers) \in Int /\ OfferedGoods(offers) \in Int
  BY <1>2, <1>3, GoldIsInt, OfferedIsInt DEF MarketInv, MarketTypeOK
<1>6. GoldIn(s) + OfferedGold(offers') - minted'.gold
        = GoldIn(Purses) + OfferedGold(offers) - minted.gold
  BY <1>1, <1>2, <1>4, <1>5
<1>7. GoodsIn(s) + OfferedGoods(offers') - minted'.goods
        = GoodsIn(Purses) + OfferedGoods(offers) - minted.goods
  <2>1. /\ GoodsIn(s) \in Int /\ GoodsIn(Purses) \in Int /\ goods \in Int /\ minted.goods \in Int
        /\ OfferedGoods(left) \in Int /\ OfferedGoods(offers) \in Int
    BY <1>2, <1>4, <1>5
  <2>2. GoodsIn(s) + OfferedGoods(left) = GoodsIn(Purses) + OfferedGoods(offers) + goods
    BY <1>2
  <2>3. minted'.goods = minted.goods + goods /\ offers' = left
    BY <1>1, <1>4
  <2> QED
    BY <2>1, <2>2, <2>3
<1> QED
  BY <1>1, <1>2, <1>4, <1>6, <1>7, Balances

\* Steps that leave what each player and each offer has.
LEMMA SameAccounts ==
  ASSUME MarketInv, MarketTypeOK', UNCHANGED <<offers, minted>>,
         \A p \in Players : Belongings(p)' = Belongings(p)
  PROVE  MarketInv'
<1>1. /\ [p \in Players |-> Belongings(p).gold]' = [p \in Players |-> Belongings(p).gold]
      /\ [p \in Players |-> Belongings(p).goods]' = [p \in Players |-> Belongings(p).goods]
  OBVIOUS
<1>2. \A p \in Players : (Belongings(p).gold >= 0 /\ Belongings(p).goods >= 0)'
  BY DEF MarketInv, Accounted
<1>3. Accounted'
  BY <1>1, <1>2 DEF MarketInv, Accounted, EscrowGold, EscrowGoods
<1> QED
  BY <1>3 DEF MarketInv

\* Every step of the market keeps the accounts.
LEMMA MarketKept == MarketInv /\ MarketNext /\ UNCHANGED online => MarketInv'
<1> SUFFICES ASSUME MarketInv, MarketNext, UNCHANGED online PROVE MarketInv'
  OBVIOUS
<1>1. ASSUME UNCHANGED <<live, stored, offers, minted>>, rows' \in [OfferIds -> Offers \cup {None}]
      PROVE  MarketInv'
  <2>1. MarketTypeOK'
    BY <1>1 DEF MarketInv, MarketTypeOK, Purses
  <2>2. \A p \in Players : Belongings(p)' = Belongings(p)
    BY <1>1 DEF Belongings
  <2> QED
    BY <1>1, <2>1, <2>2, SameAccounts
<1>2. ASSUME NEW p \in Players, NEW i \in OfferIds, NEW n \in Amounts, NEW sells \in BOOLEAN,
             CreateOffer(p, i, [owner |-> p, sells |-> sells, amount |-> n])
      PROVE  MarketInv'
  BY <1>2, Created
<1>3. ASSUME NEW p \in Players, NEW i \in OfferIds, CancelOffer(p, i) PROVE MarketInv'
  BY <1>3, Cancelled
<1>4. ASSUME NEW p \in Players, NEW i \in OfferIds, NEW n \in Amounts, AcceptOffer(p, i, n)
      PROVE  MarketInv'
  BY <1>4, Accepted
<1>5. CASE CheckExpiredOffers
  BY <1>1, <1>5 DEF CheckExpiredOffers, MarketInv, MarketTypeOK
<1>6. CASE ProcessExpiredOffers
  BY <1>6, Processed
<1>7. ASSUME NEW old \in SUBSET OfferIds, QueryRuns(old) PROVE MarketInv'
  BY <1>1, <1>7 DEF QueryRuns, MarketInv, MarketTypeOK
<1> QED
  BY <1>2, <1>3, <1>4, <1>5, <1>6, <1>7 DEF MarketNext

\* A player that comes has what the database has of it,
LEMMA MarketCame ==
  ASSUME MarketInv, NEW p \in Players, p \notin online, online' = online \cup {p}, MarketLogin(p)
  PROVE  MarketInv'
<1>1. MarketTypeOK'
  BY DEF MarketInv, MarketTypeOK, MarketLogin, Purses, PurseStates
<1>2. \A q \in Players : Belongings(q)' = Belongings(q)
  BY DEF MarketInv, MarketTypeOK, MarketLogin, Belongings, Purses, PurseStates
<1> QED
  BY <1>1, <1>2, SameAccounts DEF MarketLogin

\* and the database has what a player had that leaves.
LEMMA MarketLeft ==
  ASSUME MarketInv, NEW p \in Players, p \in online, online' = online \ {p}, MarketLogout(p)
  PROVE  MarketInv'
<1>1. MarketTypeOK'
  <2>1. Nothing \in Coins
    BY DEF Nothing, Coins
  <2> QED
    BY <2>1 DEF MarketInv, MarketTypeOK, MarketLogout, Purses, PurseStates
<1>2. \A q \in Players : Belongings(q)' = Belongings(q)
  BY DEF MarketInv, MarketTypeOK, MarketLogout, Belongings, Purses, PurseStates
<1> QED
  BY <1>1, <1>2, SameAccounts DEF MarketLogout

\* When a server stops of which every player is as the database has it, nothing is lost.
LEMMA MarketRestarted ==
  ASSUME MarketInv, UNCHANGED marketVars, online' = {}, \A p \in online : live[p] = stored[p]
  PROVE  MarketInv'
<1>1. MarketTypeOK'
  BY DEF MarketInv, MarketTypeOK, marketVars, Purses
<1>2. \A q \in Players : Belongings(q)' = Belongings(q)
  BY DEF marketVars, Belongings
<1> QED
  BY <1>1, <1>2, SameAccounts DEF marketVars
=============================================================================
