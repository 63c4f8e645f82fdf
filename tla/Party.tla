-------------------------------- MODULE Party --------------------------------
(***************************************************************************)
(* Parties (src/src/party.cpp, the party handlers of game.cpp and the      *)
(* party members of player.cpp).  A Party object has a leader, a list of   *)
(* members and a list of invited players; each player points to its party  *)
(* and lists the parties that invite it.  A Party deletes itself, so its   *)
(* address may be used again.                                              *)
(*                                                                         *)
(* Every handler runs as one task of the game thread.  The party events    *)
(* are disabled in data/events/events.xml: they answer true.  Shared       *)
(* experience is left out.                                                 *)
(***************************************************************************)
EXTENDS Roster, FiniteSets, SequencesExt, FiniteSetsExt

CONSTANT Parties  \* the addresses a Party object may have

ASSUME PartyAssumption == None \notin Parties

VARIABLES
  group,        \* the Party at an address: leader, memberList, inviteList
  party,        \* Player::party
  invitations   \* Player::invitePartyList

partyVars == <<group, party, invitations>>

NoGroup == [leader |-> None, members |-> <<>>, invited |-> {}]

PartyInit ==
  /\ group = [x \in Parties |-> NoGroup]
  /\ party = [p \in Players |-> None]
  /\ invitations = [p \in Players |-> {}]

Alive(x) == group[x].leader # None
Leads(p) == party[p] # None /\ group[party[p]].leader = p
IsInviting(p, q) == Leads(p) /\ q \in group[party[p]].invited
IsPartner(p, q) == party[p] # None /\ q # p /\ party[q] = party[p]
-----------------------------------------------------------------------------
(* Handlers call one another, so each is a function of the three variables *)
(* taken together, S.                                                      *)

Now == [group |-> group, party |-> party, invitations |-> invitations]
Become(S) == group' = S.group /\ party' = S.party /\ invitations' = S.invitations

Empty(g) == g.members = <<>> /\ g.invited = {}

\* disband: of none, one or more parties, which have nothing in common.
\* Mutant: the members go on pointing to the party.
DisbandIn_membersKept(S, X) ==
  [group |-> [x \in Parties |-> IF x \in X THEN NoGroup ELSE S.group[x]],
   party |-> [p \in Players |-> IF \E x \in X : S.group[x].leader = p THEN None ELSE S.party[p]],
   invitations |-> [p \in Players |-> {x \in S.invitations[p] : x \in X => p \notin S.group[x].invited}]]

DisbandIn(S, X) ==
  LET Was(p, x) == S.group[x].leader = p \/ Contains(S.group[x].members, p)
  IN [group |-> [x \in Parties |-> IF x \in X THEN NoGroup ELSE S.group[x]],
      party |-> [p \in Players |-> IF \E x \in X : Was(p, x) THEN None ELSE S.party[p]],
      invitations |-> [p \in Players |-> {x \in S.invitations[p] : x \in X => p \notin S.group[x].invited}]]

Uninviting(g, p) == [g EXCEPT !.invited = @ \ {p}]

\* removeInvite, by each of the parties X, which disbands the ones with nobody left to
\* wait for.
RemoveInvitesIn(S, p, X) ==
  LET T == [group |-> [x \in Parties |-> IF x \in X THEN Uninviting(S.group[x], p) ELSE S.group[x]],
            party |-> S.party,
            invitations |-> [S.invitations EXCEPT ![p] = @ \ X]]
  IN DisbandIn(T, {x \in X : Empty(T.group[x])})

\* clearPartyInvitations
ClearInvitationsIn(S, p) == RemoveInvitesIn(S, p, S.invitations[p])

\* passPartyLeadership: the old leader becomes the first member.
PassedTo(g, p) == [g EXCEPT !.leader = p, !.members = <<g.leader>> \o RemoveFirst(@, p)]

\* leaveParty.  A leader with nobody to lead, or with one member and nobody
\* invited, takes the party along.
MissingLeader(g, p) ==
  g.leader = p /\ (g.members = <<>> \/ (Len(g.members) = 1 /\ g.invited = {}))

LeaveIn(S, p) ==
  LET x == S.party[p]
      g == S.group[x]
      h == IF g.leader = p /\ ~MissingLeader(g, p) THEN PassedTo(g, Head(g.members)) ELSE g
      T == [group |-> [S.group EXCEPT ![x] = [h EXCEPT !.members = RemoveFirst(@, p)]],
            party |-> [S.party EXCEPT ![p] = None],
            invitations |-> S.invitations]
  IN DisbandIn(T, IF MissingLeader(g, p) \/ Empty(T.group[x]) THEN {x} ELSE {})
-----------------------------------------------------------------------------
\* invitePlayer and joinParty
Inviting(g, p) == [g EXCEPT !.invited = @ \cup {p}]
Joined(g, p) ==
  [leader |-> g.leader, members |-> Append(g.members, p), invited |-> g.invited \ {p}]

\* playerInviteToParty: the first invitation makes the party.
Invite(p, q) ==
  /\ p \in online /\ q \in online \ {p}
  /\ ~IsInviting(q, p) /\ party[q] = None
  /\ \E x \in Parties :
       /\ \/ party[p] = None /\ ~Alive(x) /\ group' = [group EXCEPT ![x] = Inviting([@ EXCEPT !.leader = p], q)]
          \/ Leads(p) /\ party[p] = x /\ ~IsInviting(p, q) /\ group' = [group EXCEPT ![x] = Inviting(@, q)]
       /\ party' = [party EXCEPT ![p] = x]
       /\ invitations' = [invitations EXCEPT ![q] = @ \cup {x}]

\* playerJoinParty
Join(p, q) ==
  /\ p \in online /\ q \in online
  /\ IsInviting(q, p) /\ party[p] = None
  /\ group' = [group EXCEPT ![party[q]] = Joined(@, p)]
  /\ party' = [party EXCEPT ![p] = party[q]]
  /\ invitations' = [invitations EXCEPT ![p] = @ \ {party[q]}]

\* playerRevokePartyInvitation
Revoke(p, q) ==
  /\ p \in online /\ q \in online
  /\ IsInviting(p, q)
  /\ Become(RemoveInvitesIn(Now, q, {party[p]}))

\* playerPassPartyLeadership
PassLeadership(p, q) ==
  /\ p \in online /\ q \in online
  /\ Leads(p) /\ IsPartner(p, q)
  /\ group' = [group EXCEPT ![party[p]] = PassedTo(@, q)]
  /\ UNCHANGED <<party, invitations>>

\* playerLeaveParty, unless in a fight.
LeaveParty(p) ==
  /\ p \in online /\ party[p] # None
  /\ Become(LeaveIn(Now, p))

\* The part of Player::onRemoveCreature about parties.
PartyLogout_invitationsKept(p) ==
  IF party[p] # None THEN Become(LeaveIn(Now, p)) ELSE UNCHANGED partyVars

PartyLogout(p) ==
  LET S == ClearInvitationsIn(Now, p)
  IN Become(IF S.party[p] # None THEN LeaveIn(S, p) ELSE S)

PartyNext ==
  \/ \E p, q \in Players : Invite(p, q) \/ Join(p, q) \/ Revoke(p, q) \/ PassLeadership(p, q)
  \/ \E p \in Players : LeaveParty(p)
-----------------------------------------------------------------------------

Belongs(p, x) == group[x].leader = p \/ Contains(group[x].members, p)

\* The two ends of every link agree: a player points to a party exactly when
\* the party has it as its leader or, once, as a member, and lists an
\* invitation exactly when the party does; nobody is invited to its own party
\* (party.cpp keeps the two in different objects, and deletes one of them).
\* And no party outlives its purpose: one that nobody else is in or invited to
\* has disbanded, however the last of them went (party.cpp:62, 136, 227).
PartyAgrees ==
  /\ \A p \in Players, x \in Parties :
       /\ party[p] = x <=> Belongs(p, x)
       /\ x \in invitations[p] <=> p \in group[x].invited
       /\ ~(Belongs(p, x) /\ p \in group[x].invited)
       /\ Cardinality({i \in DOMAIN group[x].members : group[x].members[i] = p})
          = (IF party[p] = x /\ group[x].leader # p THEN 1 ELSE 0)
  /\ \A x \in Parties : Alive(x) => ~Empty(group[x])

\* No party list holds a player that is not in the game.
PartyKnows(p) == \E x \in Parties : Belongs(p, x) \/ p \in group[x].invited
=============================================================================
