-------------------------------- MODULE Chat --------------------------------
(***************************************************************************)
(* The channels of parties and guilds and the private ones (chat.cpp), and *)
(* the guilds (guild.cpp).  A channel is a map of pointers to its users.   *)
(* The channel of a party belongs to the address of the Party: it is not   *)
(* erased with the party, and the next party at the address has it.  The   *)
(* public channels of the data pack, who may speak and what is said are    *)
(* left out; everybody is premium.                                         *)
(***************************************************************************)
EXTENDS Party

CONSTANTS
  Slots,    \* the ids of private channels
  Guilds,
  GuildOf   \* guild_membership in the database

ASSUME ChatAssumption ==
  Slots \subseteq Nat /\ None \notin Guilds /\ GuildOf \in [Players -> Guilds \cup {None}]

VARIABLES
  partyUsers,  \* users of the channel of a party, by address
  guildUsers,  \* users of the channel of a guild, by id
  privates,    \* None, or the owner, the invited and the users of a private channel
  members,     \* Guild::membersOnline
  guilds       \* Game::guilds: the Guild objects there are

chatVars == <<partyUsers, guildUsers, privates, members, guilds>>

ChatInit ==
  /\ partyUsers = [x \in Parties |-> {}]
  /\ guildUsers = [g \in Guilds |-> {}]
  /\ privates = [c \in Slots |-> None]
  /\ members = [g \in Guilds |-> {p \in online : GuildOf[p] = g}]
  /\ guilds = {g \in Guilds : members[g] # {}}

Open == {c \in Slots : privates[c] # None}
Owns(p, c) == c \in Open /\ privates[c].owner = p
OwnsChannel(p) == \E c \in Slots : Owns(p, c)
MayOpen(p, c) == c \in Open /\ p \in privates[c].invites \cup {privates[c].owner}
-----------------------------------------------------------------------------
\* Game::playerOpenChannel of the channel of the party: the one at its address.
OpenParty(p) ==
  /\ p \in online /\ party[p] # None
  /\ partyUsers' = [partyUsers EXCEPT ![party[p]] = @ \cup {p}]
  /\ UNCHANGED <<guildUsers, privates, members, guilds>>

\* Game::playerCloseChannel.  One who has left the party no longer finds the channel:
\* Party::leaveParty, too, clears the pointer before it closes the channel.
CloseParty(p) ==
  /\ p \in online /\ party[p] # None
  /\ partyUsers' = [partyUsers EXCEPT ![party[p]] = @ \ {p}]
  /\ UNCHANGED <<guildUsers, privates, members, guilds>>

OpenGuild(p) ==
  /\ p \in online /\ GuildOf[p] # None
  /\ guildUsers' = [guildUsers EXCEPT ![GuildOf[p]] = @ \cup {p}]
  /\ UNCHANGED <<partyUsers, privates, members, guilds>>

CloseGuild(p) ==
  /\ p \in online /\ GuildOf[p] # None
  /\ guildUsers' = [guildUsers EXCEPT ![GuildOf[p]] = @ \ {p}]
  /\ UNCHANGED <<partyUsers, privates, members, guilds>>

\* Game::playerCreatePrivateChannel, in the first free slot.
CreatePrivate(p) ==
  /\ p \in online /\ ~OwnsChannel(p)
  /\ \E c \in Slots \ Open :
       /\ \A d \in Slots \ Open : c <= d
       /\ privates' = [privates EXCEPT ![c] = [owner |-> p, invites |-> {}, users |-> {p}]]
  /\ UNCHANGED <<partyUsers, guildUsers, members, guilds>>

\* Game::playerChannelInvite
InviteToChannel(p, q, c) ==
  /\ {p, q} \subseteq online /\ p # q /\ Owns(p, c)
  /\ privates' = [privates EXCEPT ![c].invites = @ \cup {q}]
  /\ UNCHANGED <<partyUsers, guildUsers, members, guilds>>

\* Mutant: the excluded goes on listening.
Excluded_listening(ch, q) == [ch EXCEPT !.invites = @ \ {q}]

\* PrivateChatChannel::excludePlayer
Excluded(ch, q) == [ch EXCEPT !.invites = @ \ {q}, !.users = @ \ {q}]

\* Game::playerChannelExclude
Exclude(p, q, c) ==
  /\ {p, q} \subseteq online /\ p # q /\ Owns(p, c) /\ q \in privates[c].invites
  /\ privates' = [privates EXCEPT ![c] = Excluded(@, q)]
  /\ UNCHANGED <<partyUsers, guildUsers, members, guilds>>

OpenPrivate(p, c) ==
  /\ p \in online /\ MayOpen(p, c)
  /\ privates' = [privates EXCEPT ![c].users = @ \cup {p}]
  /\ UNCHANGED <<partyUsers, guildUsers, members, guilds>>

\* Chat::removeUserFromChannel: the channel ends when its owner closes it.
ClosePrivate(p, c) ==
  /\ p \in online /\ MayOpen(p, c) /\ p \in privates[c].users
  /\ privates' = [privates EXCEPT ![c] =
       IF Owns(p, c) THEN None ELSE [privates[c] EXCEPT !.users = @ \ {p}]]
  /\ UNCHANGED <<partyUsers, guildUsers, members, guilds>>

\* Chat::removeUserFromAllChannels
RemoveFromAll(p) ==
  /\ partyUsers' = [x \in Parties |-> partyUsers[x] \ {p}]
  /\ guildUsers' = [g \in Guilds |-> guildUsers[g] \ {p}]
  /\ privates' = [c \in Slots |->
       IF c \notin Open \/ Owns(p, c) THEN None ELSE Excluded(privates[c], p)]

\* ProtocolGame::connect, to a character that is in the game.
Reconnect(p) == p \in online /\ RemoveFromAll(p) /\ UNCHANGED <<members, guilds>>
-----------------------------------------------------------------------------
\* loadPlayer makes the Guild, also for a player that is loaded only to be given
\* something; nothing ends such a Guild.
LoadOffline(p) ==
  /\ p \notin online /\ GuildOf[p] # None
  /\ guilds' = guilds \cup {GuildOf[p]}
  /\ UNCHANGED <<partyUsers, guildUsers, privates, members>>

\* loadPlayer and Guild::addMember
ChatLogin(p) ==
  /\ guilds' = guilds \cup ({GuildOf[p]} \ {None})
  /\ members' = [g \in Guilds |-> IF GuildOf[p] = g THEN members[g] \cup {p} ELSE members[g]]
  /\ UNCHANGED <<partyUsers, guildUsers, privates>>

\* Guild::removeMember ends the Guild with its last member.
ChatLogout(p) ==
  /\ RemoveFromAll(p)
  /\ members' = [g \in Guilds |-> members[g] \ {p}]
  /\ guilds' = {g \in guilds : GuildOf[p] = g => members[g] # {p}}

\* The server starts again, with nobody in the game.
ChatRestart ==
  /\ partyUsers' = [x \in Parties |-> {}]
  /\ guildUsers' = [g \in Guilds |-> {}]
  /\ privates' = [c \in Slots |-> None]
  /\ members' = guildUsers'
  /\ guilds' = {}

ChatNext ==
  \E p \in Players :
    \/ OpenParty(p) \/ CloseParty(p) \/ OpenGuild(p) \/ CloseGuild(p)
    \/ CreatePrivate(p) \/ Reconnect(p) \/ LoadOffline(p)
    \/ \E c \in Slots : OpenPrivate(p, c) \/ ClosePrivate(p, c)
    \/ \E q \in Players, c \in Slots : InviteToChannel(p, q, c) \/ Exclude(p, q, c)
-----------------------------------------------------------------------------
\* Nobody listens to a private channel whose owner has not invited it, or has since
\* excluded it; a channel has its owner among its users, and an owner one channel.
\* Who is in a guild points to a Guild that is there and that knows of it.
ChatAgrees ==
  /\ \A c \in Open :
       /\ privates[c].owner \in privates[c].users
       /\ privates[c].users \subseteq privates[c].invites \cup {privates[c].owner}
       /\ \A d \in Open : privates[c].owner = privates[d].owner => c = d
  /\ \A p \in online : GuildOf[p] # None => GuildOf[p] \in guilds /\ p \in members[GuildOf[p]]

\* A channel, or the owner of one, or a guild that points to a player.
ChatKnows(p) ==
  \/ \E x \in Parties : p \in partyUsers[x]
  \/ \E g \in Guilds : p \in guildUsers[g] \cup members[g]
  \/ \E c \in Open : p \in privates[c].users \cup privates[c].invites \cup {privates[c].owner}
=============================================================================
