------------------------------ MODULE Network ------------------------------
(***************************************************************************)
(* From the game to the wire: what the game writes for a client collects   *)
(* in its protocol's output buffer; a full buffer and the autosend event   *)
(* give it to the connection, whose queue goes to the socket one write at  *)
(* a time while reads, timers, errors and closes come and go.  A close     *)
(* posts the protocol's release to the game thread, which unregisters it.  *)
(***************************************************************************)
EXTENDS Connection, SequencesExt, FiniteSets

CONSTANTS
  Protocols,
  Client,      \* the protocol of the connection that is modelled
  Capacity,    \* packets that fit in a buffer
  MaxPackets,  \* bound: packets written for one protocol
  MaxEvents    \* bound: sendAll events waiting at once

ASSUME NetworkAssumption ==
  /\ Client \in Protocols
  /\ Capacity \in Nat \ {0} /\ MaxPackets \in Nat /\ MaxEvents \in Nat \ {0}

VARIABLES bufferedProtocols, outputBuffer, events, gone, written

Pool == INSTANCE OutputPool WITH Writers <- {Client}

poolVars == <<bufferedProtocols, outputBuffer, events, gone, written>>
netVars == <<vars, poolVars>>

NetworkInit == Init /\ Pool!Init
-----------------------------------------------------------------------------
\* Protocol::send: nothing happens once the connection has gone or is closed.
Give(m) == IF alive /\ connectionState = "OPEN" THEN Send(m) ELSE UNCHANGED vars

\* getOutputBuffer: a full buffer is sent before the next packet is written.
Overflow_dropped == UNCHANGED vars
Overflow == IF Pool!Full(Client) THEN Give(outputBuffer[Client]) ELSE UNCHANGED vars

\* The game writes for the players that are in the game.
GameWrites ==
  /\ Client \in Pool!Registered
  /\ Pool!Write(Client)
  /\ Overflow

SendAll ==
  /\ Pool!SendAll
  /\ IF Client \in Pool!Registered /\ outputBuffer[Client] # <<>>
     THEN Give(outputBuffer[Client]) ELSE UNCHANGED vars

\* ProtocolGame::login runs before the release that a close posts: both are
\* pushed at the back of the dispatcher, the login by the first packet.
LogsIn(p) ==
  /\ p = Client => protocol /\ accepted = <<>>
  /\ Pool!AddProtocol(p)
  /\ UNCHANGED vars

\* disconnectClient: a login is refused with a message and a close.
Refuse ==
  /\ protocol /\ alive /\ connectionState = "OPEN"
  /\ Client \notin Pool!Registered \cup gone
  /\ accepted = <<>>
  /\ Send(<<0>>)
  /\ UNCHANGED poolVars

\* ProtocolGame::release, the task that a close posts.
Release(p) ==
  /\ p = Client => releases = 1
  /\ Pool!RemoveProtocol(p)
  /\ UNCHANGED vars

PoolNext ==
  \/ GameWrites \/ SendAll \/ Refuse
  \/ \E p \in Protocols : LogsIn(p) \/ Release(p)

Next ==
  \/ PoolNext
  \/ ConnectionNext /\ UNCHANGED poolVars

Fairness ==
  /\ WF_netVars(ReadTimerExpires /\ UNCHANGED poolVars)
  /\ WF_netVars(WriteTimerExpires /\ UNCHANGED poolVars)
  /\ WF_netVars(HandleTimeout /\ UNCHANGED poolVars)
  /\ WF_netVars(AbortedRead /\ UNCHANGED poolVars)
  /\ WF_netVars(AbortedWrite /\ UNCHANGED poolVars)
  /\ WF_netVars(Destroy /\ UNCHANGED poolVars)
  /\ WF_netVars(SendAll)

Spec == NetworkInit /\ [][Next]_netVars /\ Fairness
-----------------------------------------------------------------------------
\* What the game writes reaches the wire in that order and without a gap,
\* whether a full buffer or the timer sent it; while the connection is open
\* nothing is lost on the way (protocol.cpp:50-60, connection.cpp:237-250).
Packets(messages) == FlattenSeq(messages)
PacketsInOrder ==
  Client \in Pool!Registered =>
    /\ Packets(sent) = SubSeq(written[Client], 1, Len(Packets(sent)))
    /\ connectionState = "OPEN" => Packets(accepted) \o outputBuffer[Client] = written[Client]

\* What is buffered for a client is sent or the client is gone: sendAll must
\* stay scheduled while anybody is registered (outputmessage.cpp:56-66).
BufferIsSent ==
  (outputBuffer[Client] # <<>> /\ Client \in Pool!Registered)
    ~> (outputBuffer[Client] = <<>> \/ Client \notin Pool!Registered)
=============================================================================
