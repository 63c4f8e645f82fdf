----------------------------- MODULE OutputPool -----------------------------
(***************************************************************************)
(* The autosend of buffered game output (src/src/outputmessage.cpp and     *)
(* Protocol::getOutputBuffer): what the game writes for a client collects  *)
(* in the protocol's buffer until it is full or the next sendAll, an event *)
(* that schedules itself again while any protocol is registered.  Module   *)
(* Network runs it with the connection of one of the clients.              *)
(***************************************************************************)
EXTENDS Integers, Sequences, SequencesExt, FiniteSets

CONSTANTS
  Protocols,
  Writers,    \* bound: the protocols the game writes for
  Capacity,   \* packets that fit in a buffer
  MaxPackets, \* bound: packets written for one protocol
  MaxEvents   \* bound: sendAll events waiting at once

VARIABLES
  bufferedProtocols,
  outputBuffer,  \* per protocol, the packets buffered
  events,        \* sendAll events scheduled or waiting in the dispatcher
  gone,          \* protocols that have been removed
  written        \* history: packets the game wrote, in order

vars == <<bufferedProtocols, outputBuffer, events, gone, written>>

Registered == ToSet(bufferedProtocols)

Init ==
  /\ bufferedProtocols = <<>> /\ events = 0 /\ gone = {}
  /\ outputBuffer = [p \in Protocols |-> <<>>]
  /\ written = [p \in Protocols |-> <<>>]
-----------------------------------------------------------------------------
\* writeToOutputBuffer: a full buffer is sent first.
Full(p) == Len(outputBuffer[p]) + 1 > Capacity

Write(p) ==
  /\ p \in Writers \ gone
  /\ Len(written[p]) < MaxPackets
  /\ LET packet == Len(written[p]) + 1
     IN /\ written' = [written EXCEPT ![p] = Append(@, packet)]
        /\ outputBuffer' = [outputBuffer EXCEPT ![p] =
                              IF Full(p) THEN <<packet>> ELSE Append(@, packet)]
  /\ UNCHANGED <<bufferedProtocols, events, gone>>

MustSchedule == bufferedProtocols = <<>>

\* addProtocolToAutosend: a protocol logs in once.
AddProtocol(p) ==
  /\ p \notin Registered \cup gone
  /\ MustSchedule => events < MaxEvents
  /\ events' = IF MustSchedule THEN events + 1 ELSE events
  /\ bufferedProtocols' = Append(bufferedProtocols, p)
  /\ UNCHANGED <<outputBuffer, gone, written>>

\* removeProtocolFromAutosend, called by release whether or not the protocol
\* ever logged in: swap with the last one, drop the last.
WithoutProtocol(p) ==
  LET i == CHOOSE i \in DOMAIN bufferedProtocols : bufferedProtocols[i] = p
  IN Front([bufferedProtocols EXCEPT ![i] = Last(bufferedProtocols)])

RemoveProtocol(p) ==
  /\ p \notin gone
  /\ bufferedProtocols' = IF p \in Registered THEN WithoutProtocol(p) ELSE bufferedProtocols
  /\ gone' = gone \cup {p}
  /\ UNCHANGED <<outputBuffer, events, written>>

\* sendAll
Rearm_once == 0
Rearm == IF bufferedProtocols # <<>> THEN 1 ELSE 0

SendAll ==
  /\ events > 0
  /\ outputBuffer' = [p \in Protocols |-> IF p \in Registered THEN <<>> ELSE outputBuffer[p]]
  /\ events' = events - 1 + Rearm
  /\ UNCHANGED <<bufferedProtocols, gone, written>>
-----------------------------------------------------------------------------
\* The type invariant; no protocol is registered twice, and one that has been
\* released is not registered.
TypeOK ==
  /\ bufferedProtocols \in Seq(Protocols) /\ gone \subseteq Protocols
  /\ Len(bufferedProtocols) = Cardinality(Registered)
  /\ gone \cap Registered = {}
  /\ events \in 0..MaxEvents
  /\ \A p \in Protocols : Len(outputBuffer[p]) <= Capacity
=============================================================================
