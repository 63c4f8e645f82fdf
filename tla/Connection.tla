----------------------------- MODULE Connection -----------------------------
(***************************************************************************)
(* One accepted client connection (src/src/connection.cpp): its state, its *)
(* socket, the asynchronous read and write that are outstanding, the two   *)
(* timers, the queue of messages to send, and what keeps the object alive. *)
(*                                                                         *)
(* The handlers run on the io thread; send and close also come from the    *)
(* game thread.  Each holds connectionLock, so each is one step.  Cancelling*)
(* a timer does not stop a handler that has already been queued: an expiry *)
(* and its handler are two steps.  Setting a timer and starting a read or a*)
(* write report their errors to the handler and throw nothing: the catch   *)
(* clauses for system_error are left out.  Module Network adds what the    *)
(* game sends.                                                             *)
(***************************************************************************)
EXTENDS Integers, Sequences

CONSTANT
  MaxReads   \* bound: packets a client sends

ASSUME ConnectionAssumption == MaxReads \in Nat

VARIABLES
  connectionState,
  socket,        \* open, broken (the peer has reset it) or closed
  reading,       \* the outstanding async_read: none, header, body
  writing,       \* whether an async_write is outstanding
  messageQueue,
  readTimer,     \* whether the timer is waiting
  writeTimer,
  timeouts,      \* timer handlers queued by an expiry, not by a cancel
  protocol,      \* whether the connection has its Protocol
  releases,      \* Protocol::release tasks posted to the dispatcher
  managed,       \* whether ConnectionManager holds the connection
  alive,         \* the object has not been destroyed
  accepted,      \* history: messages send has taken, in order
  sent,          \* history: messages written, in order
  cut,           \* history: an error or a forced close has happened
  reads          \* packets received (bounded)

vars == <<connectionState, socket, reading, writing, messageQueue, readTimer,
          writeTimer, timeouts, protocol, releases, managed, alive, accepted,
          sent, cut, reads>>
history == <<accepted, sent, reads>>

\* Connection::accept: a single-socket service has made its protocol already.
Init ==
  /\ connectionState = "OPEN" /\ socket = "open"
  /\ reading = "header" /\ readTimer = TRUE
  /\ writing = FALSE /\ writeTimer = FALSE /\ messageQueue = <<>>
  /\ timeouts = 0 /\ releases = 0
  /\ protocol \in BOOLEAN
  /\ managed = TRUE /\ alive = TRUE
  /\ accepted = <<>> /\ sent = <<>> /\ cut = FALSE /\ reads = 0
-----------------------------------------------------------------------------
\* close(force) on a connection whose queue is q and whose Protocol is there
\* or not.
AlreadyClosed_ignored == FALSE
AlreadyClosed == connectionState # "OPEN"
ClosesNow_always(q, force) == ~AlreadyClosed
ClosesNow(q, force) == ~AlreadyClosed /\ (q = <<>> \/ force)

Posts(hasProtocol, force) == hasProtocol
Managed == FALSE

Close(force, q, hasProtocol) ==
  /\ managed' = Managed
  /\ connectionState' = "CLOSED"
  /\ releases' = IF ~AlreadyClosed /\ Posts(hasProtocol, force) THEN releases + 1 ELSE releases
  /\ socket' = IF ClosesNow(q, force) THEN "closed" ELSE socket

\* closeSocket cancels both timers, unless the socket is closed already.
Cancels(q, force) == ClosesNow(q, force) /\ socket # "closed"
Timers(q, force, r, w) ==
  /\ readTimer' = (r /\ ~Cancels(q, force))
  /\ writeTimer' = (w /\ ~Cancels(q, force))

Cut(force) == cut' = (cut \/ (force /\ connectionState = "OPEN"))

Stay == UNCHANGED <<connectionState, socket, releases, managed, cut>>

\* An outstanding operation completes with an error when the socket is broken
\* or closed; a completion queued before that may still be a success.
Completes(ok) == ok \/ socket # "open"

PeerResets ==
  /\ alive /\ socket = "open"
  /\ socket' = "broken"
  /\ UNCHANGED <<connectionState, reading, writing, messageQueue, readTimer, writeTimer,
                 timeouts, protocol, releases, managed, alive, history, cut>>

\* parseHeader.  A packet limit exceeded closes gracefully, a bad length by
\* force; otherwise the body is read.
ReadTimeout_unset == FALSE
ReadTimeout == TRUE

ParseHeader(ok) ==
  /\ alive /\ reading = "header"
  /\ Completes(ok)
  /\ ok => reads < MaxReads
  /\ reads' = IF ok THEN reads + 1 ELSE reads
  /\ \/ /\ ~ok
        /\ Close(TRUE, messageQueue, protocol) /\ Cut(TRUE)
        /\ Timers(messageQueue, TRUE, FALSE, writeTimer)
        /\ reading' = "none"
     \/ /\ ok /\ connectionState = "CLOSED"
        /\ Stay /\ readTimer' = FALSE /\ UNCHANGED writeTimer
        /\ reading' = "none"
     \/ /\ ok /\ connectionState = "OPEN"
        /\ \E force \in BOOLEAN :
             /\ Close(force, messageQueue, protocol) /\ Cut(force)
             /\ Timers(messageQueue, force, FALSE, writeTimer)
        /\ reading' = "none"
     \/ /\ ok /\ connectionState = "OPEN"
        /\ Stay /\ readTimer' = ReadTimeout /\ UNCHANGED writeTimer
        /\ reading' = "body"
  /\ UNCHANGED <<writing, messageQueue, timeouts, protocol, alive, accepted, sent>>

\* parsePacket.  The first packet makes the protocol or closes the connection.
\* Whatever the protocol then does, disconnect included, the next header is
\* read and the timer set again.
NextRead == "header"

ParsePacket(ok) ==
  /\ alive /\ reading = "body"
  /\ Completes(ok)
  /\ \/ /\ ~ok
        /\ Close(TRUE, messageQueue, protocol) /\ Cut(TRUE)
        /\ Timers(messageQueue, TRUE, FALSE, writeTimer)
        /\ reading' = "none" /\ UNCHANGED protocol
     \/ /\ ok /\ connectionState = "CLOSED"
        /\ Stay /\ readTimer' = FALSE /\ UNCHANGED writeTimer
        /\ reading' = "none" /\ UNCHANGED protocol
     \/ /\ ok /\ connectionState = "OPEN" /\ ~protocol
        /\ Close(TRUE, messageQueue, FALSE) /\ Cut(TRUE)
        /\ Timers(messageQueue, TRUE, FALSE, writeTimer)
        /\ reading' = "none" /\ UNCHANGED protocol
     \/ /\ ok /\ connectionState = "OPEN"
        /\ protocol' = TRUE
        /\ \/ Stay /\ UNCHANGED writeTimer
           \/ /\ Close(FALSE, messageQueue, TRUE) /\ Cut(FALSE)
              /\ writeTimer' = (writeTimer /\ ~Cancels(messageQueue, FALSE))
        /\ readTimer' = ReadTimeout
        /\ reading' = NextRead
  /\ UNCHANGED <<writing, messageQueue, timeouts, alive, history>>

\* send, from the game thread.
NoPendingWrite == messageQueue = <<>>

Send(m) ==
  /\ alive /\ protocol
  /\ connectionState = "OPEN"
  /\ messageQueue' = Append(messageQueue, m)
  /\ accepted' = Append(accepted, m)
  /\ IF NoPendingWrite
     THEN writing' = TRUE /\ writeTimer' = TRUE
     ELSE UNCHANGED <<writing, writeTimer>>
  /\ UNCHANGED <<connectionState, socket, reading, readTimer, timeouts, protocol,
                 releases, managed, alive, sent, cut, reads>>

\* onWriteOperation.
WriteNext(q) == q # <<>>

OnWriteOperation(ok) ==
  /\ alive /\ writing
  /\ Completes(ok)
  /\ sent' = IF ok THEN Append(sent, Head(messageQueue)) ELSE sent
  /\ IF ok
     THEN /\ messageQueue' = Tail(messageQueue)
          /\ writing' = WriteNext(messageQueue')
          /\ writeTimer' = writing'
          /\ IF messageQueue' = <<>> /\ connectionState = "CLOSED"
             THEN socket' = "closed" /\ readTimer' = (readTimer /\ socket = "closed")
             ELSE UNCHANGED <<socket, readTimer>>
          /\ UNCHANGED <<connectionState, releases, managed, cut>>
     ELSE /\ messageQueue' = <<>>
          /\ writing' = FALSE
          /\ Close(TRUE, <<>>, protocol)
          /\ Timers(<<>>, TRUE, readTimer, FALSE)
          /\ cut' = TRUE
  /\ UNCHANGED <<reading, timeouts, protocol, alive, accepted, reads>>

\* disconnect, from the game thread or the io thread.
Disconnect ==
  /\ alive /\ protocol
  /\ Close(FALSE, messageQueue, TRUE) /\ Cut(FALSE)
  /\ Timers(messageQueue, FALSE, readTimer, writeTimer)
  /\ UNCHANGED <<reading, writing, messageQueue, timeouts, protocol, alive, history>>

ReadTimerExpires ==
  /\ alive /\ readTimer
  /\ readTimer' = FALSE /\ timeouts' = timeouts + 1
  /\ UNCHANGED <<connectionState, socket, reading, writing, messageQueue, writeTimer,
                 protocol, releases, managed, alive, history, cut>>

WriteTimerExpires ==
  /\ alive /\ writeTimer
  /\ writeTimer' = FALSE /\ timeouts' = timeouts + 1
  /\ UNCHANGED <<connectionState, socket, reading, writing, messageQueue, readTimer,
                 protocol, releases, managed, alive, history, cut>>

\* handleTimeout.
HandleTimeout ==
  /\ alive /\ timeouts > 0
  /\ timeouts' = timeouts - 1
  /\ Close(TRUE, messageQueue, protocol) /\ Cut(TRUE)
  /\ Timers(messageQueue, TRUE, readTimer, writeTimer)
  /\ UNCHANGED <<reading, writing, messageQueue, protocol, alive, history>>

\* ConnectionManager::closeAll, which knows nothing of the connection's state.
CloseAll ==
  /\ managed
  /\ managed' = FALSE
  /\ socket' = "closed"
  /\ cut' = TRUE
  /\ UNCHANGED <<connectionState, reading, writing, messageQueue, readTimer, writeTimer,
                 timeouts, protocol, releases, alive, history>>

\* Nothing holds the object any more: the destructor closes the socket.
Destroy ==
  /\ alive /\ ~managed /\ reading = "none" /\ ~writing
  /\ alive' = FALSE
  /\ socket' = "closed" /\ readTimer' = FALSE /\ writeTimer' = FALSE
  /\ timeouts' = 0
  /\ UNCHANGED <<connectionState, reading, writing, messageQueue, protocol, releases,
                 managed, history, cut>>
-----------------------------------------------------------------------------
\* What the io thread, the peer and the end of the server do; send, disconnect
\* and the run of release are the game thread's.
ConnectionNext ==
  \/ \E ok \in BOOLEAN : ParseHeader(ok) \/ ParsePacket(ok) \/ OnWriteOperation(ok)
  \/ Disconnect \/ ReadTimerExpires \/ WriteTimerExpires \/ HandleTimeout
  \/ CloseAll \/ PeerResets \/ Destroy

\* Timers expire, queued handlers run, and an operation on a broken or
\* closed socket is aborted.  Nothing obliges the peer to send or to take what is sent.
AbortedRead == socket # "open" /\ (ParseHeader(FALSE) \/ ParsePacket(FALSE))
AbortedWrite == socket # "open" /\ OnWriteOperation(FALSE)
-----------------------------------------------------------------------------
\* The type invariant; the protocol is released at most once.
TypeOK ==
  /\ connectionState \in {"OPEN", "CLOSED"}
  /\ {writing, readTimer, writeTimer, protocol, managed, alive, cut} \subseteq BOOLEAN
  /\ socket \in {"open", "broken", "closed"}
  /\ reading \in {"none", "header", "body"}
  /\ Len(sent) + Len(messageQueue) <= Len(accepted)
  /\ timeouts \in Nat /\ reads \in 0..MaxReads
  /\ releases \in 0..1

\* Messages reach the socket in the order of the sends, and a graceful close
\* writes all of them before it closes the socket.
GracefulCloseSendsAll ==
  /\ sent = SubSeq(accepted, 1, Len(sent))
  /\ socket = "closed" /\ ~cut => sent = accepted

\* A client that falls silent is cut off by the read timer.
SilentClientIsCut ==
  \A r \in {"header", "body"} :
    (connectionState = "OPEN" /\ reading = r) ~> (connectionState = "CLOSED" \/ reading # r)
=============================================================================
