------------------------------- MODULE SendQueue -------------------------------
(***************************************************************************)
(* The sending half of CNetworkClient: SendIRCMessage, _ProcessSendQueue,  *)
(* _HandleSend and what a disconnection does to them.  At most one         *)
(* asynchronous write is under way; what is to be sent meanwhile waits in  *)
(* m_SendQueue.                                                            *)
(*                                                                         *)
(* One action is one handler of the event loop.  A message goes over the   *)
(* wire in two halves, so that a write can stop in the middle of it; more  *)
(* pieces would not tell more.                                             *)
(***************************************************************************)
EXTENDS Naturals, Sequences

CONSTANTS
    Messages,       \* what other handlers send to the client
    Quit,           \* its own QUIT, which a channel member gets, too
    ErrorLine,      \* the ERROR message of DisconnectNetworkClient
    NoMessage,      \* nothing: m_SendBufferSize is 0
    MaxMessages     \* bound: messages other handlers send

ASSUME MessagesAssumption ==
    /\ NoMessage \notin Messages \cup {Quit, ErrorLine}
    /\ ErrorLine \notin Messages \cup {Quit}
    /\ MaxMessages \in Nat

VARIABLES
    initialized,    \* IsInitialized(): the SSL handshake, if any, has happened
    queue,          \* m_SendQueue
    buffer,         \* the message in m_SendBuffer
    write,          \* the asynchronous write: under way, or its completion queued
    half,           \* how many halves of the buffer the socket has taken
    wire,           \* all halves the socket has taken
    shut,           \* m_ShutdownCompleted, the socket is closed
    requested       \* history: all messages given to SendIRCMessage

sending == <<queue, buffer, write, half>>
vars == <<initialized, sending, wire, shut, requested>>

Lines       == Messages \cup {Quit, ErrorLine}
WriteStates == {"none", "running", "done", "failed"}

TypeOK ==
    /\ initialized \in BOOLEAN
    /\ queue       \in Seq(Lines)
    /\ buffer      \in Lines \cup {NoMessage}
    /\ write       \in WriteStates
    /\ half        \in 0..2
    /\ wire        \in Seq(Lines \X {1, 2})
    /\ shut        \in BOOLEAN
    /\ requested   \in Seq(Lines)

\* A plain socket is initialized from the start.
Init ==
    /\ initialized \in BOOLEAN
    /\ queue     = <<>>
    /\ buffer    = NoMessage
    /\ write     = "none"
    /\ half      = 0
    /\ wire      = <<>>
    /\ shut      = FALSE
    /\ requested = <<>>

(***************************************************************************)
(* _ProcessSendQueue with these messages in m_SendQueue, when no write is  *)
(* under way: the first one goes to the buffer.  A write on a closed       *)
(* socket fails.                                                           *)
(***************************************************************************)
StartWrite(q) ==
    /\ buffer' = Head(q)
    /\ queue'  = Tail(q)
    /\ half'   = 0
    /\ write'  = IF shut THEN "failed" ELSE "running"

\* SendIRCMessage.
EnqueueAlwaysWrites(m) ==           \* mutant: no test of m_SendBufferSize
    /\ requested' = Append(requested, m)
    /\ StartWrite(Append(queue, m))

EnqueuePreempts(m) ==               \* mutant: the message in the buffer has to wait
    /\ requested' = Append(requested, m)
    /\ buffer' = m
    /\ queue' = <<buffer>> \o queue
    /\ half' = 0
    /\ write' = IF shut THEN "failed" ELSE "running"

Enqueue(m) ==
    /\ requested' = Append(requested, m)
    /\ IF buffer = NoMessage
         THEN StartWrite(Append(queue, m))
         ELSE /\ queue' = Append(queue, m)
              /\ UNCHANGED <<buffer, write, half>>

(***************************************************************************)
(* The handlers.                                                           *)
(***************************************************************************)
HandleHandshake ==
    /\ ~initialized
    /\ initialized' = TRUE
    /\ UNCHANGED <<sending, wire, shut, requested>>

\* A reply, a message of somebody else, a PING.  A line that is handled late and
\* a PING deadline that is queued send to a client that is shut, too.
SendIRCMessage(m) ==
    /\ initialized
    /\ Len(requested) < MaxMessages
    /\ Enqueue(m)
    /\ UNCHANGED <<initialized, wire, shut>>

HandleSendForgetsQueue ==           \* mutant: no _ProcessSendQueue
    /\ write = "done"
    /\ buffer' = NoMessage
    /\ write' = "none"
    /\ half' = 0
    /\ UNCHANGED <<initialized, queue, wire, shut, requested>>

HandleSend ==
    /\ write = "done"
    /\ IF queue = <<>>
         THEN /\ buffer' = NoMessage
              /\ write' = "none"
              /\ half' = 0
              /\ UNCHANGED queue
         ELSE StartWrite(queue)
    /\ UNCHANGED <<initialized, wire, shut, requested>>

(***************************************************************************)
(* DisconnectNetworkClient, whoever calls it.  It sends the client its own *)
(* QUIT if it is in a channel, and the ERROR, and closes the socket.       *)
(***************************************************************************)
FarewellsToAnyone(member) == IF member THEN <<Quit, ErrorLine>> ELSE <<ErrorLine>>
                                    \* mutant: no test of IsInitialized

Farewells(member) ==
    IF ~initialized THEN <<>>
                    ELSE IF member THEN <<Quit, ErrorLine>> ELSE <<ErrorLine>>

Halves(m, n) == [i \in 1..n |-> <<m, i>>]

\* A new write gets as far as the socket takes data at once; one that is under
\* way fails; a completion that is queued stays queued.
CloseWith(farewells) ==
    /\ shut' = TRUE
    /\ requested' = requested \o farewells
    /\ IF buffer = NoMessage /\ farewells # <<>>
         THEN \E n \in 0..2 :
                 /\ buffer' = Head(farewells)
                 /\ queue' = Tail(farewells)
                 /\ half' = n
                 /\ wire' = wire \o Halves(Head(farewells), n)
                 /\ write' = IF n = 2 THEN "done" ELSE "failed"
         ELSE /\ queue' = queue \o farewells
              /\ write' = IF write = "running" THEN "failed" ELSE write
              /\ UNCHANGED <<buffer, half, wire>>

\* A deadline, a QUIT, a GHOST, an invalid line, a failed read or handshake.
DisconnectNetworkClient ==
    /\ ~shut
    /\ \E member \in BOOLEAN : CloseWith(Farewells(member))
    /\ UNCHANGED initialized

\* CIRCServer::Shutdown shuts the client without a word.
Shutdown ==
    /\ ~shut
    /\ CloseWith(<<>>)
    /\ UNCHANGED initialized

\* _HandleSend with an error.  m_SendBufferSize stays as it is, so nothing is
\* ever written after that.
HandleSendErrorRetries ==           \* mutant: the failed write is started again
    /\ write = "failed"
    /\ write' = "running"
    /\ UNCHANGED <<initialized, queue, buffer, half, wire, shut, requested>>

HandleSendError ==
    /\ write = "failed"
    /\ write' = "none"
    /\ shut' = TRUE
    /\ \E member \in BOOLEAN :
          LET farewells == IF shut THEN <<>> ELSE Farewells(member) IN
          /\ queue' = queue \o farewells
          /\ requested' = requested \o farewells
    /\ UNCHANGED <<initialized, buffer, half, wire>>

(***************************************************************************)
(* The socket and its peer.                                                *)
(***************************************************************************)
Transmit ==
    /\ write = "running"
    /\ half' = half + 1
    /\ wire' = Append(wire, <<buffer, half + 1>>)
    /\ write' = IF half + 1 = 2 THEN "done" ELSE "running"
    /\ UNCHANGED <<initialized, queue, buffer, shut, requested>>

WriteFails ==
    /\ write = "running"
    /\ write' = "failed"
    /\ UNCHANGED <<initialized, queue, buffer, half, wire, shut, requested>>

Next ==
    \/ HandleHandshake
    \/ \E m \in Messages : SendIRCMessage(m)
    \/ HandleSend
    \/ HandleSendError
    \/ DisconnectNetworkClient
    \/ Shutdown
    \/ Transmit
    \/ WriteFails

Spec == Init /\ [][Next]_vars

\* The event loop runs the completions it has queued.
FairSpec == Spec /\ WF_vars(HandleSend) /\ WF_vars(HandleSendError)

(***************************************************************************)
(* Safety.                                                                 *)
(***************************************************************************)
\* The halves of these messages, one after the other.
Stream(lines) == [i \in 1..2 * Len(lines) |-> <<lines[(i + 1) \div 2], 2 - (i % 2)>>]

\* What the peer can read is a prefix of what was to be sent: no message is
\* lost, doubled, reordered or broken into by another one, whatever is sent while
\* a write is under way and whatever fails.
WireInOrder ==
    /\ Len(wire) <= 2 * Len(requested)
    /\ wire = [i \in 1..Len(wire) |-> Stream(requested)[i]]

\* Nothing waits in the queue of a connected client unless the completion of a
\* write is going to take it out, and a buffer in use is being written.
NothingStranded ==
    ~shut => /\ queue # <<>> => buffer # NoMessage
             /\ buffer # NoMessage => write # "none"

\* No write meets an SSL stream before its handshake.
HandshakeFirst == ~initialized => write = "none" /\ wire = <<>>

(***************************************************************************)
(* What the queue is for: the messages reach the peer in order until the   *)
(* connection is closed, and then at most a part of the farewell does.     *)
(***************************************************************************)
Promise == INSTANCE MessageStream WITH
    opened <- initialized,
    asked  <- requested,
    closed <- shut

\* The handlers, the buffer and the writes do what MessageStream does, step by
\* step: a half is delivered only in its turn, nothing is delivered once the
\* client is shut, and whoever is not initialized is told nothing.
KeepsOrder == Promise!Spec

(***************************************************************************)
(* Liveness.                                                               *)
(***************************************************************************)
\* A completion that is queued can be handled, whatever the client is like then.
CompletionsCanRun ==
    /\ write = "done"   => ENABLED <<HandleSend>>_vars
    /\ write = "failed" => ENABLED <<HandleSendError>>_vars

\* A client that is shut is let go by its last write: its shared_ptr is not kept
\* alive by writes that fail and start again.
WritesEnd ==
    /\ []CompletionsCanRun
    /\ shut ~> [](write = "none")

\* A peer that goes on reading gets everything that was sent to it, or is
\* disconnected.
PeerReads == WF_vars(Transmit)
Sent      == queue = <<>> /\ buffer = NoMessage
Delivered == PeerReads => (~Sent ~> Sent \/ shut)

(***************************************************************************)
(* What the code does not keep.                                            *)
(***************************************************************************)
\* "Send the ERROR if the client has a chance to receive it" (CIRCServer.cpp:168):
\* a disconnection hands the ERROR to the socket unless the connection is broken.
ErrorIsSent ==
    [][DisconnectNetworkClient /\ initialized /\ write # "failed"
          => \A i \in 1..Len(queue') : queue'[i] # ErrorLine]_vars

================================================================================
