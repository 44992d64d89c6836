------------------------------ MODULE InputBuffer ------------------------------
(***************************************************************************)
(* How one client's lines are cut out of what its reads bring:             *)
(* CNetworkClient::_HandleNewData and the _Receive of both transports.     *)
(*                                                                         *)
(* A read goes behind the remainder of the last one in m_InputBuffer; then *)
(* a pointer p walks over the new bytes, and each turn of that loop is one *)
(* action here, as it is in the loop that the pointers can go astray.  No  *)
(* other handler runs until the walk is over, but one may have closed the  *)
(* socket while the completion of the read was queued.                     *)
(*                                                                         *)
(* Positions count from 0, as in the code.  What lies behind the bytes of  *)
(* the last read is never looked at (WithinBuffer) and left out.           *)
(***************************************************************************)
EXTENDS Naturals, Sequences

CONSTANTS
    Text,       \* the characters that mean nothing here
    CR, LF, NUL,
    MaxLength,  \* IRC_MESSAGE_LENGTH
    MaxRead     \* bound: the most bytes one read brings

Characters == Text \cup {CR, LF, NUL}
Capacity   == 4 * MaxLength         \* of m_InputBuffer, without the final NUL

ASSUME CharactersAssumption ==
    /\ CR # LF /\ CR # NUL /\ LF # NUL
    /\ {CR, LF, NUL} \cap Text = {}

ASSUME LengthAssumption ==
    /\ MaxLength \in Nat \ {0}
    /\ MaxRead \in Nat \ {0}

VARIABLES
    pc,         \* "reading": a read waits; "queued": its completion does;
                \* "walking": in the loop; "returned": there is no read any more
    buffer,     \* the bytes of m_InputBuffer that have been read
    pointer,    \* m_InputBufferPointer
    message,    \* IRCMessage: where the line begins
    p,          \* the walking pointer
    open,       \* the socket is open
    line,       \* history: the last line given to _ReceiveMessage
    tooLong,    \* history: ended by "Message too long"
    late        \* history: lines handled although the socket was closed before

vars == <<pc, buffer, pointer, message, p, open, line, tooLong, late>>

TypeOK ==
    /\ pc \in {"reading", "queued", "walking", "returned"}
    /\ buffer \in Seq(Characters)
    /\ pointer \in Nat /\ message \in Nat /\ p \in Nat /\ late \in Nat
    /\ line \in Seq(Text \cup {CR})
    /\ open \in BOOLEAN /\ tooLong \in BOOLEAN

Init ==
    /\ pc = "reading"
    /\ buffer = <<>>
    /\ pointer = 0 /\ message = 0 /\ p = 0
    /\ open = TRUE
    /\ line = <<>>
    /\ tooLong = FALSE /\ late = 0

\* The byte at a position, and the NUL behind the last one.
At(i) == IF i < Len(buffer) THEN buffer[i + 1] ELSE NUL

\* The bytes between two positions.
Slice(i, j) == SubSeq(buffer, i + 1, j)

(***************************************************************************)
(* The socket.                                                             *)
(***************************************************************************)
\* _Receive asks for as much as fits behind the remainder.
Receive(data) ==
    /\ pc = "reading" /\ open
    /\ Len(data) <= Capacity - pointer
    /\ buffer' = Slice(0, pointer) \o data
    /\ pc' = "queued"
    /\ UNCHANGED <<pointer, message, p, open, line, tooLong, late>>

\* A read that waits fails when the peer is gone or the socket has been closed:
\* _HandleNewData with an error code.
ReceiveFails ==
    /\ pc = "reading"
    /\ pc' = "returned" /\ open' = FALSE
    /\ UNCHANGED <<buffer, pointer, message, p, line, tooLong, late>>

\* DisconnectNetworkClient in another handler: a deadline, GHOST, a failed send.
Disconnect ==
    /\ pc \in {"reading", "queued"}
    /\ open /\ open' = FALSE
    /\ UNCHANGED <<pc, buffer, pointer, message, p, line, tooLong, late>>

(***************************************************************************)
(* _HandleNewData.                                                         *)
(***************************************************************************)
HandleNewData ==
    /\ pc = "queued"
    /\ pc' = "walking"
    /\ message' = 0 /\ p' = pointer
    /\ UNCHANGED <<buffer, pointer, open, line, tooLong, late>>

CRLFOnly ==                         \* mutant: follows RFC 2812 to the letter
    IF At(p) = CR /\ At(p + 1) = LF THEN 2 ELSE 0

LFOnly ==                           \* mutant: every line keeps its CR
    IF At(p) = LF THEN 1 ELSE 0

LineEndingLength ==
    IF At(p) = CR /\ At(p + 1) = LF THEN 2 ELSE IF At(p) = LF THEN 1 ELSE 0

\* "Message too long", and what it leaves behind.
Discard ==
    /\ pc' = "returned" /\ open' = FALSE /\ tooLong' = TRUE
    /\ UNCHANGED <<buffer, pointer, message, p, line, late>>

DiscardLine ==
    /\ pc = "walking"
    /\ LineEndingLength # 0
    /\ p - message + LineEndingLength > MaxLength
    /\ Discard

\* _ReceiveMessage handles the line, which may close the socket.  Whoever closed
\* it, the walk ends when it is found closed.
ReceiveMessageUnchecked ==          \* mutant: goes on when the socket is closed
    /\ pc = "walking"
    /\ LineEndingLength # 0
    /\ p - message + LineEndingLength <= MaxLength
    /\ line' = Slice(message, p)
    /\ late' = IF open THEN late ELSE late + 1
    /\ open' \in {open, FALSE}
    /\ message' = p + LineEndingLength /\ p' = p + LineEndingLength
    /\ UNCHANGED <<pc, buffer, pointer, tooLong>>

ReceiveMessage ==
    /\ pc = "walking"
    /\ LineEndingLength # 0
    /\ p - message + LineEndingLength <= MaxLength
    /\ line' = Slice(message, p)
    /\ late' = IF open THEN late ELSE late + 1
    /\ open' \in {open, FALSE}
    /\ IF open' THEN message' = p + LineEndingLength /\ p' = p + LineEndingLength /\ UNCHANGED pc
                ELSE pc' = "returned" /\ UNCHANGED <<message, p>>
    /\ UNCHANGED <<buffer, pointer, tooLong>>

WalkOnTheSpot ==                    \* mutant: the pointer stays on a lonely CR
    /\ pc = "walking"
    /\ At(p) # NUL
    /\ LineEndingLength = 0
    /\ p' = IF At(p) = CR THEN p ELSE p + 1
    /\ UNCHANGED <<pc, buffer, pointer, message, open, line, tooLong, late>>

Walk ==
    /\ pc = "walking"
    /\ At(p) # NUL
    /\ LineEndingLength = 0
    /\ p' = p + 1
    /\ UNCHANGED <<pc, buffer, pointer, message, open, line, tooLong, late>>

DiscardRemainder ==
    /\ pc = "walking"
    /\ At(p) = NUL
    /\ p - message >= MaxLength
    /\ Discard

\* memcpy of the remainder to the beginning of m_InputBuffer.  If the ranges
\* overlap its behaviour is undefined: an implementation that copies from the
\* end has overwritten bytes before it reads them.
Overlap == 0 < message /\ message < p - message

CopiedFromEnd ==
    LET n == p - message
    IN  [i \in 1..n |-> buffer[i + message * ((n - i) \div message + 1)]]

\* Ends the walk and starts the next read, without a look at the socket.
KeepLongRemainder ==                \* mutant: the limit of the buffer is enough
    /\ pc = "walking"
    /\ At(p) = NUL
    /\ p - message < Capacity
    /\ buffer' \in {Slice(message, p)} \cup (IF Overlap THEN {CopiedFromEnd} ELSE {})
    /\ pointer' = p - message
    /\ pc' = "reading"
    /\ UNCHANGED <<message, p, open, line, tooLong, late>>

KeepRemainder ==
    /\ pc = "walking"
    /\ At(p) = NUL
    /\ p - message < MaxLength
    /\ buffer' \in {Slice(message, p)} \cup (IF Overlap THEN {CopiedFromEnd} ELSE {})
    /\ pointer' = p - message
    /\ pc' = "reading"
    /\ UNCHANGED <<message, p, open, line, tooLong, late>>

Turn == DiscardLine \/ ReceiveMessage \/ Walk \/ DiscardRemainder \/ KeepRemainder

Reads == UNION {[1..n -> Characters] : n \in 1..MaxRead}

Next ==
    \/ \E data \in Reads : Receive(data)
    \/ ReceiveFails
    \/ Disconnect
    \/ HandleNewData
    \/ Turn

Spec == Init /\ [][Next]_vars

\* The processor runs the loop.
FairSpec == Spec /\ WF_vars(Turn)

(***************************************************************************)
(* Properties.                                                             *)
(***************************************************************************)
\* The assertion of _HandleNewData and the comment above memcpy: every read and
\* its NUL fit behind the remainder, and no pointer leaves the bytes of the last
\* read, also when a line ending is two bytes long.
WithinBuffer ==
    /\ Len(buffer) <= Capacity
    /\ pointer <= Len(buffer)
    /\ pc # "returned" => pointer < MaxLength
    /\ pc = "walking" => message <= p /\ p <= Len(buffer)

\* The state of LineStream in terms of the buffer.
Unread ==
    CASE pc = "walking" -> Slice(p, Len(buffer))
      [] pc = "queued"  -> Slice(pointer, Len(buffer))
      [] OTHER          -> <<>>

Unfinished ==
    CASE pc = "walking" -> Slice(message, p)
      [] pc \in {"reading", "queued"} -> Slice(0, pointer)
      [] OTHER          -> <<>>

Verdict == IF pc # "returned" THEN "no" ELSE IF tooLong THEN "too long" ELSE "closed"

Stream == INSTANCE LineStream WITH input <- Unread, rest <- Unfinished, ended <- Verdict

\* The walk begins at an LF, and a CR is the last byte of the remainder: a read
\* has ended between the two.
SplitEnding == pc = "walking" /\ p = pointer /\ p > 0 /\ At(p - 1) = CR /\ At(p) = LF

\* Wherever the reads cut the stream, and whatever the lines do to the
\* connection: every line that is handled is what the client sent between two
\* line endings, and a client is sent away for the length of its line only if it
\* is too long.  There are two exceptions and no more.  A line keeps the CR of
\* its ending where a read has ended behind that CR (a CRLF that has come whole
\* is never split, neither is one behind the first byte of a read), and memcpy
\* mixes up the remainder, but no more than the remainder, where its ranges
\* overlap.
KeepsLines ==
    Stream!Init /\ [][\/ Stream!Next
                      \/ SplitEnding /\ Stream!KeepCR
                      \/ Overlap /\ Stream!Garble]_(Stream!vars)

\* Of everything that is queued when another handler closes the socket, one line
\* at most is still handled: the first one.
OneLateLine ==
    /\ late <= 1
    /\ late = 1 => pc = "returned"

\* The walk ends, whatever the bytes are.
HandlerReturns == pc = "walking" ~> pc # "walking"

\* "if the remainder had line endings, it would have been processed and wouldn't
\* be here" (CNetworkClient.cpp:60): no line ending is found that begins in the
\* remainder.
RemainderHasNoEnding == ~SplitEnding

================================================================================
