----------------------------- MODULE MessageStream -----------------------------
(***************************************************************************)
(* What sending messages to a client means, without buffers and pending    *)
(* writes: the messages are cut into pieces, and the peer gets the pieces  *)
(* in order, one after the other, until the connection is closed.  What is *)
(* to be sent while the connection is closed arrives at once or never, and *)
(* only if nothing is in front of it.                                      *)
(***************************************************************************)
EXTENDS Naturals, Sequences

CONSTANTS
    Messages,       \* what may be sent at any time
    Quit, ErrorLine \* what may be sent when the connection is closed

VARIABLES
    opened,         \* the client can be written to
    asked,          \* all messages that were to be sent
    wire,           \* the pieces the peer can read
    closed

vars == <<opened, asked, wire, closed>>

\* The two halves of each of these messages, one after the other.
Stream(lines) == [i \in 1..2 * Len(lines) |-> <<lines[(i + 1) \div 2], 2 - (i % 2)>>]

\* The stream up to its nth piece.
Prefix(lines, n) == [i \in 1..n |-> Stream(lines)[i]]

Farewells == {<<>>, <<ErrorLine>>, <<Quit, ErrorLine>>}

Init ==
    /\ opened \in BOOLEAN
    /\ asked = <<>>
    /\ wire = <<>>
    /\ closed = FALSE

Open ==
    /\ ~opened
    /\ opened' = TRUE
    /\ UNCHANGED <<asked, wire, closed>>

Ask(m) ==
    /\ opened
    /\ asked' = Append(asked, m)
    /\ UNCHANGED <<opened, wire, closed>>

Deliver ==
    /\ ~closed
    /\ Len(wire) < 2 * Len(asked)
    /\ wire' = Append(wire, Stream(asked)[Len(wire) + 1])
    /\ UNCHANGED <<opened, asked, closed>>

\* The farewell is lost if anything is in front of it; otherwise the peer gets as
\* much of its first message as there is room for.
Close(farewell) ==
    /\ ~closed
    /\ closed' = TRUE
    /\ farewell # <<>> => opened
    /\ asked' = asked \o farewell
    /\ \/ UNCHANGED wire
       \/ /\ Len(wire) = 2 * Len(asked)
          /\ farewell # <<>>
          /\ \E n \in 1..2 : wire' = Prefix(asked', Len(wire) + n)
    /\ UNCHANGED opened

Next ==
    \/ Open
    \/ \E m \in Messages : Ask(m)
    \/ Deliver
    \/ \E farewell \in Farewells : Close(farewell)

Spec == Init /\ [][Next]_vars

================================================================================
