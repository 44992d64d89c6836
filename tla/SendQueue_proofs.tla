---------------------------- MODULE SendQueue_proofs ---------------------------
(***************************************************************************)
(* Theorems about SendQueue for any messages and any number of them: its   *)
(* safety invariants, that it implements MessageStream, and that no write  *)
(* of a client that is shut lasts for ever.                                *)
(***************************************************************************)
EXTENDS SendQueue, Integers, TLAPS

(***************************************************************************)
(* The inductive invariant says where every message that was ever given to *)
(* SendIRCMessage is: its first Taken messages have left the queue, the    *)
(* last of these is in the buffer if one is in use, and the wire holds the *)
(* halves of the others and as much of the buffer as the socket has taken. *)
(***************************************************************************)
Taken == Len(requested) - Len(queue)

QueueInOrder ==
    /\ Len(queue) <= Len(requested)
    /\ \A i \in 1..Len(queue) : queue[i] = requested[Taken + i]

BufferIsLast ==
    /\ buffer # NoMessage => Taken >= 1 /\ buffer = requested[Taken]
    /\ buffer = NoMessage => queue = <<>> /\ write = "none" /\ half = 0

WriteMatchesHalf ==
    /\ write = "running" => half < 2
    /\ write = "done" => half = 2

WireLength == Len(wire) = IF buffer = NoMessage THEN 2 * Taken ELSE 2 * Taken - 2 + half

WireContent ==
    \A i \in 1..Len(wire) : wire[i] = <<requested[(i + 1) \div 2], 2 - (i % 2)>>

SilentBefore == ~initialized => requested = <<>> /\ buffer = NoMessage

IInv ==
    /\ TypeOK
    /\ QueueInOrder
    /\ BufferIsLast
    /\ WriteMatchesHalf
    /\ WireLength
    /\ WireContent
    /\ SilentBefore
    /\ NothingStranded

(***************************************************************************)
(* The four ways the queue, the buffer and the wire change.                *)
(***************************************************************************)
\* Messages at the end of requested change nothing for what precedes them.
LEMMA ConcatProperties ==
    ASSUME NEW S, NEW s \in Seq(S), NEW t \in Seq(S)
    PROVE  /\ s \o t \in Seq(S)
           /\ Len(s \o t) = Len(s) + Len(t)
           /\ \A i \in 1..Len(s) : (s \o t)[i] = s[i]
           /\ \A i \in 1..Len(t) : (s \o t)[Len(s) + i] = t[i]
OBVIOUS

\* Where a half belongs: the halves of n messages, and those of the next one.
LEMMA HalfOfMessage ==
    ASSUME NEW n \in Nat, NEW i \in 1..2 * n
    PROVE  (i + 1) \div 2 \in 1..n
OBVIOUS

LEMMA HalfOfNext ==
    ASSUME NEW n \in Nat, NEW j \in {1, 2}
    PROVE  (2 * n + j + 1) \div 2 = n + 1 /\ 2 - ((2 * n + j) % 2) = j
<1>1. CASE j = 1
  BY <1>1
<1>2. CASE j = 2
  BY <1>2
<1> QED
  BY <1>1, <1>2

\* A message waits behind the others.
LEMMA QueuedInv ==
    ASSUME IInv, initialized, buffer # NoMessage, NEW t \in Seq(Lines),
           queue' = queue \o t, requested' = requested \o t,
           UNCHANGED <<initialized, buffer, half, wire>>,
           write' \in WriteStates, write' = "running" => half < 2, write' = "done" => half = 2,
           shut' \in BOOLEAN, shut' \/ write' # "none"
    PROVE  IInv'
<1> USE DEF IInv, TypeOK
<1>1. /\ queue' \in Seq(Lines) /\ Len(queue') = Len(queue) + Len(t)
      /\ \A i \in 1..Len(queue) : queue'[i] = queue[i]
      /\ \A i \in 1..Len(t) : queue'[Len(queue) + i] = t[i]
  BY ConcatProperties
<1>2. /\ requested' \in Seq(Lines) /\ Len(requested') = Len(requested) + Len(t)
      /\ \A i \in 1..Len(requested) : requested'[i] = requested[i]
      /\ \A i \in 1..Len(t) : requested'[Len(requested) + i] = t[i]
  BY ConcatProperties
<1>3. Taken' = Taken /\ Taken \in Int
  BY <1>1, <1>2 DEF Taken
<1>4. QueueInOrder'
  <2>1. ASSUME NEW i \in 1..Len(queue') PROVE queue'[i] = requested'[Taken + i]
    <3>1. CASE i <= Len(queue)
      BY <1>1, <1>2, <3>1 DEF QueueInOrder, Taken
    <3>2. CASE i > Len(queue)
      <4>1. PICK j \in 1..Len(t) : i = Len(queue) + j
        <5>1. i - Len(queue) \in 1..Len(t)
          BY <1>1, <3>2
        <5> QED
          BY <5>1, <1>1
      <4>2. Taken + i = Len(requested) + j
        BY <4>1 DEF Taken
      <4> QED
        BY <1>1, <1>2, <4>1, <4>2
    <3>3. i <= Len(queue) \/ i > Len(queue)
      OBVIOUS
    <3> QED
      BY <3>1, <3>2, <3>3
  <2>2. Len(queue') <= Len(requested')
    BY <1>1, <1>2 DEF QueueInOrder
  <2> QED
    BY <1>3, <2>1, <2>2, Zenon DEF QueueInOrder
<1>5. BufferIsLast'
  BY <1>1, <1>2, <1>3 DEF BufferIsLast, Taken
<1>6. WireLength' /\ WriteMatchesHalf'
  BY <1>3 DEF WireLength, WriteMatchesHalf
<1>7. WireContent'
  <2>1. Len(wire) <= 2 * Len(requested)
    BY DEF WireLength, Taken, QueueInOrder, BufferIsLast
  <2>2. \A i \in 1..Len(wire) : (i + 1) \div 2 \in 1..Len(requested)
    BY <2>1
  <2> QED
    BY <1>2, <2>2 DEF WireContent
<1>8. SilentBefore' /\ NothingStranded'
  BY <1>1 DEF SilentBefore, NothingStranded
<1> QED
  BY <1>1, <1>2, <1>4, <1>5, <1>6, <1>7, <1>8

\* The first of these messages goes to the buffer of an idle client, and the
\* socket takes n halves of it at once.
LEMMA TakenInv ==
    ASSUME IInv, initialized, buffer = NoMessage, NEW t \in Seq(Lines), t # <<>>, NEW n \in 0..2,
           requested' = requested \o t, buffer' = Head(t), queue' = Tail(t), half' = n,
           wire' = wire \o Halves(Head(t), n),
           UNCHANGED initialized,
           write' \in WriteStates \ {"none"}, write' = "running" => n < 2, write' = "done" => n = 2,
           shut' \in BOOLEAN
    PROVE  IInv'
<1> USE DEF IInv, TypeOK
<1>1. /\ queue = <<>> /\ Len(t) \in Nat \ {0} /\ Head(t) = t[1] /\ Head(t) \in Lines
      /\ Tail(t) \in Seq(Lines) /\ Len(Tail(t)) = Len(t) - 1
      /\ \A i \in 1..Len(t) - 1 : Tail(t)[i] = t[i + 1]
  BY DEF BufferIsLast
<1>2. /\ requested' \in Seq(Lines) /\ Len(requested') = Len(requested) + Len(t)
      /\ \A i \in 1..Len(requested) : requested'[i] = requested[i]
      /\ \A i \in 1..Len(t) : requested'[Len(requested) + i] = t[i]
  BY ConcatProperties
<1>3. Halves(Head(t), n) \in Seq(Lines \X {1, 2}) /\ Len(Halves(Head(t), n)) = n
  BY <1>1 DEF Halves
<1>4. /\ wire' \in Seq(Lines \X {1, 2}) /\ Len(wire') = Len(wire) + n
      /\ \A i \in 1..Len(wire) : wire'[i] = wire[i]
      /\ \A i \in 1..n : wire'[Len(wire) + i] = <<t[1], i>>
  <2> DEFINE h == Halves(Head(t), n)
  <2>1. \A i \in 1..n : h[i] = <<t[1], i>>
    BY <1>1 DEF Halves
  <2> HIDE DEF h
  <2>2. h \in Seq(Lines \X {1, 2}) /\ Len(h) = n /\ wire' = wire \o h
    BY <1>3 DEF h
  <2>3. wire \in Seq(Lines \X {1, 2})
    OBVIOUS
  <2>4. /\ wire \o h \in Seq(Lines \X {1, 2}) /\ Len(wire \o h) = Len(wire) + Len(h)
        /\ \A i \in 1..Len(wire) : (wire \o h)[i] = wire[i]
        /\ \A i \in 1..Len(h) : (wire \o h)[Len(wire) + i] = h[i]
    <3> DEFINE H == Lines \X {1, 2}
    <3>1. wire \in Seq(H) /\ h \in Seq(H)
      BY <2>2, <2>3
    <3> HIDE DEF H, IInv, TypeOK
    <3>2. /\ wire \o h \in Seq(H) /\ Len(wire \o h) = Len(wire) + Len(h)
          /\ \A i \in 1..Len(wire) : (wire \o h)[i] = wire[i]
          /\ \A i \in 1..Len(h) : (wire \o h)[Len(wire) + i] = h[i]
      BY <3>1, ConcatProperties
    <3> QED
      BY <3>2, Zenon DEF H
  <2> QED
    BY <2>1, <2>2, <2>4, Zenon
<1>5. Taken = Len(requested) /\ Taken' = Len(requested) + 1 /\ Len(wire) = 2 * Len(requested)
  BY <1>1, <1>2 DEF Taken, WireLength
<1>6. buffer' = requested'[Taken'] /\ buffer' # NoMessage
  BY <1>1, <1>2, <1>5, MessagesAssumption DEF Lines
<1>7. QueueInOrder'
  <2>1. ASSUME NEW i \in 1..Len(queue') PROVE queue'[i] = requested'[Taken' + i]
    <3>1. i \in 1..Len(t) - 1 /\ i + 1 \in 1..Len(t)
      BY <1>1
    <3>2. queue'[i] = t[i + 1] /\ Taken' + i = Len(requested) + (i + 1)
      BY <1>1, <1>5, <3>1
    <3> QED
      BY <1>2, <3>1, <3>2
  <2>2. Len(queue') <= Len(requested')
    BY <1>1, <1>2
  <2> QED
    BY <2>1, <2>2, Zenon DEF QueueInOrder
<1>8. BufferIsLast' /\ WriteMatchesHalf' /\ WireLength'
  BY <1>4, <1>5, <1>6 DEF BufferIsLast, WriteMatchesHalf, WireLength
<1>9. WireContent'
  <2>1. ASSUME NEW i \in 1..Len(wire'), i <= Len(wire)
        PROVE  wire'[i] = <<requested'[(i + 1) \div 2], 2 - (i % 2)>>
    <3>1. i \in 1..Len(wire) /\ i \in 1..2 * Len(requested) /\ Len(requested) \in Nat
      BY <1>5, <2>1
    <3>2. (i + 1) \div 2 \in 1..Len(requested)
      BY <3>1, HalfOfMessage
    <3> QED
      BY <1>2, <1>4, <3>1, <3>2 DEF WireContent
  <2>2. ASSUME NEW i \in 1..Len(wire'), i > Len(wire)
        PROVE  wire'[i] = <<requested'[(i + 1) \div 2], 2 - (i % 2)>>
    <3>1. PICK j \in 1..n : i = Len(wire) + j
      <4>1. i - Len(wire) \in 1..n
        BY <1>4, <2>2
      <4> QED
        BY <4>1
    <3>2. (i + 1) \div 2 = Len(requested) + 1 /\ 2 - (i % 2) = j
      <4>1. i = 2 * Len(requested) + j /\ Len(requested) \in Nat /\ j \in {1, 2}
        BY <1>5, <3>1
      <4> QED
        BY <4>1, HalfOfNext
    <3>3. wire'[i] = <<t[1], j>>
      BY <1>4, <3>1
    <3>4. requested'[Len(requested) + 1] = t[1]
      BY <1>1, <1>2
    <3> QED
      BY <3>2, <3>3, <3>4, Zenon
  <2>3. \A i \in 1..Len(wire') : i <= Len(wire) \/ i > Len(wire)
    OBVIOUS
  <2> QED
    BY <2>1, <2>2, <2>3, Zenon DEF WireContent
<1>10. SilentBefore' /\ NothingStranded'
  BY <1>6 DEF SilentBefore, NothingStranded
<1> QED
  BY <1>1, <1>2, <1>4, <1>6, <1>7, <1>8, <1>9, <1>10

\* The buffer has been written: the next message takes its place.
LEMMA NextTakenInv ==
    ASSUME IInv, write = "done", queue # <<>>, StartWrite(queue),
           UNCHANGED <<initialized, wire, shut, requested>>
    PROVE  IInv'
<1> USE DEF IInv, TypeOK, StartWrite
<1>1. /\ Len(queue) \in Nat \ {0} /\ Head(queue) = queue[1] /\ Head(queue) \in Lines
      /\ queue' \in Seq(Lines) /\ Len(queue') = Len(queue) - 1
      /\ \A i \in 1..Len(queue') : queue'[i] = queue[i + 1]
  OBVIOUS
<1>2. /\ buffer # NoMessage /\ half = 2 /\ initialized
      /\ Taken' = Taken + 1 /\ Taken \in Int /\ Taken >= 1
  BY <1>1 DEF Taken, BufferIsLast, WriteMatchesHalf, SilentBefore
<1>3. buffer' = requested[Taken'] /\ buffer' # NoMessage
  BY <1>1, <1>2, MessagesAssumption DEF QueueInOrder, Lines
<1>4. QueueInOrder'
  <2>1. ASSUME NEW i \in 1..Len(queue') PROVE queue'[i] = requested[Taken' + i]
    <3>1. i + 1 \in 1..Len(queue) /\ Taken' + i = Taken + (i + 1)
      BY <1>1, <1>2
    <3> QED
      BY <1>1, <3>1 DEF QueueInOrder
  <2>2. Len(queue') <= Len(requested)
    BY <1>1 DEF QueueInOrder
  <2> QED
    BY <2>1, <2>2, Zenon DEF QueueInOrder
<1>5. BufferIsLast' /\ WriteMatchesHalf' /\ WireLength'
  <2>1. BufferIsLast'
    BY <1>2, <1>3 DEF BufferIsLast
  <2>2. WriteMatchesHalf'
    BY DEF WriteMatchesHalf
  <2>3. Len(wire) = 2 * Taken
    BY <1>2 DEF WireLength
  <2>4. 2 * Taken' - 2 + half' = 2 * Taken
    <3>1. half' = 0
      OBVIOUS
    <3> HIDE DEF IInv, TypeOK, StartWrite
    <3> QED
      BY <1>2, <3>1
  <2>5. WireLength'
    BY <1>3, <2>3, <2>4 DEF WireLength
  <2> QED
    BY <2>1, <2>2, <2>5
<1>6. WireContent'
  BY DEF WireContent
<1>7. SilentBefore' /\ NothingStranded'
  BY <1>2, <1>3 DEF SilentBefore, NothingStranded
<1>8. TypeOK'
  BY <1>1 DEF WriteStates
<1> QED
  BY <1>4, <1>5, <1>6, <1>7, <1>8

\* The socket takes another half of the buffer.
LEMMA TransmitInv ==
    ASSUME IInv, Transmit
    PROVE  IInv'
<1> USE DEF IInv, TypeOK, Transmit
<1>1. /\ half \in {0, 1} /\ half' = half + 1
      /\ wire' \in Seq(Lines \X {1, 2}) /\ Len(wire') = Len(wire) + 1
      /\ \A i \in 1..Len(wire) : wire'[i] = wire[i]
      /\ wire'[Len(wire) + 1] = <<buffer, half + 1>>
  BY DEF WriteMatchesHalf, BufferIsLast
<1>2. /\ buffer # NoMessage /\ Taken' = Taken /\ Taken \in 1..Len(requested)
      /\ buffer = requested[Taken] /\ Len(wire) = 2 * Taken - 2 + half
  BY DEF Taken, BufferIsLast, QueueInOrder, WireLength
<1>3. WireLength' /\ WriteMatchesHalf'
  BY <1>1, <1>2 DEF WireLength, WriteMatchesHalf
<1>4. WireContent'
  <2>1. (Len(wire) + 2) \div 2 = Taken /\ 2 - ((Len(wire) + 1) % 2) = half + 1
    <3>1. Taken - 1 \in Nat /\ half + 1 \in {1, 2} /\ Len(wire) + 1 = 2 * (Taken - 1) + (half + 1)
      BY <1>1, <1>2
    <3>2. (Len(wire) + 1) + 1 = 2 * (Taken - 1) + (half + 1) + 1
      BY <3>1
    <3>3. (Len(wire) + 1) + 1 = Len(wire) + 2 /\ (Taken - 1) + 1 = Taken
      BY <1>2
    <3> QED
      BY <3>1, <3>2, <3>3, HalfOfNext
  <2>2. ASSUME NEW i \in 1..Len(wire')
        PROVE  wire'[i] = <<requested[(i + 1) \div 2], 2 - (i % 2)>>
    <3>1. CASE i \in 1..Len(wire)
      BY <1>1, <3>1 DEF WireContent
    <3>2. CASE i = Len(wire) + 1
      <4>1. wire'[i] = <<requested[Taken], half + 1>>
        BY <1>1, <1>2, <3>2
      <4>2. (i + 1) \div 2 = Taken /\ 2 - (i % 2) = half + 1
        BY <2>1, <3>2
      <4> QED
        BY <4>1, <4>2
    <3> QED
      BY <1>1, <3>1, <3>2
  <2> QED
    BY <2>2 DEF WireContent
<1>5. QueueInOrder' /\ BufferIsLast' /\ SilentBefore' /\ NothingStranded'
  BY <1>2 DEF QueueInOrder, BufferIsLast, SilentBefore, NothingStranded, Taken
<1> QED
  BY <1>1, <1>3, <1>4, <1>5 DEF WriteStates

(***************************************************************************)
(* The handlers.                                                           *)
(***************************************************************************)
LEMMA InitInv == Init => IInv
<1> SUFFICES ASSUME Init PROVE IInv
  OBVIOUS
<1> USE DEF Init
<1>1. TypeOK
  <2>1. <<>> \in Seq(Lines) /\ <<>> \in Seq(Lines \X {1, 2})
    OBVIOUS
  <2>2. write \in WriteStates
    BY DEF WriteStates
  <2>3. initialized \in BOOLEAN /\ shut \in BOOLEAN
    BY Zenon
  <2>4. half \in 0..2 /\ buffer \in Lines \cup {NoMessage}
    OBVIOUS
  <2> QED
    BY <2>1, <2>2, <2>3, <2>4 DEF TypeOK
<1>2. Len(queue) = 0 /\ Len(requested) = 0 /\ Len(wire) = 0 /\ Taken = 0
  BY DEF Taken
<1>3. QueueInOrder /\ BufferIsLast /\ WireLength /\ WireContent
  BY <1>2 DEF QueueInOrder, BufferIsLast, WireLength, WireContent
<1>4. WriteMatchesHalf /\ SilentBefore /\ NothingStranded
  BY DEF WriteMatchesHalf, SilentBefore, NothingStranded
<1> QED
  BY <1>1, <1>3, <1>4 DEF IInv

LEMMA EnqueueInv ==
    ASSUME IInv, NEW m \in Messages, SendIRCMessage(m)
    PROVE  IInv'
<1> DEFINE t == <<m>>
<1>1. /\ t \in Seq(Lines) /\ t # <<>> /\ Head(t) = m /\ Tail(t) = <<>>
      /\ queue \in Seq(Lines) /\ requested \in Seq(Lines)
      /\ Append(queue, m) = queue \o t /\ Append(requested, m) = requested \o t
  BY DEF IInv, TypeOK, Lines
<1>2. /\ initialized /\ requested' = requested \o t /\ UNCHANGED <<initialized, wire, shut>>
  BY <1>1 DEF SendIRCMessage, Enqueue
<1>3. CASE buffer = NoMessage
  <2>1. queue = <<>>
    BY <1>3 DEF IInv, BufferIsLast
  <2>2. /\ buffer' = m /\ queue' = <<>> /\ half' = 0
        /\ write' = IF shut THEN "failed" ELSE "running"
    BY <1>3, <2>1 DEF SendIRCMessage, Enqueue, StartWrite
  <2>3. wire' = wire \o Halves(Head(t), 0)
    <3>1. Halves(Head(t), 0) = <<>>
      BY DEF Halves
    <3>2. wire \o <<>> = wire
      BY DEF IInv, TypeOK
    <3> QED
      BY <1>2, <3>1, <3>2
  <2>4. /\ write' \in WriteStates \ {"none"} /\ write' # "done" /\ shut' \in BOOLEAN
        /\ 0 \in 0..2 /\ 0 < 2
    BY <1>2, <2>2 DEF WriteStates, IInv, TypeOK
  <2> HIDE DEF t
  <2> QED
    BY <1>1, <1>2, <1>3, <2>2, <2>3, <2>4, TakenInv
<1>4. CASE buffer # NoMessage
  <2>1. queue' = queue \o t /\ UNCHANGED <<buffer, write, half>>
    BY <1>1, <1>4 DEF SendIRCMessage, Enqueue
  <2>2. /\ write' \in WriteStates /\ shut' \in BOOLEAN /\ (shut' \/ write' # "none")
        /\ write' = "running" => half < 2
        /\ write' = "done" => half = 2
    BY <1>2, <1>4, <2>1 DEF IInv, TypeOK, NothingStranded, WriteMatchesHalf
  <2> HIDE DEF t
  <2> QED
    BY <1>1, <1>2, <1>4, <2>1, <2>2, QueuedInv
<1> QED
  BY <1>3, <1>4

LEMMA FarewellsType ==
    ASSUME NEW member \in BOOLEAN
    PROVE  /\ Farewells(member) \in Seq(Lines)
           /\ ~initialized => Farewells(member) = <<>>
<1>1. Quit \in Lines /\ ErrorLine \in Lines
  BY DEF Lines
<1>2. <<Quit, ErrorLine>> \in Seq(Lines) /\ <<ErrorLine>> \in Seq(Lines) /\ <<>> \in Seq(Lines)
  BY <1>1
<1> QED
  BY <1>2 DEF Farewells

\* Closing the socket after these farewells.
LEMMA CloseInv ==
    ASSUME IInv, NEW t \in Seq(Lines), initialized \/ t = <<>>,
           CloseWith(t), UNCHANGED initialized
    PROVE  IInv'
<1>1. CASE buffer = NoMessage /\ t # <<>>
  <2>1. PICK n \in 0..2 :
           /\ buffer' = Head(t) /\ queue' = Tail(t) /\ half' = n
           /\ wire' = wire \o Halves(Head(t), n)
           /\ write' = IF n = 2 THEN "done" ELSE "failed"
    BY <1>1 DEF CloseWith
  <2>2. /\ write' \in WriteStates \ {"none"} /\ write' # "running"
        /\ write' = "done" => n = 2
    BY <2>1 DEF WriteStates
  <2>3. requested' = requested \o t /\ shut' \in BOOLEAN /\ initialized
    BY <1>1 DEF CloseWith
  <2> QED
    BY <1>1, <2>1, <2>2, <2>3, TakenInv
<1>2. CASE buffer # NoMessage
  <2>1. /\ queue' = queue \o t /\ requested' = requested \o t /\ UNCHANGED <<buffer, half, wire>>
        /\ write' = IF write = "running" THEN "failed" ELSE write
        /\ shut' = TRUE
    BY <1>2 DEF CloseWith
  <2>2. /\ write' \in WriteStates /\ write' # "running"
        /\ write' = "done" => half = 2
    BY <2>1 DEF IInv, TypeOK, WriteStates, WriteMatchesHalf
  <2>3. initialized
    BY <1>2 DEF IInv, SilentBefore
  <2> QED
    BY <1>2, <2>1, <2>2, <2>3, QueuedInv
<1>3. CASE buffer = NoMessage /\ t = <<>>
  <2>1. queue \o <<>> = queue /\ requested \o <<>> = requested
    BY DEF IInv, TypeOK
  <2>2. UNCHANGED <<initialized, queue, buffer, half, wire, requested>> /\ shut' = TRUE
    BY <1>3, <2>1 DEF CloseWith
  <2>3. write = "none" /\ write' = "none"
    BY <1>3 DEF CloseWith, IInv, BufferIsLast
  <2> QED
    BY <1>3, <2>2, <2>3 DEF IInv, TypeOK, QueueInOrder, BufferIsLast, WriteMatchesHalf, WireLength,
       WireContent, SilentBefore, NothingStranded, Taken
<1> QED
  BY <1>1, <1>2, <1>3

LEMMA SendErrorInv ==
    ASSUME IInv, HandleSendError
    PROVE  IInv'
<1>1. buffer # NoMessage /\ initialized
  BY DEF HandleSendError, IInv, BufferIsLast, SilentBefore
<1>2. PICK t \in Seq(Lines) : queue' = queue \o t /\ requested' = requested \o t
  <2>1. PICK member \in BOOLEAN :
           LET f == IF shut THEN <<>> ELSE Farewells(member)
           IN  queue' = queue \o f /\ requested' = requested \o f
    BY DEF HandleSendError
  <2>2. (IF shut THEN <<>> ELSE Farewells(member)) \in Seq(Lines)
    BY FarewellsType
  <2> QED
    BY <2>1, <2>2
<1>3. /\ write' = "none" /\ shut' = TRUE /\ UNCHANGED <<initialized, buffer, half, wire>>
  BY DEF HandleSendError
<1> QED
  BY <1>1, <1>2, <1>3, QueuedInv DEF WriteStates

LEMMA StepInv == IInv /\ [Next]_vars => IInv'
<1> SUFFICES ASSUME IInv, [Next]_vars PROVE IInv'
  OBVIOUS
<1>1. CASE UNCHANGED vars \/ HandleHandshake
  BY <1>1 DEF vars, sending, HandleHandshake, IInv, TypeOK, QueueInOrder, BufferIsLast,
     WriteMatchesHalf, WireLength, WireContent, SilentBefore, NothingStranded, Taken
<1>2. CASE HandleSend
  <2>1. CASE queue = <<>>
    <3>1. /\ buffer' = NoMessage /\ write' = "none" /\ half' = 0
          /\ UNCHANGED <<initialized, queue, wire, shut, requested>>
      BY <1>2, <2>1 DEF HandleSend
    <3>2. buffer # NoMessage /\ half = 2
      BY <1>2 DEF HandleSend, IInv, BufferIsLast, WriteMatchesHalf
    <3>3. Taken' = Taken /\ Taken \in Int /\ Len(wire) = 2 * Taken
      BY <3>1, <3>2 DEF Taken, IInv, TypeOK, WireLength
    <3>4. WireLength'
      BY <3>1, <3>3 DEF WireLength
    <3>5. QueueInOrder' /\ WireContent'
      BY <3>1, <3>3 DEF IInv, QueueInOrder, WireContent
    <3> QED
      BY <2>1, <3>1, <3>4, <3>5 DEF IInv, TypeOK, WriteStates, BufferIsLast, WriteMatchesHalf,
         SilentBefore, NothingStranded
  <2>2. CASE queue # <<>>
    BY <1>2, <2>2, NextTakenInv DEF HandleSend
  <2> QED
    BY <2>1, <2>2
<1>3. CASE DisconnectNetworkClient
  <2>1. PICK t \in Seq(Lines) : CloseWith(t) /\ (initialized \/ t = <<>>)
    <3>1. PICK member \in BOOLEAN : CloseWith(Farewells(member))
      BY <1>3 DEF DisconnectNetworkClient
    <3> QED
      BY <3>1, FarewellsType
  <2>2. UNCHANGED initialized
    BY <1>3 DEF DisconnectNetworkClient
  <2> QED
    BY <2>1, <2>2, CloseInv
<1>4. CASE Shutdown
  <2>1. PICK t \in Seq(Lines) : CloseWith(t) /\ t = <<>>
    <3>1. <<>> \in Seq(Lines) /\ CloseWith(<<>>)
      BY <1>4 DEF Shutdown
    <3> QED
      BY <3>1
  <2>2. UNCHANGED initialized
    BY <1>4 DEF Shutdown
  <2> QED
    BY <2>1, <2>2, CloseInv
<1>5. CASE WriteFails
  BY <1>5 DEF WriteFails, WriteStates, IInv, TypeOK, QueueInOrder, BufferIsLast, WriteMatchesHalf,
     WireLength, WireContent, SilentBefore, NothingStranded, Taken
<1> QED
  BY <1>1, <1>2, <1>3, <1>4, <1>5, EnqueueInv, SendErrorInv, TransmitInv DEF Next

(***************************************************************************)
(* The theorems.                                                           *)
(***************************************************************************)
\* The inductive invariant holds in every reachable state.
THEOREM Invariance == Spec => []IInv
BY InitInv, StepInv, PTL DEF Spec

\* Every reachable state is of the declared types.
THEOREM TypeCorrect == Spec => []TypeOK
<1>1. IInv => TypeOK
  BY DEF IInv
<1> QED
  BY <1>1, Invariance, PTL

\* The peer reads a prefix of what was to be sent to it, in whole messages and in
\* their order.
LEMMA WirePrefix == IInv => WireInOrder
<1> SUFFICES ASSUME IInv PROVE WireInOrder
  OBVIOUS
<1> USE DEF IInv, TypeOK
<1>1. Len(wire) \in Nat /\ Len(requested) \in Nat /\ Len(wire) <= 2 * Len(requested)
  BY DEF WireLength, Taken, QueueInOrder, BufferIsLast
<1>2. \A i \in 1..Len(wire) : wire[i] = Stream(requested)[i]
  <2>1. ASSUME NEW i \in 1..Len(wire)
        PROVE  wire[i] = Stream(requested)[i]
    <3>1. i \in 1..2 * Len(requested)
      BY <1>1
    <3>2. Stream(requested)[i] = <<requested[(i + 1) \div 2], 2 - (i % 2)>>
      BY <3>1 DEF Stream
    <3> QED
      BY <3>2 DEF WireContent
  <2> QED
    BY <2>1
<1>3. wire = [i \in 1..Len(wire) |-> wire[i]]
  OBVIOUS
<1> QED
  BY <1>1, <1>2, <1>3 DEF WireInOrder

THEOREM WireCorrect == Spec => []WireInOrder
BY WirePrefix, Invariance, PTL

\* Nothing a connected client was to be told is stranded in its queue.
THEOREM QueueDrained == Spec => []NothingStranded
<1>1. IInv => NothingStranded
  BY DEF IInv
<1> QED
  BY <1>1, Invariance, PTL

\* An SSL client is written to only after the handshake.
THEOREM WritesCorrect == Spec => []HandshakeFirst
<1>1. IInv => HandshakeFirst
  <2> SUFFICES ASSUME IInv, ~initialized PROVE write = "none" /\ wire = <<>>
    BY DEF IInv, HandshakeFirst
  <2>1. buffer = NoMessage /\ requested = <<>> /\ queue = <<>> /\ write = "none"
    BY DEF IInv, SilentBefore, BufferIsLast
  <2>2. Len(wire) = 0
    BY <2>1 DEF IInv, WireLength, Taken
  <2> QED
    BY <2>1, <2>2 DEF IInv, TypeOK
<1> QED
  BY <1>1, Invariance, PTL

(***************************************************************************)
(* SendQueue implements MessageStream.  Besides the inductive invariant    *)
(* that takes a fact about the socket: whatever closes it stops the write. *)
(***************************************************************************)
ClosedStops == shut => write # "running"

LEMMA InitClosedStops == Init => ClosedStops
BY DEF Init, ClosedStops

LEMMA StepClosedStops == ClosedStops /\ [Next]_vars => ClosedStops'
<1> SUFFICES ASSUME ClosedStops, [Next]_vars PROVE ClosedStops'
  OBVIOUS
<1> USE DEF ClosedStops
<1>1. CASE UNCHANGED vars \/ HandleHandshake
  BY <1>1 DEF vars, sending, HandleHandshake
<1>2. ASSUME NEW m \in Messages, SendIRCMessage(m) PROVE ClosedStops'
  BY <1>2 DEF SendIRCMessage, Enqueue, StartWrite
<1>3. CASE HandleSend
  BY <1>3 DEF HandleSend, StartWrite
<1>4. ASSUME NEW t, CloseWith(t) PROVE ClosedStops'
  BY <1>4 DEF CloseWith
<1>5. CASE HandleSendError \/ Transmit \/ WriteFails
  BY <1>5 DEF HandleSendError, Transmit, WriteFails
<1> QED
  BY <1>1, <1>2, <1>3, <1>4, <1>5 DEF Next, DisconnectNetworkClient, Shutdown

\* The wire in terms of the abstract specification, whose stream is that of
\* WireInOrder.
PeerReadsPrefix ==
    /\ Len(wire) \in Nat /\ Len(requested) \in Nat /\ Len(wire) <= 2 * Len(requested)
    /\ wire = Promise!Prefix(requested, Len(wire))
    /\ \A i \in 1..Len(wire) : wire[i] = Promise!Stream(requested)[i]

LEMMA PrefixRead == IInv => PeerReadsPrefix
<1> SUFFICES ASSUME IInv PROVE PeerReadsPrefix
  OBVIOUS
<1>1. WireInOrder /\ wire \in Seq(Lines \X {1, 2}) /\ requested \in Seq(Lines)
  BY WirePrefix DEF IInv, TypeOK
<1>2. Promise!Stream(requested) = Stream(requested)
  BY DEF Stream, Promise!Stream
<1>3. wire = Promise!Prefix(requested, Len(wire))
  BY <1>1, <1>2 DEF WireInOrder, Promise!Prefix
<1>4. \A i \in 1..Len(wire) : wire[i] = Promise!Stream(requested)[i]
  BY <1>3 DEF Promise!Prefix
<1> QED
  BY <1>1, <1>3, <1>4 DEF WireInOrder, PeerReadsPrefix

\* Without a buffer in use the peer has got everything.
LEMMA EverythingSent ==
    ASSUME IInv, buffer = NoMessage
    PROVE  Len(wire) = 2 * Len(requested)
BY DEF IInv, TypeOK, BufferIsLast, WireLength, Taken

LEMMA FarewellsMatch ==
    ASSUME NEW member \in BOOLEAN
    PROVE  /\ Farewells(member) \in Promise!Farewells
           /\ Farewells(member) # <<>> => initialized
BY DEF Farewells, Promise!Farewells

\* The socket is closed, and the peer may see the start of the farewell.
LEMMA CloseStep ==
    ASSUME IInv, IInv', PeerReadsPrefix', ~shut, UNCHANGED initialized,
           NEW t \in Promise!Farewells, t # <<>> => initialized, CloseWith(t)
    PROVE  Promise!Close(t)
<1>1. shut' = TRUE /\ requested' = requested \o t
  BY DEF CloseWith
<1>2. CASE buffer = NoMessage /\ t # <<>>
  <2>1. PICK n \in 0..2 : wire' = wire \o Halves(Head(t), n)
    BY <1>2 DEF CloseWith
  <2>2. wire \in Seq(Lines \X {1, 2}) /\ wire' \in Seq(Lines \X {1, 2})
    BY DEF IInv, TypeOK
  <2>3. CASE n = 0
    <3>1. Halves(Head(t), n) = <<>>
      BY <2>3 DEF Halves
    <3>2. wire \o <<>> = wire
      BY <2>2
    <3> QED
      BY <1>1, <2>1, <3>1, <3>2 DEF Promise!Close
  <2>4. CASE n \in 1..2
    <3>1. Len(wire') = Len(wire) + n
      <4> DEFINE h == Halves(Head(t), n)
      <4>1. h \in Seq({Head(t)} \X {1, 2}) /\ Len(h) = n
        BY <2>4 DEF Halves
      <4> HIDE DEF h
      <4>2. Len(wire \o h) = Len(wire) + Len(h)
        BY <2>2, <4>1
      <4> QED
        BY <2>1, <4>1, <4>2 DEF h
    <3>2. Len(wire) = 2 * Len(requested)
      BY <1>2, EverythingSent
    <3>3. wire' = Promise!Prefix(requested', Len(wire) + n)
      <4>1. wire' = Promise!Prefix(requested, Len(wire))'
        BY DEF PeerReadsPrefix
      <4> QED
        BY <3>1, <4>1 DEF Promise!Prefix, Promise!Stream
    <3> QED
      BY <1>1, <1>2, <2>4, <3>2, <3>3, Zenon DEF Promise!Close
  <2> QED
    BY <2>3, <2>4
<1>3. CASE ~(buffer = NoMessage /\ t # <<>>)
  BY <1>1, <1>3 DEF CloseWith, Promise!Close
<1> QED
  BY <1>2, <1>3

LEMMA RefinementInit == Init => Promise!Init
BY DEF Init, Promise!Init

LEMMA RefinementStep ==
    IInv /\ IInv' /\ PeerReadsPrefix /\ PeerReadsPrefix' /\ ClosedStops /\ [Next]_vars
        => [Promise!Next]_(Promise!vars)
<1> SUFFICES ASSUME IInv, IInv', PeerReadsPrefix, PeerReadsPrefix', ClosedStops, [Next]_vars
             PROVE  Promise!Next \/ UNCHANGED Promise!vars
  OBVIOUS
<1>1. CASE UNCHANGED vars \/ HandleSend \/ WriteFails
  BY <1>1 DEF vars, sending, HandleSend, StartWrite, WriteFails, Promise!vars
<1>2. CASE HandleHandshake
  BY <1>2 DEF HandleHandshake, Promise!Open, Promise!Next
<1>3. ASSUME NEW m \in Messages, SendIRCMessage(m) PROVE Promise!Next
  BY <1>3 DEF SendIRCMessage, Enqueue, Promise!Ask, Promise!Next
<1>4. CASE Transmit
  <2>1. ~shut /\ wire \in Seq(Lines \X {1, 2})
    BY <1>4 DEF Transmit, ClosedStops, IInv, TypeOK
  <2>2. /\ wire' = Append(wire, <<buffer, half + 1>>)
        /\ UNCHANGED <<initialized, shut, requested>>
    BY <1>4 DEF Transmit
  <2>3. Len(wire') = Len(wire) + 1 /\ wire'[Len(wire) + 1] = <<buffer, half + 1>>
    BY <2>1, <2>2
  <2>4. /\ Len(wire') <= 2 * Len(requested')
        /\ \A i \in 1..Len(wire') : wire'[i] = Promise!Stream(requested)'[i]
    BY DEF PeerReadsPrefix
  <2>5. Promise!Stream(requested)' = Promise!Stream(requested)
    BY <2>2 DEF Promise!Stream
  <2>6. Len(wire) \in Nat /\ Len(requested) \in Nat
    BY DEF PeerReadsPrefix
  <2>7. Len(wire) < 2 * Len(requested) /\ <<buffer, half + 1>> = Promise!Stream(requested)[Len(wire) + 1]
    BY <2>2, <2>3, <2>4, <2>5, <2>6
  <2>8. Promise!Deliver
    BY <2>1, <2>2, <2>7 DEF Promise!Deliver
  <2> QED
    BY <2>8 DEF Promise!Next
<1>5. CASE DisconnectNetworkClient
  <2>1. PICK member \in BOOLEAN : CloseWith(Farewells(member))
    BY <1>5 DEF DisconnectNetworkClient
  <2>2. Promise!Close(Farewells(member))
    BY <1>5, <2>1, FarewellsMatch, CloseStep DEF DisconnectNetworkClient
  <2> QED
    BY <2>2, FarewellsMatch DEF Promise!Next
<1>6. CASE Shutdown
  <2>1. <<>> \in Promise!Farewells
    BY DEF Promise!Farewells
  <2>2. Promise!Close(<<>>)
    BY <1>6, <2>1, CloseStep DEF Shutdown
  <2> QED
    BY <2>1, <2>2 DEF Promise!Next
<1>7. CASE HandleSendError
  <2>1. PICK member \in BOOLEAN :
           requested' = requested \o (IF shut THEN <<>> ELSE Farewells(member))
    BY <1>7 DEF HandleSendError
  <2>2. shut' = TRUE /\ UNCHANGED <<initialized, wire>>
    BY <1>7 DEF HandleSendError
  <2>3. CASE shut
    <3>1. requested' = requested
      BY <2>1, <2>3 DEF IInv, TypeOK
    <3> QED
      BY <2>2, <2>3, <3>1 DEF Promise!vars, IInv, TypeOK
  <2>4. CASE ~shut
    <3>1. Promise!Close(Farewells(member))
      BY <2>1, <2>2, <2>4, FarewellsMatch DEF Promise!Close
    <3> QED
      BY <3>1, FarewellsMatch DEF Promise!Next
  <2> QED
    BY <2>3, <2>4
<1> QED
  BY <1>1, <1>2, <1>3, <1>4, <1>5, <1>6, <1>7 DEF Next

\* The sending half of a client implements MessageStream: whatever the handlers,
\* the writes and the disconnections do, the peer sees messages that arrive in
\* order, until the connection is closed.
THEOREM Refinement == Spec => KeepsOrder
<1>1. Spec => []ClosedStops
  BY InitClosedStops, StepClosedStops, PTL DEF Spec
<1> QED
  BY <1>1, Invariance, PrefixRead, RefinementInit, RefinementStep, PTL DEF Spec, KeepsOrder, Promise!Spec

(***************************************************************************)
(* A closed connection is let go.  Once the client is shut its write is in *)
(* one of four states, and the last one is for ever.                       *)
(***************************************************************************)
Finishing == shut /\ write = "done"
Idle      == shut /\ write = "none" /\ buffer = NoMessage
Failing   == shut /\ write = "failed"
Over      == shut /\ write = "none" /\ buffer # NoMessage

LEMMA ShutStates == IInv /\ ClosedStops /\ shut => Finishing \/ Idle \/ Failing \/ Over
BY DEF IInv, TypeOK, WriteStates, ClosedStops, Finishing, Idle, Failing, Over

LEMMA StepFinishing ==
    /\ IInv' /\ ClosedStops' /\ Finishing /\ [Next]_vars => Finishing' \/ Idle' \/ Failing'
    /\ Finishing /\ <<HandleSend>>_vars => Idle' \/ Failing'
<1>1. ASSUME Finishing, HandleSend PROVE Idle' \/ Failing'
  BY <1>1 DEF Finishing, Idle, Failing, HandleSend, StartWrite
<1>2. ASSUME Finishing, [Next]_vars, ~HandleSend PROVE Finishing' \/ Idle' \/ Failing'
  <2>1. ASSUME NEW m \in Messages, SendIRCMessage(m) PROVE Finishing' \/ Failing'
    BY <1>2, <2>1 DEF Finishing, Failing, SendIRCMessage, Enqueue, StartWrite
  <2> QED
    BY <1>2, <2>1 DEF Finishing, Next, vars, sending, HandleHandshake, HandleSendError,
       DisconnectNetworkClient, Shutdown, Transmit, WriteFails
<1> QED
  BY <1>1, <1>2

LEMMA StepIdle ==
    IInv /\ Idle /\ [Next]_vars => Idle' \/ Failing'
<1> SUFFICES ASSUME IInv, Idle, [Next]_vars PROVE Idle' \/ Failing'
  OBVIOUS
<1>1. ASSUME NEW m \in Messages, SendIRCMessage(m) PROVE Failing'
  BY <1>1 DEF Idle, Failing, SendIRCMessage, Enqueue, StartWrite
<1> QED
  BY <1>1 DEF Idle, Next, vars, sending, HandleHandshake, HandleSend, HandleSendError,
     DisconnectNetworkClient, Shutdown, Transmit, WriteFails

LEMMA StepFailing ==
    /\ IInv /\ Failing /\ [Next]_vars => Failing' \/ Over'
    /\ IInv /\ Failing /\ <<HandleSendError>>_vars => Over'
<1>1. ASSUME IInv, Failing, HandleSendError PROVE Over'
  BY <1>1 DEF IInv, BufferIsLast, Failing, Over, HandleSendError
<1>2. ASSUME IInv, Failing, [Next]_vars, ~HandleSendError PROVE Failing'
  <2>1. ASSUME NEW m \in Messages, SendIRCMessage(m) PROVE Failing'
    BY <1>2, <2>1 DEF IInv, BufferIsLast, Failing, SendIRCMessage, Enqueue, StartWrite
  <2> QED
    BY <1>2, <2>1 DEF Failing, Next, vars, sending, HandleHandshake, HandleSend,
       DisconnectNetworkClient, Shutdown, Transmit, WriteFails
<1> QED
  BY <1>1, <1>2

LEMMA StepOver == Over /\ [Next]_vars => Over'
<1> SUFFICES ASSUME Over, [Next]_vars PROVE Over'
  OBVIOUS
<1>1. ASSUME NEW m \in Messages, SendIRCMessage(m) PROVE Over'
  BY <1>1 DEF Over, SendIRCMessage, Enqueue, StartWrite
<1> QED
  BY <1>1 DEF Over, Next, vars, sending, HandleHandshake, HandleSend, HandleSendError,
     DisconnectNetworkClient, Shutdown, Transmit, WriteFails

\* Whatever is still sent to it, a client that is shut is let go by its writes:
\* at most one of them succeeds and one fails, and none is started after that.
THEOREM WritesTerminate == FairSpec /\ []CompletionsCanRun => WritesEnd
<1>1. Finishing /\ CompletionsCanRun => ENABLED <<HandleSend>>_vars
  BY DEF Finishing, CompletionsCanRun
<1>2. Failing /\ CompletionsCanRun => ENABLED <<HandleSendError>>_vars
  BY DEF Failing, CompletionsCanRun
<1>3. Idle \/ Over => write = "none"
  BY DEF Idle, Over
<1> QED
  BY <1>1, <1>2, <1>3, Invariance, InitClosedStops, StepClosedStops, ShutStates, StepFinishing,
     StepIdle, StepFailing, StepOver, PTL DEF FairSpec, Spec, WritesEnd

================================================================================
