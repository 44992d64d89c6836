-------------------------- MODULE InputBuffer_proofs ---------------------------
(***************************************************************************)
(* Theorems about InputBuffer, for any line length and any reads.          *)
(***************************************************************************)
EXTENDS InputBuffer, TLAPS

Plain == Text \cup {CR}

\* What waits for its ending holds none: the bytes of the unfinished line, which
\* are the remainder before the walk and lie before p during it.
RestIsPlain ==
    /\ pc \in {"reading", "queued"} => Slice(0, pointer) \in Seq(Plain)
    /\ pc = "walking" => Slice(message, p) \in Seq(Plain)

\* "Message too long" ends the reading.
RejectionIsFinal == tooLong => pc = "returned"

\* The walk never goes back into the remainder.
BehindRemainder == pc = "walking" => pointer <= p

\* Behind the first byte of a read no CRLF is taken apart: an LF that follows a
\* CR of the same line is never come upon alone.
NoSplitBehind ==
    pc = "walking" /\ pointer < p /\ message < p => ~(At(p - 1) = CR /\ At(p) = LF)

IInv ==
    /\ TypeOK /\ WithinBuffer /\ OneLateLine
    /\ RestIsPlain /\ RejectionIsFinal /\ BehindRemainder /\ NoSplitBehind

(***************************************************************************)
(* Bytes and positions.                                                    *)
(***************************************************************************)
\* The bytes between two positions of a sequence.
LEMMA SliceType ==
    ASSUME NEW S, NEW s \in Seq(S), NEW i \in Nat, NEW j \in Nat, i <= j, j <= Len(s)
    PROVE  /\ SubSeq(s, i + 1, j) \in Seq(S)
           /\ Len(SubSeq(s, i + 1, j)) = j - i
           /\ \A k \in 1..(j - i) : SubSeq(s, i + 1, j)[k] = s[i + k]
  OBVIOUS

\* A slice grows by the byte behind it.
LEMMA SliceAppend ==
    ASSUME NEW S, NEW s \in Seq(S), NEW i \in Nat, NEW j \in Nat, i <= j, j < Len(s)
    PROVE  SubSeq(s, i + 1, j + 1) = Append(SubSeq(s, i + 1, j), s[j + 1])
  OBVIOUS

\* A slice of plain bytes is a sequence of them.
LEMMA PlainSlice ==
    ASSUME NEW S, NEW T, NEW s \in Seq(S), NEW i \in Nat, NEW j \in Nat, i <= j, j <= Len(s),
           \A k \in (i + 1)..j : s[k] \in T
    PROVE  SubSeq(s, i + 1, j) \in Seq(T)
  OBVIOUS

\* Copying from the end reads bytes of the remainder only.
LEMMA DivisionBounds ==
    ASSUME NEW a \in Nat, NEW m \in Nat, m > 0
    PROVE  /\ a \div m \in Nat
           /\ m * (a \div m) <= a
           /\ a < m * (a \div m) + m
  BY SMT

\* The bytes of a read follow the remainder and leave it alone.
LEMMA ReadBehind ==
    ASSUME NEW S, NEW s \in Seq(S), NEW t \in Seq(S)
    PROVE  /\ s \o t \in Seq(S)
           /\ Len(s \o t) = Len(s) + Len(t)
           /\ SubSeq(s \o t, 0 + 1, Len(s)) = s
  OBVIOUS

\* The whole of a sequence, and nothing of it.
LEMMA WholeAndEmpty ==
    ASSUME NEW S, NEW s \in Seq(S), NEW i \in Nat
    PROVE  /\ SubSeq(s, 0 + 1, Len(s)) = s
           /\ SubSeq(s, i + 1, i) = <<>>
           /\ <<>> \in Seq(S)
  OBVIOUS

\* What the loop knows of the byte it looks at.
LEMMA AtPointer ==
    ASSUME TypeOK
    PROVE  /\ At(p) # NUL => p < Len(buffer) /\ At(p) = buffer[p + 1] /\ At(p) \in Characters
           /\ p < Len(buffer) => At(p) = buffer[p + 1]
           /\ LineEndingLength \in {0, 1, 2}
           /\ p + LineEndingLength <= Len(buffer) \/ LineEndingLength = 0
           /\ LineEndingLength = 0 => At(p) # LF
  <1> USE CharactersAssumption
  <1>1. p \in Nat /\ Len(buffer) \in Nat /\ \A i \in 1..Len(buffer) : buffer[i] \in Characters
    BY DEF TypeOK
  <1>2. \A i \in Nat : At(i) # NUL => i < Len(buffer) /\ At(i) = buffer[i + 1] /\ At(i) \in Characters
    BY <1>1 DEF At
  <1>3. At(p) = LF => p + 1 <= Len(buffer)
    BY <1>1, <1>2
  <1>4. At(p + 1) = LF => p + 2 <= Len(buffer)
    BY <1>1, <1>2
  <1> QED
    BY <1>1, <1>2, <1>3, <1>4 DEF LineEndingLength, At

\* Copying from the end mixes up the bytes of the remainder: it brings no other
\* ones in.
LEMMA CopiedBytes ==
    ASSUME TypeOK, WithinBuffer, pc = "walking", Overlap
    PROVE  CopiedFromEnd \in [1..(p - message) -> {Slice(message, p)[i] : i \in 1..(p - message)}]
  <1> DEFINE n == p - message
             src(i) == i + message * ((n - i) \div message + 1)
             sl == Slice(message, p)
  <1>1. p \in Nat /\ message \in Nat /\ message > 0 /\ n \in Nat /\ message <= p /\ p <= Len(buffer)
    BY DEF TypeOK, WithinBuffer, Overlap
  <1>2. ASSUME NEW i \in 1..n
        PROVE  src(i) \in (message + 1)..p
    <2>1. PICK q \in Nat : q = (n - i) \div message
                           /\ message * q <= n - i /\ n - i < message * q + message
      BY <1>1, DivisionBounds
    <2>2. message * (q + 1) = message * q + message /\ message * q \in Nat
      BY <1>1, <2>1
    <2> QED
      BY <1>1, <2>1, <2>2
  <1>3. ASSUME NEW k \in (message + 1)..p
        PROVE  buffer[k] \in {sl[i] : i \in 1..n}
    <2>1. \A m \in 1..(p - message) : sl[m] = buffer[message + m]
      BY <1>1, SliceType DEF TypeOK, Slice
    <2>2. k - message \in 1..n /\ message + (k - message) = k
      BY <1>1
    <2>3. buffer[k] = sl[k - message]
      BY <2>1, <2>2
    <2> HIDE DEF sl, n
    <2> QED
      BY <2>2, <2>3
  <1>4. CopiedFromEnd = [i \in 1..n |-> buffer[src(i)]]
    BY DEF CopiedFromEnd
  <1>5. \A i \in 1..n : buffer[src(i)] \in {sl[j] : j \in 1..n}
    BY <1>2, <1>3
  <1> HIDE DEF n, src, sl
  <1> QED
    BY <1>4, <1>5 DEF n, sl

\* So plain bytes are left plain bytes, as many as there were.
LEMMA CopiedType ==
    ASSUME TypeOK, WithinBuffer, pc = "walking", Overlap, Slice(message, p) \in Seq(Plain)
    PROVE  CopiedFromEnd \in Seq(Plain) /\ Len(CopiedFromEnd) = p - message
  <1>1. p - message \in Nat
    BY DEF TypeOK, WithinBuffer
  <1>2. \A i \in 1..(p - message) : Slice(message, p)[i] \in Plain
    BY SliceType DEF TypeOK, WithinBuffer, Slice
  <1>3. CopiedFromEnd \in [1..(p - message) -> Plain]
    BY <1>2, CopiedBytes
  <1> QED
    BY <1>1, <1>3

(***************************************************************************)
(* The invariant.                                                          *)
(***************************************************************************)
LEMMA InitInv == Init => IInv
  <1> SUFFICES ASSUME Init PROVE IInv
    OBVIOUS
  <1>1. SubSeq(<<>>, 0 + 1, 0) \in Seq(Plain)
    OBVIOUS
  <1>2. TypeOK
    <2>1. <<>> \in Seq(Characters) /\ <<>> \in Seq(Text \cup {CR})
      OBVIOUS
    <2>2. open \in BOOLEAN /\ tooLong \in BOOLEAN
      BY Zenon DEF Init
    <2> QED
      BY <2>1, <2>2 DEF Init, TypeOK
  <1>3. WithinBuffer /\ OneLateLine
    BY LengthAssumption DEF Init, WithinBuffer, OneLateLine, Capacity
  <1> QED
    BY <1>1, <1>2, <1>3 DEF Init, IInv, RestIsPlain, RejectionIsFinal, BehindRemainder, NoSplitBehind, Slice

\* The three facts about bytes that the parts of the invariant rest on.
LEMMA Bytes ==
    ASSUME IInv
    PROVE  /\ pc \in {"reading", "queued"} =>
                 Slice(0, pointer) \in Seq(Plain) /\ Len(Slice(0, pointer)) = pointer
           /\ Slice(0, pointer) \in Seq(Characters)
           /\ pc = "walking" => Slice(message, p) \in Seq(Plain) /\ Len(Slice(message, p)) = p - message
  BY SliceType DEF IInv, TypeOK, WithinBuffer, RestIsPlain, Slice

LEMMA ReceiveInv ==
    ASSUME IInv, NEW data \in Reads, Receive(data)
    PROVE  IInv'
  <1>1. data \in Seq(Characters)
    BY DEF Reads
  <1>2. PICK r \in Seq(Characters) : r = Slice(0, pointer) /\ Len(r) = pointer /\ r \in Seq(Plain)
    BY Bytes DEF Receive
  <1>3. buffer' = r \o data /\ buffer' \in Seq(Characters) /\ Len(buffer') = Len(r) + Len(data)
        /\ SubSeq(buffer', 0 + 1, pointer) = r
    BY <1>1, <1>2, ReadBehind DEF Receive
  <1>4. Len(buffer') <= Capacity /\ pointer <= Len(buffer') /\ pointer \in Nat
    BY <1>1, <1>2, <1>3, LengthAssumption DEF Receive, IInv, TypeOK, Capacity
  <1>5. TypeOK' /\ WithinBuffer'
    BY <1>3, <1>4 DEF Receive, IInv, TypeOK, WithinBuffer, Capacity
  <1>6. RestIsPlain'
    BY <1>2, <1>3 DEF Receive, RestIsPlain, Slice
  <1> QED
    BY <1>5, <1>6 DEF IInv, OneLateLine, RejectionIsFinal, BehindRemainder, NoSplitBehind, Receive

LEMMA WalkInv ==
    ASSUME IInv, Walk
    PROVE  IInv'
  <1>1. p < Len(buffer) /\ At(p) = buffer[p + 1] /\ At(p) \in Plain
    BY AtPointer, CharactersAssumption DEF IInv, Walk, Plain, Characters
  <1>2. Slice(message, p) \in Seq(Plain)
    BY Bytes DEF Walk
  <1>3. SubSeq(buffer, message + 1, p + 1) = Append(Slice(message, p), buffer[p + 1])
    BY <1>1, SliceAppend DEF IInv, TypeOK, WithinBuffer, Walk, Slice
  <1>4. Slice(message, p)' \in Seq(Plain)
    BY <1>1, <1>2, <1>3 DEF Walk, Slice
  <1>5. BehindRemainder' /\ NoSplitBehind'
    <2>1. p \in Nat /\ pointer \in Nat /\ p' = p + 1 /\ p' - 1 = p /\ UNCHANGED <<buffer, pointer>>
      BY DEF IInv, TypeOK, Walk
    <2>2. ~(At(p) = CR /\ At(p + 1) = LF)
      BY DEF Walk, LineEndingLength
    <2>3. At(p - 1)' = At(p) /\ At(p)' = At(p + 1)
      BY <2>1 DEF At
    <2>4. pointer <= p
      BY DEF IInv, BehindRemainder, Walk
    <2> QED
      BY <2>1, <2>2, <2>3, <2>4 DEF BehindRemainder, NoSplitBehind, At
  <1> QED
    BY <1>1, <1>4, <1>5 DEF IInv, TypeOK, WithinBuffer, OneLateLine, RestIsPlain, RejectionIsFinal, Walk, Capacity

LEMMA ReceiveMessageInv ==
    ASSUME IInv, ReceiveMessage
    PROVE  IInv'
  <1>1. LineEndingLength \in {1, 2} /\ p + LineEndingLength <= Len(buffer)
    BY AtPointer DEF IInv, ReceiveMessage
  <1>2. line' \in Seq(Plain)
    BY Bytes DEF ReceiveMessage
  <1>3. p \in Nat /\ message \in Nat /\ p' \in Nat /\ message' \in Nat
    BY <1>1 DEF IInv, TypeOK, ReceiveMessage
  <1>4. pc' = "walking" => message' = p' /\ p' <= Len(buffer) /\ pointer < MaxLength
    BY <1>1 DEF IInv, WithinBuffer, ReceiveMessage
  <1>5. pc' = "walking" => Slice(message, p)' \in Seq(Plain)
    <2>1. PICK q \in Nat : q = p'
      BY <1>3
    <2>2. SubSeq(buffer, q + 1, q) = <<>> /\ <<>> \in Seq(Plain)
      BY WholeAndEmpty DEF IInv, TypeOK
    <2> QED
      BY <1>4, <2>1, <2>2 DEF ReceiveMessage, Slice
  <1>6. TypeOK'
    <2>1. pc' \in {"walking", "returned"} /\ late' \in Nat
      BY DEF IInv, TypeOK, ReceiveMessage
    <2>2. open' \in BOOLEAN
      BY Zenon DEF IInv, TypeOK, ReceiveMessage
    <2> QED
      BY <1>2, <1>3, <2>1, <2>2 DEF IInv, TypeOK, ReceiveMessage, Plain
  <1>7. WithinBuffer'
    BY <1>3, <1>4 DEF IInv, WithinBuffer, ReceiveMessage, Capacity
  <1>8. OneLateLine'
    <2>1. late = 0
      BY DEF IInv, TypeOK, OneLateLine, ReceiveMessage
    <2>2. ~open => ~open'
      BY Zenon DEF IInv, TypeOK, ReceiveMessage
    <2>3. ~open' => pc' = "returned"
      BY Zenon DEF ReceiveMessage
    <2>4. late' = IF open THEN late ELSE late + 1
      BY Zenon DEF ReceiveMessage
    <2> QED
      BY <2>1, <2>2, <2>3, <2>4 DEF OneLateLine
  <1>9. pc' \in {"walking", "returned"}
    BY DEF ReceiveMessage
  <1>10. RestIsPlain'
    BY <1>5, <1>9 DEF RestIsPlain
  <1>11. RejectionIsFinal'
    BY <1>9 DEF IInv, RejectionIsFinal, ReceiveMessage
  <1>12. BehindRemainder' /\ NoSplitBehind'
    <2>1. pc' = "walking" => p' = p + LineEndingLength /\ message' = p'
      BY DEF ReceiveMessage
    <2>2. pointer' = pointer /\ pointer \in Nat /\ pointer <= p
      BY DEF IInv, TypeOK, BehindRemainder, ReceiveMessage
    <2>3. ~(message' < p') \/ pc' # "walking"
      BY <1>3, <2>1
    <2> QED
      BY <1>1, <1>3, <2>1, <2>2, <2>3 DEF BehindRemainder, NoSplitBehind
  <1> QED
    BY <1>6, <1>7, <1>8, <1>10, <1>11, <1>12 DEF IInv

LEMMA KeepRemainderInv ==
    ASSUME IInv, KeepRemainder
    PROVE  IInv'
  <1>1. p \in Nat /\ message \in Nat /\ message <= p /\ p - message < MaxLength
    BY DEF IInv, TypeOK, WithinBuffer, KeepRemainder
  <1>2. buffer' \in Seq(Plain) /\ Len(buffer') = p - message
    BY Bytes, CopiedType DEF IInv, RestIsPlain, KeepRemainder
  <1>3. buffer' \in Seq(Characters)
    BY <1>2 DEF Plain, Characters
  <1>4. SubSeq(buffer', 0 + 1, Len(buffer')) = buffer'
    BY <1>3, WholeAndEmpty
  <1>5. Slice(0, pointer)' \in Seq(Plain)
    BY <1>2, <1>4 DEF KeepRemainder, Slice
  <1>6. TypeOK'
    BY <1>1, <1>3 DEF IInv, TypeOK, KeepRemainder
  <1>7. WithinBuffer'
    BY <1>1, <1>2, LengthAssumption DEF WithinBuffer, KeepRemainder, Capacity
  <1>8. OneLateLine' /\ RestIsPlain'
    BY <1>5 DEF IInv, OneLateLine, RestIsPlain, KeepRemainder
  <1>9. RejectionIsFinal' /\ BehindRemainder' /\ NoSplitBehind'
    BY DEF IInv, RejectionIsFinal, BehindRemainder, NoSplitBehind, KeepRemainder
  <1> QED
    BY <1>6, <1>7, <1>8, <1>9 DEF IInv

LEMMA StepInv == IInv /\ [Next]_vars => IInv'
  <1> SUFFICES ASSUME IInv, [Next]_vars PROVE IInv'
    OBVIOUS
  <1>1. ASSUME NEW data \in Reads, Receive(data) PROVE IInv'
    BY <1>1, ReceiveInv
  <1>2. CASE ReceiveFails
    BY <1>2 DEF ReceiveFails, IInv, TypeOK, WithinBuffer, OneLateLine, RestIsPlain, RejectionIsFinal, BehindRemainder, NoSplitBehind, Capacity, Slice, At
  <1>3. CASE Disconnect
    BY <1>3 DEF Disconnect, IInv, TypeOK, WithinBuffer, OneLateLine, RestIsPlain, RejectionIsFinal, BehindRemainder, NoSplitBehind, Capacity, Slice, At
  <1>4. CASE HandleNewData
    BY <1>4 DEF HandleNewData, IInv, TypeOK, WithinBuffer, OneLateLine, RestIsPlain, RejectionIsFinal, BehindRemainder, NoSplitBehind, Capacity, Slice, At
  <1>5. CASE DiscardLine \/ DiscardRemainder
    BY <1>5 DEF DiscardLine, DiscardRemainder, Discard, IInv, TypeOK, WithinBuffer, OneLateLine, RestIsPlain, RejectionIsFinal, BehindRemainder, NoSplitBehind, Capacity
  <1>6. CASE ReceiveMessage
    BY <1>6, ReceiveMessageInv
  <1>7. CASE Walk
    BY <1>7, WalkInv
  <1>8. CASE KeepRemainder
    BY <1>8, KeepRemainderInv
  <1>9. CASE UNCHANGED vars
    BY <1>9 DEF vars, IInv, TypeOK, WithinBuffer, OneLateLine, RestIsPlain, RejectionIsFinal, BehindRemainder, NoSplitBehind, Capacity, Slice, At
  <1> QED
    BY <1>1, <1>2, <1>3, <1>4, <1>5, <1>6, <1>7, <1>8, <1>9 DEF Next, Turn

\* The state of the walk is what IInv says of it, whatever the peer sends.
THEOREM Invariance == Spec => []IInv
  BY InitInv, StepInv, PTL DEF Spec

\* Every variable keeps its type; no line holds a line feed or a NUL.
THEOREM TypeCorrect == Spec => []TypeOK
  <1>1. IInv => TypeOK
    BY DEF IInv
  <1> QED
    BY <1>1, Invariance, PTL

\* No read and no pointer of _HandleNewData leaves m_InputBuffer.
THEOREM BufferSafe == Spec => []WithinBuffer
  <1>1. IInv => WithinBuffer
    BY DEF IInv
  <1> QED
    BY <1>1, Invariance, PTL

\* One line at most is handled after the socket has been closed.
THEOREM LateLines == Spec => []OneLateLine
  <1>1. IInv => OneLateLine
    BY DEF IInv
  <1> QED
    BY <1>1, Invariance, PTL

\* How many bytes the walk has ahead of it.
BytesAhead == Len(buffer) - p

\* Once the handler is in its loop nothing happens but a turn of it, which is the
\* last one or leaves fewer bytes ahead: a read of n bytes takes n + 1 turns at
\* most, whatever the bytes are and whoever has closed the socket.
TurnsRunOut ==
    [][pc = "walking" => \/ pc' # "walking"
                         \/ buffer' = buffer /\ BytesAhead' \in Nat /\ BytesAhead' < BytesAhead]_vars

\* The loop over the lines of a read cannot go on for ever: no branch of it
\* leaves its pointer where it is.
THEOREM LoopAdvances == Spec => TurnsRunOut
  <1>1. ASSUME IInv, IInv', Next, pc = "walking"
        PROVE  \/ pc' # "walking"
               \/ buffer' = buffer /\ BytesAhead' \in Nat /\ BytesAhead' < BytesAhead
    <2>1. Turn
      BY <1>1 DEF Next, Receive, ReceiveFails, Disconnect, HandleNewData
    <2>2. CASE DiscardLine \/ DiscardRemainder \/ KeepRemainder
      BY <2>2 DEF DiscardLine, DiscardRemainder, KeepRemainder, Discard
    <2>3. CASE pc' = "walking" /\ (Walk \/ ReceiveMessage)
      <3>1. buffer' = buffer /\ p' > p
        <4>1. p \in Nat /\ LineEndingLength \in {0, 1, 2}
          BY <1>1, AtPointer DEF IInv, TypeOK
        <4>2. CASE Walk
          BY <4>1, <4>2 DEF Walk
        <4>3. CASE ReceiveMessage
          <5>1. open' /\ p' = p + LineEndingLength /\ LineEndingLength # 0 /\ buffer' = buffer
            BY <2>3, <4>3 DEF ReceiveMessage
          <5> QED
            BY <4>1, <5>1
        <4> QED
          BY <2>3, <4>2, <4>3
      <3>2. p' \in Nat /\ p' <= Len(buffer') /\ p \in Nat /\ Len(buffer) \in Nat
        BY <1>1, <2>3 DEF IInv, TypeOK, WithinBuffer
      <3> QED
        BY <3>1, <3>2 DEF BytesAhead
    <2> QED
      BY <2>1, <2>2, <2>3 DEF Turn
  <1>2. IInv /\ IInv' /\ [Next]_vars =>
           [pc = "walking" => \/ pc' # "walking"
                              \/ buffer' = buffer /\ BytesAhead' \in Nat /\ BytesAhead' < BytesAhead]_vars
    BY <1>1
  <1> QED
    BY <1>2, Invariance, PTL DEF Spec, TurnsRunOut

(***************************************************************************)
(* InputBuffer implements LineStream.                                      *)
(***************************************************************************)
\* Slices of slices, and the first bytes of one.
LEMMA SliceOfSlice ==
    ASSUME NEW S, NEW s \in Seq(S), NEW i \in Nat, NEW e \in Nat, i + e <= Len(s)
    PROVE  SubSeq(SubSeq(s, i + 1, Len(s)), e + 1, Len(s) - i) = SubSeq(s, i + e + 1, Len(s))
  OBVIOUS

LEMMA TailOfSlice ==
    ASSUME NEW S, NEW s \in Seq(S), NEW i \in Nat, i < Len(s)
    PROVE  Tail(SubSeq(s, i + 1, Len(s))) = SubSeq(s, i + 2, Len(s))
  OBVIOUS

\* During the walk, the stream's view of the next bytes is the loop's.
LEMMA LookAhead ==
    ASSUME IInv, pc = "walking"
    PROVE  /\ Unread \in Seq(Characters) /\ Len(Unread) = Len(buffer) - p
           /\ Unread = <<>> <=> p = Len(buffer)
           /\ p < Len(buffer) => Unread[1] = buffer[p + 1]
           /\ Stream!EndingOf(Unread) = LineEndingLength
           /\ At(p) = NUL => Unread = <<>> \/ Unread[1] = NUL
  <1> USE CharactersAssumption
  <1>1. p \in Nat /\ p <= Len(buffer) /\ Len(buffer) \in Nat
    BY DEF IInv, TypeOK, WithinBuffer
  <1>2. Unread = SubSeq(buffer, p + 1, Len(buffer))
    BY DEF Unread, Slice
  <1>3. /\ Unread \in Seq(Characters) /\ Len(Unread) = Len(buffer) - p
        /\ \A k \in 1..(Len(buffer) - p) : Unread[k] = buffer[p + k]
    BY <1>1, <1>2, SliceType DEF IInv, TypeOK
  <1>4. /\ Unread = <<>> <=> p = Len(buffer)
        /\ p < Len(buffer) => Unread[1] = buffer[p + 1]
        /\ p + 1 < Len(buffer) => Unread[2] = buffer[p + 2]
    BY <1>1, <1>3
  <1>5. At(p) = (IF Unread = <<>> THEN NUL ELSE Unread[1])
        /\ At(p + 1) = (IF Len(Unread) > 1 THEN Unread[2] ELSE NUL)
    BY <1>1, <1>3, <1>4 DEF At
  <1>6. Len(Unread) > 1 => Unread # <<>>
    BY <1>3
  <1>7. Stream!EndingOf(Unread) = LineEndingLength
    BY <1>3, <1>5, <1>6 DEF Stream!EndingOf, LineEndingLength
  <1> QED
    BY <1>3, <1>4, <1>5, <1>7

LEMMA ReceiveArrives ==
    ASSUME IInv, NEW data \in Reads, Receive(data)
    PROVE  Stream!Arrive
  <1>1. data \in Seq(Characters)
    BY DEF Reads
  <1>2. PICK r \in Seq(Characters) : r = Slice(0, pointer) /\ Len(r) = pointer
    BY Bytes DEF Receive
  <1>3. buffer' = r \o data /\ SubSeq(buffer', 0 + 1, pointer) = r
        /\ buffer' \in Seq(Characters) /\ Len(buffer') = Len(r) + Len(data)
    BY <1>1, <1>2, ReadBehind DEF Receive
  <1>4. pc = "reading" /\ pc' = "queued" /\ UNCHANGED <<pointer, line, tooLong>> /\ pointer \in Nat
    BY DEF Receive, IInv, TypeOK
  <1>5. Unread = <<>> /\ Unread' \in Seq(Characters)
    <2>1. Unread' = SubSeq(buffer', pointer + 1, Len(buffer'))
      BY <1>4 DEF Unread, Slice
    <2>2. SubSeq(buffer', pointer + 1, Len(buffer')) \in Seq(Characters)
      BY <1>1, <1>2, <1>3, <1>4, SliceType
    <2> QED
      BY <1>4, <2>1, <2>2 DEF Unread
  <1>6. Unfinished = r /\ Unfinished' = r
    BY <1>2, <1>3, <1>4 DEF Unfinished, Slice
  <1>7. Len(Unread) <= Len(Unread') /\ SubSeq(Unread', 1, Len(Unread)) = Unread
    BY <1>5
  <1> QED
    BY <1>4, <1>5, <1>6, <1>7 DEF Stream!Arrive, Verdict, Characters

LEMMA WalkTakes ==
    ASSUME IInv, Walk
    PROVE  Stream!Take
  <1>1. p < Len(buffer) /\ At(p) = buffer[p + 1] /\ p \in Nat /\ message \in Nat /\ message <= p
    BY AtPointer DEF IInv, TypeOK, WithinBuffer, Walk
  <1>2. Unread # <<>> /\ Unread[1] = buffer[p + 1] /\ Unread[1] \notin {LF, NUL}
    BY <1>1, LookAhead, AtPointer DEF IInv, Walk
  <1>3. pc = "walking" /\ pc' = "walking" /\ p' = p + 1 /\ UNCHANGED <<buffer, message, line, tooLong>>
    BY DEF Walk
  <1>4. Unread' = Tail(Unread)
    <2>1. SubSeq(buffer, p + 1 + 1, Len(buffer)) = Tail(SubSeq(buffer, p + 1, Len(buffer)))
      BY <1>1, TailOfSlice DEF IInv, TypeOK
    <2> QED
      BY <1>3, <2>1 DEF Unread, Slice
  <1>5. Unfinished' = Append(Unfinished, Unread[1])
    <2>1. SubSeq(buffer, message + 1, p + 1) = Append(SubSeq(buffer, message + 1, p), buffer[p + 1])
      BY <1>1, SliceAppend DEF IInv, TypeOK
    <2> QED
      BY <1>2, <1>3, <2>1 DEF Unfinished, Slice
  <1> QED
    BY <1>2, <1>3, <1>4, <1>5 DEF Stream!Take, Verdict

\* A line that ends in CR is only ended by an LF at the first byte of a read.
LEMMA LonelyLF ==
    ASSUME IInv, pc = "walking", LineEndingLength = 1, Stream!EndsInCR(Unfinished)
    PROVE  SplitEnding
  <1>1. p \in Nat /\ message \in Nat /\ pointer \in Nat /\ message <= p /\ p <= Len(buffer)
    BY DEF IInv, TypeOK, WithinBuffer
  <1>2. /\ Len(Slice(message, p)) = p - message
        /\ \A k \in 1..(p - message) : Slice(message, p)[k] = buffer[message + k]
    BY <1>1, SliceType DEF IInv, TypeOK, Slice
  <1>3. message < p /\ buffer[p] = CR
    <2>1. Slice(message, p) # <<>> /\ Slice(message, p)[p - message] = CR
      BY <1>2 DEF Stream!EndsInCR, Unfinished
    <2>2. p - message # 0
      BY <1>1, <2>1, WholeAndEmpty DEF Slice, IInv, TypeOK
    <2> QED
      BY <1>1, <1>2, <2>1, <2>2
  <1>4. p > 0 /\ At(p - 1) = CR
    BY <1>1, <1>3 DEF At
  <1>5. At(p) = LF
    BY DEF LineEndingLength
  <1>6. pointer <= p
    BY DEF IInv, BehindRemainder
  <1> QED
    BY <1>1, <1>3, <1>4, <1>5, <1>6 DEF SplitEnding, IInv, NoSplitBehind

\* What _ReceiveMessage gets is the unfinished line as it stands.
LEMMA ReceiveMessageHandles ==
    ASSUME IInv, ReceiveMessage
    PROVE  Stream!Handle(Unfinished, LineEndingLength)
  <1> DEFINE e == LineEndingLength
  <1>1. e \in {1, 2} /\ p + e <= Len(buffer) /\ p \in Nat /\ message \in Nat /\ message <= p
    BY AtPointer DEF IInv, TypeOK, WithinBuffer, ReceiveMessage
  <1>2. Len(Unread) = Len(buffer) - p
    BY LookAhead DEF ReceiveMessage
  <1>3. Unfinished = Slice(message, p) /\ Len(Unfinished) = p - message
    BY Bytes DEF ReceiveMessage, Unfinished
  <1>4. ~tooLong /\ pc = "walking" /\ UNCHANGED <<buffer, tooLong>> /\ line' = Unfinished
        /\ p - message + e <= MaxLength
    BY <1>3 DEF IInv, RejectionIsFinal, ReceiveMessage
  <1>5. CASE open'
    <2>1. pc' = "walking" /\ message' = p + e /\ p' = p + e
      BY <1>4, <1>5 DEF ReceiveMessage
    <2>2. Unread' = SubSeq(Unread, e + 1, Len(Unread))
      <3>1. SubSeq(buffer, p + e + 1, Len(buffer)) = SubSeq(SubSeq(buffer, p + 1, Len(buffer)), e + 1, Len(buffer) - p)
        BY <1>1, SliceOfSlice DEF IInv, TypeOK
      <3> HIDE DEF e
      <3> QED
        BY <1>2, <1>4, <2>1, <3>1 DEF Unread, Slice
    <2>3. Unfinished' = <<>>
      <3>1. PICK k \in Nat : k = p + e
        BY <1>1
      <3>2. SubSeq(buffer, k + 1, k) = <<>>
        BY WholeAndEmpty DEF IInv, TypeOK
      <3> QED
        BY <1>4, <2>1, <3>1, <3>2 DEF Unfinished, Slice
    <2> HIDE DEF e
    <2> QED
      BY <1>1, <1>3, <1>4, <2>1, <2>2, <2>3 DEF Stream!Handle, Verdict, e
  <1>6. CASE ~open'
    <2>1. pc' = "returned"
      BY <1>6 DEF ReceiveMessage
    <2>2. Unread' = <<>> /\ Unfinished' = <<>> /\ Verdict' = "closed"
      BY <1>4, <2>1 DEF Unread, Unfinished, Verdict
    <2> HIDE DEF e
    <2> QED
      BY <1>1, <1>3, <1>4, <2>2 DEF Stream!Handle, Verdict, e
  <1> QED
    BY <1>5, <1>6

\* That is the line of the stream, but for the CR of a line ending that was split.
LEMMA ReceiveMessageEndsLine ==
    ASSUME IInv, ReceiveMessage
    PROVE  Stream!EndLine \/ (SplitEnding /\ Stream!KeepCR)
  <1>1. LineEndingLength \in {1, 2} /\ Stream!EndingOf(Unread) = LineEndingLength
    BY AtPointer, LookAhead DEF IInv, ReceiveMessage
  <1>2. Stream!Handle(Unfinished, LineEndingLength)
    BY ReceiveMessageHandles
  <1>3. CASE LineEndingLength = 2
    BY <1>1, <1>2, <1>3 DEF Stream!EndLine
  <1>4. CASE LineEndingLength = 1 /\ ~Stream!EndsInCR(Unfinished)
    BY <1>1, <1>2, <1>4 DEF Stream!EndLine, Stream!Stripped
  <1>5. CASE LineEndingLength = 1 /\ Stream!EndsInCR(Unfinished)
    BY <1>1, <1>2, <1>5, LonelyLF DEF Stream!KeepCR, ReceiveMessage
  <1> QED
    BY <1>1, <1>3, <1>4, <1>5

LEMMA DiscardIsTooLong ==
    ASSUME IInv, DiscardLine \/ DiscardRemainder
    PROVE  Stream!TooLong
  <1>1. pc = "walking" /\ Discard
    BY DEF DiscardLine, DiscardRemainder
  <1>2. Len(Unfinished) = p - message
    BY <1>1, Bytes DEF Unfinished
  <1>3. LineEndingLength \in {0, 1, 2}
    BY AtPointer DEF IInv
  <1>4. Len(Unfinished) + Stream!EndingOf(Unread) > MaxLength \/ Len(Unfinished) >= MaxLength
    BY <1>1, <1>2, <1>3, LookAhead DEF DiscardLine, DiscardRemainder
  <1>5. Unread' = <<>> /\ Unfinished' = <<>> /\ Verdict = "no" /\ Verdict' = "too long" /\ line' = line
    BY <1>1 DEF Discard, Unread, Unfinished, Verdict
  <1> QED
    BY <1>4, <1>5 DEF Stream!TooLong

\* Keeping the remainder is nothing to the stream if all has been looked at.
LEMMA KeepRemainderHides ==
    ASSUME IInv, KeepRemainder
    PROVE  \/ Stream!Hide
           \/ UNCHANGED <<Unread, Unfinished, line, Verdict>>
           \/ Overlap /\ Stream!Garble
  <1>1. pc = "walking" /\ pc' = "reading" /\ UNCHANGED <<line, tooLong>>
        /\ pointer' = p - message /\ p - message < MaxLength
    BY DEF KeepRemainder
  <1>2. Unfinished = Slice(message, p) /\ Len(Unfinished) = p - message
        /\ Unfinished \in Seq(Plain)
    BY <1>1, Bytes DEF Unfinished
  <1>3. Unread' = <<>> /\ (Unread = <<>> \/ Unread[1] = NUL) /\ Verdict = "no" /\ Verdict' = "no"
    BY <1>1, LookAhead DEF Unread, KeepRemainder, Verdict
  <1>4. CASE buffer' = Slice(message, p)
    <2>1. SubSeq(Slice(message, p), 0 + 1, p - message) = Slice(message, p)
      BY <1>2, WholeAndEmpty
    <2>2. Unfinished' = Unfinished
      BY <1>1, <1>2, <1>4, <2>1 DEF Unfinished, Slice
    <2> QED
      BY <1>1, <1>2, <1>3, <2>2 DEF Stream!Hide
  <1>5. CASE Overlap /\ buffer' = CopiedFromEnd
    <2>1. CopiedFromEnd \in [1..(p - message) -> {Unfinished[i] : i \in 1..(p - message)}]
      BY <1>1, <1>2, <1>5, CopiedBytes DEF IInv
    <2>2. CopiedFromEnd \in Seq(Plain) /\ Len(CopiedFromEnd) = p - message
      BY <1>1, <1>2, <1>5, CopiedType DEF IInv
    <2>3. SubSeq(CopiedFromEnd, 0 + 1, p - message) = CopiedFromEnd
      BY <2>2, WholeAndEmpty
    <2>4. Unfinished' = CopiedFromEnd
      BY <1>1, <1>5, <2>3 DEF Unfinished, Slice
    <2> QED
      BY <1>1, <1>2, <1>3, <1>5, <2>1, <2>4 DEF Stream!Garble
  <1> QED
    BY <1>4, <1>5 DEF KeepRemainder

LEMMA StepRefines ==
    IInv /\ [Next]_vars => [\/ Stream!Next
                            \/ SplitEnding /\ Stream!KeepCR
                            \/ Overlap /\ Stream!Garble]_(Stream!vars)
  <1> SUFFICES ASSUME IInv, [Next]_vars
               PROVE  \/ Stream!Next
                      \/ SplitEnding /\ Stream!KeepCR
                      \/ Overlap /\ Stream!Garble
                      \/ UNCHANGED <<Unread, Unfinished, line, Verdict>>
    BY DEF Stream!vars
  <1>1. ASSUME NEW data \in Reads, Receive(data) PROVE Stream!Next
    BY <1>1, ReceiveArrives DEF Stream!Next
  <1>2. CASE ReceiveFails
    BY <1>2 DEF ReceiveFails, Stream!Next, Stream!Fail, Unread, Unfinished, Verdict, IInv, RejectionIsFinal
  <1>3. CASE Disconnect
    BY <1>3 DEF Disconnect, Unread, Unfinished, Verdict, Slice
  <1>4. CASE HandleNewData
    BY <1>4 DEF HandleNewData, Unread, Unfinished, Verdict, Slice
  <1>5. CASE DiscardLine \/ DiscardRemainder
    BY <1>5, DiscardIsTooLong DEF Stream!Next
  <1>6. CASE ReceiveMessage
    BY <1>6, ReceiveMessageEndsLine DEF Stream!Next
  <1>7. CASE Walk
    BY <1>7, WalkTakes DEF Stream!Next
  <1>8. CASE KeepRemainder
    BY <1>8, KeepRemainderHides DEF Stream!Next
  <1>9. CASE UNCHANGED vars
    BY <1>9 DEF vars, Unread, Unfinished, Verdict, Slice
  <1> QED
    BY <1>1, <1>2, <1>3, <1>4, <1>5, <1>6, <1>7, <1>8, <1>9 DEF Next, Turn

LEMMA InitRefines == Init => Stream!Init
  <1> SUFFICES ASSUME Init PROVE Stream!Init
    OBVIOUS
  <1>1. SubSeq(<<>>, 0 + 1, 0) = <<>>
    OBVIOUS
  <1> QED
    BY <1>1 DEF Init, Stream!Init, Unread, Unfinished, Verdict, Slice

\* The lines of a connection are those of its stream, which knows nothing of the
\* reads: a line keeps the CR of its ending only where a read has ended behind
\* it, and nothing but an overlapping memcpy changes a line that has not ended,
\* whose length and characters it leaves it.
THEOREM Refinement == Spec => KeepsLines
  BY InitRefines, StepRefines, Invariance, PTL DEF Spec, KeepsLines

================================================================================
