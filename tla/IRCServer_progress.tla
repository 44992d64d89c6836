--------------------------- MODULE IRCServer_progress --------------------------
(***************************************************************************)
(* What the deadlines of IRCServer are for, proved for any clients: nobody *)
(* who has vanished keeps a nickname, and no client that is shut stays.    *)
(* Both follow a client that gets no more lines from one deadline to the   *)
(* next.  That a handler whose guard holds can run is an assumption here,  *)
(* HandlersCanRun, since ENABLED is beyond the prover; the runs check it.  *)
(***************************************************************************)
EXTENDS IRCServer_proofs

\* Closing the socket completes the read that waits, so no client that is shut is
\* held by one.
ReadsRight == \A c \in NetworkClients : life[c] = "shut" => read[c] \notin {"pending", "hung"}

LEMMA InitReadsRight == Init => ReadsRight
BY DEF Init, ReadsRight

\* Another client can only disconnect this one, by GHOST.
LEMMA OtherClient ==
    ASSUME IInv, ReadsRight, NEW c \in NetworkClients, NEW d \in NetworkClients \ {c}, Step(d)
    PROVE  /\ due'[c] = due[c]
           /\ \/ life'[c] = life[c] /\ read'[c] = read[c] /\ timer'[c] = timer[c]
              \/ life[c] = "open" /\ life'[c] = "shut" /\ read'[c] = Aborted(c) /\ timer'[c] = "None"
<1> USE DEF IInv, TypeOK, ReadsRight, connection, Receive, Queued
<1>1. ASSUME NEW n \in LowerNames, ReceiveCommand_GHOST(d, n)
      PROVE  /\ due'[c] = due[c]
             /\ \/ life'[c] = life[c] /\ read'[c] = read[c] /\ timer'[c] = timer[c]
                \/ life[c] = "open" /\ life'[c] = "shut" /\ read'[c] = Aborted(c) /\ timer'[c] = "None"
  <2> DEFINE t == nicknames[n]
  <2>1. /\ t \in NetworkClients \ {d} /\ UNCHANGED due /\ DisconnectNetworkClient(t)
        /\ read' = [read EXCEPT ![d] = IF life[d] = "open" THEN "pending" ELSE "none", ![t] = Aborted(t)]
    BY <1>1 DEF ReceiveCommand_GHOST
  <2> HIDE DEF t
  <2>2. CASE t # c
    BY <2>1, <2>2 DEF DisconnectNetworkClient
  <2>3. CASE t = c
    <3>1. read'[c] = Aborted(c)
      BY <2>1, <2>3
    <3>2. CASE life[c] = "open"
      BY <2>1, <2>3, <3>1, <3>2 DEF DisconnectNetworkClient
    <3>3. CASE life[c] # "open"
      <4>1. Aborted(c) = read[c]
        BY <3>3 DEF Aborted, UnusedHasNoState
      <4> QED
        BY <2>1, <2>3, <3>1, <3>3, <4>1 DEF DisconnectNetworkClient
    <3> QED
      BY <3>2, <3>3
  <2> QED
    BY <2>2, <2>3
<1>2. CASE HandleReadError(d) \/ HandleSendError(d) \/ InvalidLine(d) \/ ReceiveMessage_QUIT(d)
  BY <1>2 DEF HandleReadError, HandleSendError, InvalidLine, ReceiveMessage_QUIT, DisconnectNetworkClient
<1>3. CASE NickDeadline(d) \/ IdentifyDeadline(d) \/ PongDeadline(d)
  BY <1>3 DEF NickDeadline, IdentifyDeadline, PongDeadline, EndConnection, DisconnectNetworkClient
<1>4. CASE Quiet(d)
  <2>1. CASE HandleNewConnection(d) \/ PeerActs(d) \/ Reply(d) \/ PartialLine(d)
    BY <2>1 DEF HandleNewConnection, PeerActs, Reply, PartialLine
  <2>2. CASE (\E n \in Names : NickWithoutEntry(d, n)) \/ UseFreedClient(d)
    BY <2>2 DEF NickWithoutEntry, UseFreedClient
  <2>3. CASE ReceiveMessage_PONG(d) \/ TimerExpires(d) \/ PingDeadline(d)
    BY <2>3 DEF ReceiveMessage_PONG, TimerExpires, PingDeadline
  <2> QED
    BY <1>4, <2>1, <2>2, <2>3 DEF Quiet
<1>5. CASE \/ \E n \in Names : ReceiveMessage_NICK(d, n)
           \/ ReceiveMessage_USER(d) \/ ReceiveCommand_IDENTIFY(d)
  BY <1>5 DEF ReceiveMessage_NICK, ReceiveMessage_USER, ReceiveCommand_IDENTIFY, CheckForPresetNickname
<1>6. CASE \/ \E chs \in SUBSET Channels : ReceiveMessage_JOIN(d, chs)
           \/ ReceiveMessage_JOIN0(d)
           \/ \E list \in ChannelLists : ReceiveMessage_PART(d, list)
  BY <1>6 DEF ReceiveMessage_JOIN, ReceiveMessage_JOIN0, ReceiveMessage_PART
<1> QED
  BY <1>1, <1>2, <1>3, <1>4, <1>5, <1>6, StepKinds DEF Ends

\* A line of the client itself either ends the process or leaves no completed
\* read behind, on a socket that is open or was shut before.
LEMMA OwnLine ==
    ASSUME IInv, NEW c \in NetworkClients, HandleNewData(c)
    PROVE  /\ read[c] = "ready"
           /\ \/ crashed' = TRUE /\ UNCHANGED connection
              \/ life'[c] = "shut" /\ read'[c] \in {"none", "failed"}
              \/ life'[c] = life[c] /\ read'[c] = IF life[c] = "open" THEN "pending" ELSE "none"
           /\ life[c] = "shut" => life'[c] = "shut"
<1> USE DEF IInv, TypeOK, Receive, Queued
<1>1. CASE Reply(c) \/ ReceiveMessage_USER(c) \/ ReceiveMessage_PONG(c) \/ ReceiveCommand_IDENTIFY(c)
  BY <1>1 DEF Reply, ReceiveMessage_USER, ReceiveMessage_PONG, ReceiveCommand_IDENTIFY
<1>2. CASE PartialLine(c)
  <2>1. read[c] = "ready" /\ life' = life
    BY <1>2 DEF PartialLine
  <2>2. life[c] \in {"open", "shut"}
    BY <2>1 DEF UnusedHasNoState
  <2>3. read'[c] = IF life[c] = "open" THEN "pending" ELSE "failed"
    BY <1>2 DEF PartialLine
  <2>4. CASE life[c] = "open"
    BY <2>1, <2>3, <2>4
  <2>5. CASE life[c] = "shut"
    BY <2>1, <2>3, <2>5
  <2> QED
    BY <2>2, <2>4, <2>5
<1>3. CASE InvalidLine(c) \/ ReceiveMessage_QUIT(c)
  BY <1>3 DEF InvalidLine, ReceiveMessage_QUIT, DisconnectNetworkClient, UnusedHasNoState
<1>4. CASE (\E n \in Names : NickWithoutEntry(c, n)) \/ UseFreedClient(c)
  BY <1>4 DEF NickWithoutEntry, UseFreedClient, connection
<1>5. CASE \/ \E n \in Names : ReceiveMessage_NICK(c, n)
           \/ \E chs \in SUBSET Channels : ReceiveMessage_JOIN(c, chs)
           \/ ReceiveMessage_JOIN0(c)
           \/ \E list \in ChannelLists : ReceiveMessage_PART(c, list)
  BY <1>5 DEF ReceiveMessage_NICK, ReceiveMessage_JOIN, ReceiveMessage_JOIN0, ReceiveMessage_PART
<1>6. CASE \E n \in LowerNames : ReceiveCommand_GHOST(c, n)
  <2>1. PICK t \in NetworkClients \ {c} :
           /\ DisconnectNetworkClient(t)
           /\ read' = [read EXCEPT ![c] = IF life[c] = "open" THEN "pending" ELSE "none", ![t] = Aborted(t)]
    BY <1>6 DEF ReceiveCommand_GHOST
  <2>2. read'[c] = (IF life[c] = "open" THEN "pending" ELSE "none") /\ life'[c] = life[c]
    BY <2>1 DEF DisconnectNetworkClient
  <2>3. read[c] = "ready"
    BY <1>6 DEF ReceiveCommand_GHOST
  <2> QED
    BY <2>2, <2>3
<1> QED
  BY <1>1, <1>2, <1>3, <1>4, <1>5, <1>6 DEF HandleNewData

(***************************************************************************)
(* A client without a line to come: its deadlines go their way, unless the *)
(* connection ends.                                                        *)
(***************************************************************************)
Silent(c) == life[c] # "unused" /\ read[c] \in {"none", "hung"}

\* What can become of the timer and the handler that is due.
Ticks(c) ==
    \/ timer'[c] = timer[c] /\ due'[c] = due[c]
    \/ timer[c] # "None" /\ due[c] = "None" /\ due'[c] = timer[c] /\ timer'[c] = "None"
    \/ due[c] = "Ping" /\ due'[c] = "None" /\ timer'[c] = "Pong"
    \/ /\ life[c] = "shut" /\ due[c] \notin {"None", "Ping"}
       /\ due'[c] = "None" /\ timer'[c] = timer[c]

Ended(c) == life[c] = "open" /\ life'[c] = "shut"
Stays(c) == life'[c] = life[c] /\ read'[c] = read[c]

LEMMA TimerStep ==
    ASSUME IInv, NEW c \in NetworkClients, Silent(c)
    PROVE  /\ TimerExpires(c) => /\ Stays(c) /\ timer[c] # "None" /\ due[c] = "None"
                                 /\ due'[c] = timer[c] /\ timer'[c] = "None"
           /\ Deadline(c) =>
                 /\ due'[c] = "None"
                 /\ due[c] = "Ping" => Stays(c) /\ timer'[c] = "Pong"
                 /\ due[c] # "Ping" =>
                       /\ due[c] # "None"
                       /\ Ended(c) \/ (life[c] = "shut" /\ life'[c] = "shut" /\ timer'[c] = timer[c])
           /\ Deadline(c) /\ read[c] = "none" => read'[c] = "none"
<1> USE DEF IInv, TypeOK, Silent, Stays, Ended
<1>1. ASSUME TimerExpires(c)
      PROVE  /\ Stays(c) /\ timer[c] # "None" /\ due[c] = "None"
             /\ due'[c] = timer[c] /\ timer'[c] = "None"
  BY <1>1 DEF TimerExpires
<1>2. ASSUME PingDeadline(c)
      PROVE  Stays(c) /\ due[c] = "Ping" /\ due'[c] = "None" /\ timer'[c] = "Pong"
  BY <1>2 DEF PingDeadline
<1>3. ASSUME NEW deadline \in {"Nick", "Identify", "Pong"}, EndConnection(c, deadline)
      PROVE  /\ due[c] = deadline /\ due'[c] = "None"
             /\ Ended(c) \/ (life[c] = "shut" /\ life'[c] = "shut" /\ timer'[c] = timer[c])
             /\ read[c] = "none" => read'[c] = "none"
  <2>1. /\ due[c] = deadline /\ due'[c] = "None" /\ read'[c] = Aborted(c)
        /\ DisconnectNetworkClient(c)
    BY <1>3 DEF EndConnection
  <2>2. CASE life[c] = "open"
    BY <2>1, <2>2 DEF DisconnectNetworkClient, Aborted
  <2>3. CASE life[c] = "shut"
    BY <2>1, <2>3 DEF DisconnectNetworkClient, Aborted
  <2> QED
    BY <2>2, <2>3
<1>4. Deadline(c) => PingDeadline(c) \/ \E deadline \in {"Nick", "Identify", "Pong"} : EndConnection(c, deadline)
  BY DEF Deadline, NickDeadline, IdentifyDeadline, PongDeadline
<1> QED
  BY <1>1, <1>2, <1>3, <1>4

LEMMA SilentStep ==
    ASSUME IInv, ReadsRight, NEW c \in NetworkClients, Silent(c), [Next]_vars
    PROVE  Ended(c) \/ (Stays(c) /\ Ticks(c))
<1> USE DEF IInv, TypeOK, Silent, Stays, Ended, Ticks
<1>1. CASE UNCHANGED vars
  BY <1>1 DEF vars, connection
<1>2. ASSUME NEW d \in NetworkClients \ {c}, Step(d)
      PROVE  Ended(c) \/ (Stays(c) /\ Ticks(c))
  BY <1>2, OtherClient
<1>3. ASSUME Step(c)
      PROVE  Ended(c) \/ (Stays(c) /\ Ticks(c))
  <2>1. ~HandleNewConnection(c) /\ ~PeerActs(c) /\ ~HandleReadError(c) /\ ~HandleNewData(c)
    BY OwnLine DEF HandleNewConnection, PeerActs, HandleReadError, Queued
  <2>2. CASE HandleSendError(c)
    BY <2>2 DEF HandleSendError, DisconnectNetworkClient
  <2>3. CASE TimerExpires(c)
    BY <2>3, TimerStep
  <2>4. CASE Deadline(c)
    <3>1. CASE due[c] = "Ping"
      BY <2>4, <3>1, TimerStep
    <3>2. CASE due[c] # "Ping" /\ life[c] = "open"
      BY <2>4, <3>2, TimerStep
    <3>3. CASE due[c] # "Ping" /\ life[c] = "shut"
      <4>1. read[c] = "none"
        BY <3>3 DEF ReadsRight
      <4> QED
        BY <2>4, <3>3, <4>1, TimerStep
    <3> QED
      BY <3>1, <3>2, <3>3
  <2> QED
    BY <1>3, <2>1, <2>2, <2>3, <2>4 DEF Step
<1> QED
  BY <1>1, <1>2, <1>3 DEF Next

\* A client that is shut stays so, and its read only gets nearer to the end.
LEMMA ShutStep ==
    ASSUME IInv, ReadsRight, NEW c \in NetworkClients, life[c] = "shut", [Next]_vars
    PROVE  /\ life'[c] = "shut"
           /\ \/ crashed' = TRUE
              \/ read'[c] = read[c]
              \/ read[c] = "ready" /\ read'[c] \in {"none", "failed"}
              \/ read[c] = "failed" /\ read'[c] = "none"
<1> USE DEF IInv, TypeOK, ReadsRight
<1>1. CASE UNCHANGED vars
  BY <1>1 DEF vars, connection
<1>2. ASSUME NEW d \in NetworkClients \ {c}, Step(d)
      PROVE  life'[c] = "shut" /\ read'[c] = read[c]
  BY <1>2, OtherClient
<1>3. CASE HandleNewData(c)
  BY <1>3, OwnLine
<1>4. CASE HandleReadError(c)
  BY <1>4 DEF HandleReadError, Queued, DisconnectNetworkClient
<1>5. CASE HandleNewConnection(c) \/ PeerActs(c) \/ HandleSendError(c) \/ TimerExpires(c)
  BY <1>5 DEF HandleNewConnection, PeerActs, HandleSendError, TimerExpires
<1>6. CASE Deadline(c)
  <2>1. CASE PingDeadline(c)
    BY <2>1 DEF PingDeadline
  <2>2. ASSUME NEW deadline, EndConnection(c, deadline)
        PROVE  life'[c] = "shut" /\ read'[c] = read[c]
    BY <2>2 DEF EndConnection, DisconnectNetworkClient, Aborted
  <2> QED
    BY <1>6, <2>1, <2>2 DEF Deadline, NickDeadline, IdentifyDeadline, PongDeadline
<1>7. ASSUME Step(c)
      PROVE  /\ life'[c] = "shut"
             /\ \/ crashed' = TRUE
                \/ read'[c] = read[c]
                \/ read[c] = "ready" /\ read'[c] \in {"none", "failed"}
                \/ read[c] = "failed" /\ read'[c] = "none"
  BY <1>3, <1>4, <1>5, <1>6, <1>7 DEF Step
<1> QED
  BY <1>1, <1>2, <1>7 DEF Next

LEMMA ReadsRightStep ==
    ASSUME IInv, ReadsRight, [Next]_vars
    PROVE  ReadsRight'
<1> USE DEF IInv, TypeOK, ReadsRight
<1> SUFFICES ASSUME NEW c \in NetworkClients, life'[c] = "shut"
             PROVE  read'[c] \notin {"pending", "hung"}
  OBVIOUS
<1>1. CASE UNCHANGED vars
  BY <1>1 DEF vars, connection
<1>2. ASSUME NEW d \in NetworkClients \ {c}, Step(d)
      PROVE  read'[c] \notin {"pending", "hung"}
  BY <1>2, OtherClient DEF Aborted
<1>3. CASE HandleNewData(c)
  BY <1>3, OwnLine DEF connection
<1>4. CASE HandleReadError(c) \/ HandleSendError(c)
  BY <1>4 DEF HandleReadError, HandleSendError, Aborted
<1>5. CASE HandleNewConnection(c) \/ PeerActs(c) \/ TimerExpires(c)
  BY <1>5 DEF HandleNewConnection, PeerActs, TimerExpires
<1>6. CASE Deadline(c)
  BY <1>6 DEF Deadline, NickDeadline, IdentifyDeadline, PongDeadline, PingDeadline, EndConnection, Aborted
<1>7. ASSUME Step(c)
      PROVE  read'[c] \notin {"pending", "hung"}
  BY <1>3, <1>4, <1>5, <1>6, <1>7 DEF Step
<1> QED
  BY <1>1, <1>2, <1>7 DEF Next

\* The read of a shut client, and then its deadlines.
Reading(c) == life[c] = "shut" /\ read[c] = "ready"
Failing(c) == life[c] = "shut" /\ read[c] = "failed"
Drained(c) == life[c] = "shut" /\ read[c] = "none"

\* A peer that is gone without a trace, at the other end of an open connection.
Hung(c) == life[c] = "open" /\ read[c] = "hung"

Endings == Deadlines \ {"Ping"}

PingSet(c) == timer[c] = "Ping" /\ due[c] = "None"
PingDue(c) == due[c] = "Ping"
EndSet(c)  == timer[c] \in Endings /\ due[c] = "None"
EndDue(c)  == due[c] \in Endings

\* How far a shut client that reads no more is from its end: a handler of a
\* deadline that ends it may be due, and the ping timer armed behind it.
ShutBeforePing(c)  == Drained(c) /\ EndDue(c) /\ timer[c] = "Ping"
ShutAndPingSet(c)  == Drained(c) /\ PingSet(c)
ShutAndOneDue(c)   == Drained(c) /\ (PingDue(c) \/ (EndDue(c) /\ timer[c] \in Endings))
ShutAndEndSet(c)   == Drained(c) /\ EndSet(c)
ShutAndEndDue(c)   == Drained(c) /\ EndDue(c) /\ timer[c] = "None"

\* How far one with a silent peer is from its disconnection.
HungAndPingSet(c) == Hung(c) /\ PingSet(c)
HungAndPingDue(c) == Hung(c) /\ PingDue(c)
HungAndEndSet(c)  == Hung(c) /\ EndSet(c)
HungAndEndDue(c)  == Hung(c) /\ EndDue(c)
Lost(c) == life[c] = "shut"

\* From each of these states a client gets to the next one, or stays in it.
LEMMA StatesOfReading ==
    ASSUME IInv, ReadsRight, NEW c \in NetworkClients, [Next]_vars
    PROVE  /\ Reading(c) => Reading(c)' \/ Failing(c)' \/ Drained(c)' \/ crashed'
           /\ Failing(c) => Failing(c)' \/ Drained(c)' \/ crashed'
<1>1. CASE life[c] = "shut"
  BY <1>1, ShutStep DEF Reading, Failing, Drained
<1>2. CASE life[c] # "shut"
  BY <1>2 DEF Reading, Failing
<1> QED
  BY <1>1, <1>2

LEMMA StepsOfReading ==
    ASSUME IInv, ReadsRight, NEW c \in NetworkClients
    PROVE  /\ Reading(c) /\ <<HandleNewData(c)>>_vars => Failing(c)' \/ Drained(c)' \/ crashed'
           /\ Failing(c) /\ <<HandleReadError(c)>>_vars => Drained(c)'
<1>1. Reading(c) /\ HandleNewData(c) => Failing(c)' \/ Drained(c)' \/ crashed'
  BY OwnLine DEF Reading, Failing, Drained
<1>2. Failing(c) /\ HandleReadError(c) => Drained(c)'
  BY DEF Failing, Drained, HandleReadError, DisconnectNetworkClient, IInv, TypeOK
<1> QED
  BY <1>1, <1>2

LEMMA StatesOfShut ==
    ASSUME IInv, ReadsRight, NEW c \in NetworkClients, [Next]_vars
    PROVE  /\ ShutBeforePing(c) => ShutBeforePing(c)' \/ ShutAndPingSet(c)'
           /\ ShutAndPingSet(c) => ShutAndPingSet(c)' \/ ShutAndOneDue(c)'
           /\ ShutAndOneDue(c)  => ShutAndOneDue(c)' \/ ShutAndEndSet(c)'
           /\ ShutAndEndSet(c)  => ShutAndEndSet(c)' \/ ShutAndEndDue(c)'
           /\ ShutAndEndDue(c)  => ShutAndEndDue(c)' \/ Released(c)'
<1>1. CASE Drained(c)
  <2>1. Stays(c) /\ Ticks(c)
    BY <1>1, SilentStep DEF Silent, Drained, Ended
  <2> QED
    BY <1>1, <2>1 DEF Stays, Ticks, Drained, Released, ShutBeforePing, ShutAndPingSet, ShutAndOneDue,
       ShutAndEndSet, ShutAndEndDue, PingSet, PingDue, EndSet, EndDue, Endings, Deadlines, IInv, TypeOK
<1>2. CASE ~Drained(c)
  BY <1>2 DEF ShutBeforePing, ShutAndPingSet, ShutAndOneDue, ShutAndEndSet, ShutAndEndDue
<1> QED
  BY <1>1, <1>2

LEMMA StepsOfShut ==
    ASSUME IInv, ReadsRight, NEW c \in NetworkClients
    PROVE  /\ ShutBeforePing(c) /\ <<Deadline(c)>>_vars => ShutAndPingSet(c)'
           /\ ShutAndPingSet(c) /\ <<TimerExpires(c)>>_vars => ShutAndOneDue(c)'
           /\ ShutAndOneDue(c) /\ <<Deadline(c)>>_vars => ShutAndEndSet(c)'
           /\ ShutAndEndSet(c) /\ <<TimerExpires(c)>>_vars => ShutAndEndDue(c)'
           /\ ShutAndEndDue(c) /\ <<Deadline(c)>>_vars => Released(c)'
<1>1. CASE Drained(c)
  <2>1. TimerExpires(c) => /\ Drained(c)' /\ due'[c] = timer[c] /\ timer'[c] = "None"
    BY <1>1, TimerStep DEF Drained, Silent, Stays
  <2>2. Deadline(c) =>
           /\ Drained(c)' /\ due'[c] = "None"
           /\ timer'[c] = IF due[c] = "Ping" THEN "Pong" ELSE timer[c]
    BY <1>1, TimerStep DEF Drained, Silent, Stays, Ended
  <2> QED
    BY <2>1, <2>2 DEF Drained, Released, ShutBeforePing, ShutAndPingSet, ShutAndOneDue,
       ShutAndEndSet, ShutAndEndDue, PingSet, PingDue, EndSet, EndDue, Endings, Deadlines
<1>2. CASE ~Drained(c)
  BY <1>2 DEF ShutBeforePing, ShutAndPingSet, ShutAndOneDue, ShutAndEndSet, ShutAndEndDue
<1> QED
  BY <1>1, <1>2

LEMMA StatesOfHung ==
    ASSUME IInv, ReadsRight, NEW c \in NetworkClients, [Next]_vars
    PROVE  /\ HungAndPingSet(c) => HungAndPingSet(c)' \/ HungAndPingDue(c)' \/ Lost(c)'
           /\ HungAndPingDue(c) => HungAndPingDue(c)' \/ HungAndEndSet(c)' \/ Lost(c)'
           /\ HungAndEndSet(c)  => HungAndEndSet(c)' \/ HungAndEndDue(c)' \/ Lost(c)'
           /\ HungAndEndDue(c)  => HungAndEndDue(c)' \/ Lost(c)'
<1>1. CASE Hung(c) /\ ~Lost(c)'
  <2>1. Stays(c) /\ Ticks(c)
    BY <1>1, SilentStep DEF Silent, Hung, Ended, Lost
  <2> QED
    BY <1>1, <2>1 DEF Stays, Ticks, Hung, HungAndPingSet, HungAndPingDue, HungAndEndSet, HungAndEndDue,
       PingSet, PingDue, EndSet, EndDue, Endings, Deadlines, IInv, TypeOK
<1>2. CASE ~Hung(c) \/ Lost(c)'
  BY <1>2 DEF HungAndPingSet, HungAndPingDue, HungAndEndSet, HungAndEndDue
<1> QED
  BY <1>1, <1>2

LEMMA StepsOfHung ==
    ASSUME IInv, ReadsRight, NEW c \in NetworkClients
    PROVE  /\ HungAndPingSet(c) /\ <<TimerExpires(c)>>_vars => HungAndPingDue(c)'
           /\ HungAndPingDue(c) /\ <<Deadline(c)>>_vars => HungAndEndSet(c)'
           /\ HungAndEndSet(c) /\ <<TimerExpires(c)>>_vars => HungAndEndDue(c)'
           /\ HungAndEndDue(c) /\ <<Deadline(c)>>_vars => Lost(c)'
<1>1. CASE Hung(c)
  <2>1. TimerExpires(c) => /\ Hung(c)' /\ due'[c] = timer[c] /\ timer'[c] = "None"
    BY <1>1, TimerStep DEF Hung, Silent, Stays
  <2>2. Deadline(c) => IF due[c] = "Ping" THEN Hung(c)' /\ due'[c] = "None" /\ timer'[c] = "Pong"
                                          ELSE Lost(c)'
    BY <1>1, TimerStep DEF Hung, Silent, Stays, Ended, Lost
  <2> QED
    BY <2>1, <2>2 DEF HungAndPingSet, HungAndPingDue, HungAndEndSet, HungAndEndDue,
       PingSet, PingDue, EndSet, EndDue, Endings, Deadlines
<1>2. CASE ~Hung(c)
  BY <1>2 DEF HungAndPingSet, HungAndPingDue, HungAndEndSet, HungAndEndDue
<1> QED
  BY <1>1, <1>2

LEMMA ReadsAreRight == Spec => []ReadsRight
<1>1. IInv /\ ReadsRight /\ [Next]_vars => ReadsRight'
  BY ReadsRightStep
<1> QED
  BY <1>1, InitReadsRight, Invariance, PTL DEF Spec

\* What the fairness of a handler needs: it can run in every one of the states.
LEMMA CanRun ==
    ASSUME HandlersCanRun, NEW c \in NetworkClients
    PROVE  /\ Reading(c) => crashed \/ ENABLED <<HandleNewData(c)>>_vars
           /\ Failing(c) => crashed \/ ENABLED <<HandleReadError(c)>>_vars
           /\ ShutAndPingSet(c) \/ ShutAndEndSet(c) \/ HungAndPingSet(c) \/ HungAndEndSet(c)
                 => crashed \/ ENABLED <<TimerExpires(c)>>_vars
           /\ ShutBeforePing(c) \/ ShutAndOneDue(c) \/ ShutAndEndDue(c) \/ HungAndPingDue(c) \/ HungAndEndDue(c)
                 => crashed \/ ENABLED <<Deadline(c)>>_vars
BY DEF HandlersCanRun, Reading, Failing, ShutAndPingSet, ShutAndEndSet, HungAndPingSet, HungAndEndSet,
   ShutBeforePing, ShutAndOneDue, ShutAndEndDue, HungAndPingDue, HungAndEndDue,
   PingSet, PingDue, EndSet, EndDue, Endings, Deadlines

\* The states of a shut client, and of one that hangs, are all named above.
LEMMA AllStates ==
    ASSUME IInv, ReadsRight, NEW c \in NetworkClients
    PROVE  /\ life[c] = "shut" => Reading(c) \/ Failing(c) \/ Drained(c)
           /\ Drained(c) => \/ ShutBeforePing(c) \/ ShutAndPingSet(c) \/ ShutAndOneDue(c)
                            \/ ShutAndEndSet(c) \/ ShutAndEndDue(c) \/ Released(c)
           /\ read[c] = "hung" => \/ HungAndPingSet(c) \/ HungAndPingDue(c)
                                  \/ HungAndEndSet(c) \/ HungAndEndDue(c)
           /\ Lost(c) => (\A n \in LowerNames : nicknames[n] # c) \/ c \in stray
<1> USE DEF IInv, TypeOK, Deadlines, Endings, PingSet, PingDue, EndSet, EndDue
<1>1. life[c] = "shut" => Reading(c) \/ Failing(c) \/ Drained(c)
  BY DEF ReadsRight, ReadStates, Reading, Failing, Drained
<1>2. Drained(c) => \/ ShutBeforePing(c) \/ ShutAndPingSet(c) \/ ShutAndOneDue(c)
                    \/ ShutAndEndSet(c) \/ ShutAndEndDue(c) \/ Released(c)
  BY DEF Drained, Released, ShutBeforePing, ShutAndPingSet, ShutAndOneDue, ShutAndEndSet, ShutAndEndDue
<1>3. ASSUME read[c] = "hung"
      PROVE  \/ HungAndPingSet(c) \/ HungAndPingDue(c)
             \/ HungAndEndSet(c) \/ HungAndEndDue(c)
  <2>1. life[c] = "open"
    BY <1>3 DEF ReadsRight, UnusedHasNoState
  <2>2. timer[c] # "None" \/ due[c] # "None"
    BY <2>1 DEF DeadlineAhead
  <2> QED
    BY <1>3, <2>1, <2>2 DEF Hung, HungAndPingSet, HungAndPingDue, HungAndEndSet, HungAndEndDue
<1>4. Lost(c) => (\A n \in LowerNames : nicknames[n] # c) \/ c \in stray
  BY DEF Lost, RegistrySound
<1> QED
  BY <1>1, <1>2, <1>3, <1>4

\* A client that is shut is freed in the end, whatever its last handlers still do:
\* its read completes, and of the deadlines a ping is the last to arm another.
THEOREM ShutClientsReleased == FairSpec /\ []HandlersCanRun => ShutIsReleased
<1> SUFFICES ASSUME NEW c \in NetworkClients
             PROVE  FairSpec /\ []HandlersCanRun => (life[c] = "shut" ~> Released(c) \/ crashed)
  BY DEF ShutIsReleased
<1>1. IInv /\ ReadsRight /\ [Next]_vars =>
         /\ Reading(c) => Reading(c)' \/ Failing(c)' \/ Drained(c)' \/ crashed'
         /\ Failing(c) => Failing(c)' \/ Drained(c)' \/ crashed'
  BY StatesOfReading
<1>2. IInv /\ ReadsRight =>
         /\ Reading(c) /\ <<HandleNewData(c)>>_vars => Failing(c)' \/ Drained(c)' \/ crashed'
         /\ Failing(c) /\ <<HandleReadError(c)>>_vars => Drained(c)'
  BY StepsOfReading
<1>3. IInv /\ ReadsRight /\ [Next]_vars =>
         /\ ShutBeforePing(c) => ShutBeforePing(c)' \/ ShutAndPingSet(c)'
         /\ ShutAndPingSet(c) => ShutAndPingSet(c)' \/ ShutAndOneDue(c)'
         /\ ShutAndOneDue(c)  => ShutAndOneDue(c)' \/ ShutAndEndSet(c)'
         /\ ShutAndEndSet(c)  => ShutAndEndSet(c)' \/ ShutAndEndDue(c)'
         /\ ShutAndEndDue(c)  => ShutAndEndDue(c)' \/ Released(c)'
  BY StatesOfShut
<1>4. IInv /\ ReadsRight =>
         /\ ShutBeforePing(c) /\ <<Deadline(c)>>_vars => ShutAndPingSet(c)'
         /\ ShutAndPingSet(c) /\ <<TimerExpires(c)>>_vars => ShutAndOneDue(c)'
         /\ ShutAndOneDue(c) /\ <<Deadline(c)>>_vars => ShutAndEndSet(c)'
         /\ ShutAndEndSet(c) /\ <<TimerExpires(c)>>_vars => ShutAndEndDue(c)'
         /\ ShutAndEndDue(c) /\ <<Deadline(c)>>_vars => Released(c)'
  BY StepsOfShut
<1>5. HandlersCanRun =>
         /\ Reading(c) => crashed \/ ENABLED <<HandleNewData(c)>>_vars
         /\ Failing(c) => crashed \/ ENABLED <<HandleReadError(c)>>_vars
         /\ ShutAndPingSet(c) \/ ShutAndEndSet(c) => crashed \/ ENABLED <<TimerExpires(c)>>_vars
         /\ ShutBeforePing(c) \/ ShutAndOneDue(c) \/ ShutAndEndDue(c)
               => crashed \/ ENABLED <<Deadline(c)>>_vars
  BY CanRun
<1>6. IInv /\ ReadsRight =>
         /\ life[c] = "shut" => Reading(c) \/ Failing(c) \/ Drained(c)
         /\ Drained(c) => \/ ShutBeforePing(c) \/ ShutAndPingSet(c) \/ ShutAndOneDue(c)
                          \/ ShutAndEndSet(c) \/ ShutAndEndDue(c) \/ Released(c)
  BY AllStates
<1>7. Fairness => FairTo(c)
  BY DEF Fairness
<1>8. /\ FairSpec /\ []HandlersCanRun => (Reading(c) ~> Failing(c) \/ Drained(c) \/ crashed)
      /\ FairSpec /\ []HandlersCanRun => (Failing(c) ~> Drained(c) \/ crashed)
  BY <1>1, <1>2, <1>5, <1>7, Invariance, ReadsAreRight, PTL DEF FairSpec, Spec, FairTo
<1>9. /\ FairSpec /\ []HandlersCanRun => (ShutBeforePing(c) ~> ShutAndPingSet(c) \/ crashed)
      /\ FairSpec /\ []HandlersCanRun => (ShutAndPingSet(c) ~> ShutAndOneDue(c) \/ crashed)
      /\ FairSpec /\ []HandlersCanRun => (ShutAndOneDue(c) ~> ShutAndEndSet(c) \/ crashed)
  BY <1>3, <1>4, <1>5, <1>7, Invariance, ReadsAreRight, PTL DEF FairSpec, Spec, FairTo
<1>10. /\ FairSpec /\ []HandlersCanRun => (ShutAndEndSet(c) ~> ShutAndEndDue(c) \/ crashed)
       /\ FairSpec /\ []HandlersCanRun => (ShutAndEndDue(c) ~> Released(c) \/ crashed)
  BY <1>3, <1>4, <1>5, <1>7, Invariance, ReadsAreRight, PTL DEF FairSpec, Spec, FairTo
<1> QED
  BY <1>6, <1>8, <1>9, <1>10, Invariance, ReadsAreRight, PTL DEF FairSpec

\* A peer that vanishes without a trace is disconnected in the end, and nothing
\* is registered for it any more: the ping it does not answer, or the deadline for
\* its registration or identification, catches it wherever it was.
THEOREM NicknamesReclaimed == FairSpec /\ []HandlersCanRun => NicknameReclaimed
<1> SUFFICES ASSUME NEW c \in NetworkClients
             PROVE  FairSpec /\ []HandlersCanRun =>
                       (read[c] = "hung" ~> \/ life[c] = "shut" /\ \A n \in LowerNames : nicknames[n] # c
                                            \/ crashed \/ c \in stray)
  BY DEF NicknameReclaimed
<1>1. IInv /\ ReadsRight /\ [Next]_vars =>
         /\ HungAndPingSet(c) => HungAndPingSet(c)' \/ HungAndPingDue(c)' \/ Lost(c)'
         /\ HungAndPingDue(c) => HungAndPingDue(c)' \/ HungAndEndSet(c)' \/ Lost(c)'
         /\ HungAndEndSet(c)  => HungAndEndSet(c)' \/ HungAndEndDue(c)' \/ Lost(c)'
         /\ HungAndEndDue(c)  => HungAndEndDue(c)' \/ Lost(c)'
  BY StatesOfHung
<1>2. IInv /\ ReadsRight =>
         /\ HungAndPingSet(c) /\ <<TimerExpires(c)>>_vars => HungAndPingDue(c)'
         /\ HungAndPingDue(c) /\ <<Deadline(c)>>_vars => HungAndEndSet(c)'
         /\ HungAndEndSet(c) /\ <<TimerExpires(c)>>_vars => HungAndEndDue(c)'
         /\ HungAndEndDue(c) /\ <<Deadline(c)>>_vars => Lost(c)'
  BY StepsOfHung
<1>3. HandlersCanRun =>
         /\ HungAndPingSet(c) \/ HungAndEndSet(c) => crashed \/ ENABLED <<TimerExpires(c)>>_vars
         /\ HungAndPingDue(c) \/ HungAndEndDue(c) => crashed \/ ENABLED <<Deadline(c)>>_vars
  BY CanRun
<1>4. IInv /\ ReadsRight =>
         /\ read[c] = "hung" => \/ HungAndPingSet(c) \/ HungAndPingDue(c)
                                \/ HungAndEndSet(c) \/ HungAndEndDue(c)
         /\ Lost(c) => (life[c] = "shut" /\ \A n \in LowerNames : nicknames[n] # c) \/ c \in stray
  BY AllStates DEF Lost
<1>5. Fairness => FairTo(c)
  BY DEF Fairness
<1>6. /\ FairSpec /\ []HandlersCanRun => (HungAndPingSet(c) ~> HungAndPingDue(c) \/ Lost(c) \/ crashed)
      /\ FairSpec /\ []HandlersCanRun => (HungAndPingDue(c) ~> HungAndEndSet(c) \/ Lost(c) \/ crashed)
  BY <1>1, <1>2, <1>3, <1>5, Invariance, ReadsAreRight, PTL DEF FairSpec, Spec, FairTo
<1>7. /\ FairSpec /\ []HandlersCanRun => (HungAndEndSet(c) ~> HungAndEndDue(c) \/ Lost(c) \/ crashed)
      /\ FairSpec /\ []HandlersCanRun => (HungAndEndDue(c) ~> Lost(c) \/ crashed)
  BY <1>1, <1>2, <1>3, <1>5, Invariance, ReadsAreRight, PTL DEF FairSpec, Spec, FairTo
<1> QED
  BY <1>4, <1>6, <1>7, Invariance, ReadsAreRight, PTL DEF FairSpec

================================================================================
