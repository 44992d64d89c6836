---------------------------- MODULE IRCServer_proofs ---------------------------
(***************************************************************************)
(* The safety properties of IRCServer, proved for every set of clients,    *)
(* nicknames and channels.                                                 *)
(***************************************************************************)
EXTENDS IRCServer, TLAPS

\* Disconnecting a client preserves the types, whoever does it.
LEMMA DisconnectType ==
    ASSUME TypeOK, NEW c \in NetworkClients, DisconnectNetworkClient(c)
    PROVE  /\ life' \in [NetworkClients -> {"unused", "open", "shut"}]
           /\ timer' \in [NetworkClients -> Deadlines \cup {"None"}]
           /\ status' \in [NetworkClients -> [Channels -> ClientStatus \cup {"Absent"}]]
           /\ nicknames' \in [LowerNames -> Clients \cup {NoClient}]
<1> USE DEF TypeOK, DisconnectNetworkClient, LeaveServer
<1>1. life' \in [NetworkClients -> {"unused", "open", "shut"}]
  OBVIOUS
<1>2. timer' \in [NetworkClients -> Deadlines \cup {"None"}]
  OBVIOUS
<1>3. status' \in [NetworkClients -> [Channels -> ClientStatus \cup {"Absent"}]]
  OBVIOUS
<1>4. nicknames' \in [LowerNames -> Clients \cup {NoClient}]
  OBVIOUS
<1> QED
  BY <1>1, <1>2, <1>3, <1>4

LEMMA TypeStep ==
    ASSUME TypeOK, [Next]_vars
    PROVE  TypeOK'
<1> USE DEF TypeOK
<1>1. CASE UNCHANGED vars
  BY <1>1 DEF vars, connection, userState, membership
<1>2. ASSUME NEW c \in NetworkClients, Step(c)
      PROVE  TypeOK'
  <2> USE DEF connection, userState, membership, Aborted, ReadStates
  <2>1. CASE HandleNewConnection(c)
    BY <2>1 DEF HandleNewConnection, Deadlines
  <2>2. CASE PeerActs(c)
    BY <2>2 DEF PeerActs
  <2>3. CASE HandleReadError(c)
    BY <2>3, DisconnectType DEF HandleReadError
  <2>4. CASE HandleSendError(c)
    BY <2>4, DisconnectType DEF HandleSendError
  <2>5. CASE TimerExpires(c)
    BY <2>5 DEF TimerExpires
  <2>6. CASE Deadline(c)
    BY <2>6, DisconnectType DEF Deadline, NickDeadline, IdentifyDeadline, PongDeadline,
                                PingDeadline, EndConnection, Deadlines
  <2>7. CASE HandleNewData(c)
    <3> USE DEF Receive, Queued
    <3>1. CASE Reply(c) \/ PartialLine(c)
      BY <3>1 DEF Reply, PartialLine
    <3>2. CASE InvalidLine(c) \/ ReceiveMessage_QUIT(c)
      BY <3>2, DisconnectType DEF InvalidLine, ReceiveMessage_QUIT
    <3>3. ASSUME NEW n \in Names, ReceiveMessage_NICK(c, n)
          PROVE  TypeOK'
      BY <3>3 DEF ReceiveMessage_NICK, Available, Renamed, WithoutOldName, CheckForPresetNickname, Names, LowerNames, Clients, Deadlines
    <3>4. ASSUME NEW n \in Names, NickWithoutEntry(c, n)
          PROVE  TypeOK'
      BY <3>4 DEF NickWithoutEntry, Available
    <3>5. CASE ReceiveMessage_USER(c)
      BY <3>5 DEF ReceiveMessage_USER, CheckForPresetNickname, Deadlines
    <3>6. ASSUME NEW chs \in SUBSET Channels, ReceiveMessage_JOIN(c, chs)
          PROVE  TypeOK'
      BY <3>6 DEF ReceiveMessage_JOIN, EnterChannels, Admitted, ClientStatus
    <3>7. CASE ReceiveMessage_JOIN0(c)
      BY <3>7 DEF ReceiveMessage_JOIN0, EnterChannels, ClientStatus
    <3>8. ASSUME NEW list \in ChannelLists, ReceiveMessage_PART(c, list)
          PROVE  TypeOK'
      BY <3>8 DEF ReceiveMessage_PART, ClientStatus
    <3>9. CASE ReceiveMessage_PONG(c) \/ ReceiveCommand_IDENTIFY(c)
      BY <3>9 DEF ReceiveMessage_PONG, ReceiveCommand_IDENTIFY, Deadlines
    <3>10. ASSUME NEW n \in LowerNames, ReceiveCommand_GHOST(c, n)
           PROVE  TypeOK'
      BY <3>10, DisconnectType DEF ReceiveCommand_GHOST
    <3>11. CASE UseFreedClient(c)
      BY <3>11 DEF UseFreedClient
    <3> QED
      BY <2>7, <3>1, <3>2, <3>3, <3>4, <3>5, <3>6, <3>7, <3>8, <3>9, <3>10, <3>11 DEF HandleNewData
  <2> QED
    BY <1>2, <2>1, <2>2, <2>3, <2>4, <2>5, <2>6, <2>7 DEF Step
<1> QED
  BY <1>1, <1>2 DEF Next

LEMMA InitType == Init => TypeOK
<1> SUFFICES ASSUME Init PROVE TypeOK
  OBVIOUS
<1>1. nicknames \in [LowerNames -> Clients \cup {NoClient}]
  <2>1. ASSUME NEW n \in LowerNames, \E v \in VirtualClients : VirtualNickname[v] = n
        PROVE  (CHOOSE v \in VirtualClients : VirtualNickname[v] = n) \in Clients
    BY <2>1 DEF Clients
  <2> QED
    BY <2>1 DEF Init
<1> QED
  BY <1>1 DEF Init, TypeOK, ReadStates, ClientStatus, Names

\* Every variable keeps its type, for any sets of clients, names and channels.
THEOREM TypeCorrect == Spec => []TypeOK
BY InitType, TypeStep, PTL DEF Spec


(***************************************************************************)
(* The inductive invariant.  What the safety properties need beside each   *)
(* other: a connection that has not been accepted yet has no state, the    *)
(* order of registration, identification and joining, and that only a      *)
(* stray client is known under the empty name.                             *)
(***************************************************************************)
UnusedHasNoState ==
    \A c \in NetworkClients : life[c] = "unused" =>
        /\ read[c] = "none" /\ timer[c] = "None" /\ due[c] = "None"
        /\ nick[c] = NoNickname
        /\ joined[c] = {}

RegistrationFirst ==
    \A c \in NetworkClients :
        /\ nick[c] # NoNickname => sentNick[c]
        /\ sentNick[c] /\ c \notin stray => nick[c] # NoNickname
        /\ identified[c] => Registered(c)
        /\ \A ch \in Channels : Member(c, ch) => Registered(c)
        /\ \A n \in LowerNames : nicknames[n] = c => sentNick[c]
        /\ ~Registered(c) => timer[c] \in {"None", "Nick"} /\ due[c] \in {"None", "Nick"}

IInv ==
    /\ TypeOK
    /\ UnusedHasNoState
    /\ RegistrationFirst
    /\ RegistrySound
    /\ RegistryComplete
    /\ MembersAlive
    /\ MembersAuthorised
    /\ NoUndefinedBehaviour
    /\ DeadlineAhead

(***************************************************************************)
(* Most actions fall into two kinds: those that change neither what is     *)
(* known of a client nor its memberships nor the registry, and those that  *)
(* do nothing but disconnect one client.                                   *)
(***************************************************************************)
Quiet(c) ==
    \/ HandleNewConnection(c) \/ PeerActs(c) \/ Reply(c) \/ PartialLine(c)
    \/ \E n \in Names : NickWithoutEntry(c, n)
    \/ ReceiveMessage_PONG(c) \/ UseFreedClient(c)
    \/ TimerExpires(c) \/ PingDeadline(c)

Ends(c) ==
    \/ HandleReadError(c) \/ HandleSendError(c) \/ InvalidLine(c) \/ ReceiveMessage_QUIT(c)
    \/ \E n \in LowerNames : ReceiveCommand_GHOST(c, n)
    \/ NickDeadline(c) \/ IdentifyDeadline(c) \/ PongDeadline(c)

LEMMA StepKinds ==
    ASSUME NEW c \in NetworkClients, Step(c)
    PROVE  \/ Quiet(c)
           \/ Ends(c)
           \/ \E n \in Names : ReceiveMessage_NICK(c, n)
           \/ ReceiveMessage_USER(c)
           \/ \E chs \in SUBSET Channels : ReceiveMessage_JOIN(c, chs)
           \/ ReceiveMessage_JOIN0(c)
           \/ \E list \in ChannelLists : ReceiveMessage_PART(c, list)
           \/ ReceiveCommand_IDENTIFY(c)
BY DEF Step, Quiet, Ends, HandleNewData, Deadline

LEMMA QuietFrame ==
    ASSUME TypeOK, NEW c \in NetworkClients, Quiet(c)
    PROVE  /\ UNCHANGED <<userState, membership, nicknames>>
           /\ stray \subseteq stray'
           /\ \A d \in NetworkClients : life'[d] = life[d] \/ (life[d] = "unused" /\ life'[d] = "open")
<1> USE DEF TypeOK, connection, membership, userState
<1>1. CASE HandleNewConnection(c)
  BY <1>1 DEF HandleNewConnection
<1>2. CASE PeerActs(c) \/ Reply(c) \/ PartialLine(c)
  BY <1>2 DEF PeerActs, Reply, PartialLine
<1>3. CASE (\E n \in Names : NickWithoutEntry(c, n)) \/ UseFreedClient(c)
  BY <1>3 DEF NickWithoutEntry, Available, UseFreedClient
<1>4. CASE ReceiveMessage_PONG(c) \/ TimerExpires(c) \/ PingDeadline(c)
  BY <1>4 DEF ReceiveMessage_PONG, TimerExpires, PingDeadline
<1> QED
  BY <1>1, <1>2, <1>3, <1>4 DEF Quiet

LEMMA EndsFrame ==
    ASSUME TypeOK, NEW c \in NetworkClients, Ends(c)
    PROVE  \E d \in NetworkClients :
              /\ DisconnectNetworkClient(d)
              /\ UNCHANGED <<userState, joined, crashed, stray>>
              /\ \A e \in NetworkClients : e # d => due'[e] = due[e]
              /\ due'[d] \in {due[d], "None"}
              /\ \A e \in NetworkClients : read[e] = "none" => read'[e] = "none"
<1> USE DEF TypeOK, userState, Aborted, Receive, Queued
<1>1. CASE HandleReadError(c) \/ HandleSendError(c) \/ InvalidLine(c) \/ ReceiveMessage_QUIT(c)
  <2> WITNESS c \in NetworkClients
  <2> QED BY <1>1 DEF HandleReadError, HandleSendError, InvalidLine, ReceiveMessage_QUIT
<1>2. ASSUME NEW n \in LowerNames, ReceiveCommand_GHOST(c, n)
      PROVE  \E d \in NetworkClients :
              /\ DisconnectNetworkClient(d)
              /\ UNCHANGED <<userState, joined, crashed, stray>>
              /\ \A e \in NetworkClients : e # d => due'[e] = due[e]
              /\ due'[d] \in {due[d], "None"}
              /\ \A e \in NetworkClients : read[e] = "none" => read'[e] = "none"
  <2> nicknames[n] \in NetworkClients
    BY <1>2 DEF ReceiveCommand_GHOST
  <2> WITNESS nicknames[n] \in NetworkClients
  <2> QED BY <1>2 DEF ReceiveCommand_GHOST
<1>3. CASE NickDeadline(c) \/ IdentifyDeadline(c) \/ PongDeadline(c)
  <2> WITNESS c \in NetworkClients
  <2> QED BY <1>3 DEF NickDeadline, IdentifyDeadline, PongDeadline, EndConnection
<1> QED
  BY <1>1, <1>2, <1>3 DEF Ends

(***************************************************************************)
(* Each part of the invariant is preserved by the steps of every client.   *)
(* A case is named for the kind of step.                                   *)
(***************************************************************************)
LEMMA UnusedStep ==
    ASSUME IInv, NEW c \in NetworkClients, Step(c)
    PROVE  UnusedHasNoState'
<1> USE DEF IInv, TypeOK, UnusedHasNoState
<1>1. CASE Quiet(c)
  <2>1. CASE HandleNewConnection(c)
    BY <2>1 DEF HandleNewConnection, userState, membership
  <2>2. CASE PeerActs(c) \/ Reply(c) \/ PartialLine(c)
    BY <2>2 DEF PeerActs, Reply, PartialLine, Receive, Queued, userState, membership
  <2>3. CASE (\E n \in Names : NickWithoutEntry(c, n)) \/ UseFreedClient(c)
    BY <2>3 DEF NickWithoutEntry, Available, UseFreedClient, connection, userState, membership
  <2>4. CASE ReceiveMessage_PONG(c) \/ TimerExpires(c) \/ PingDeadline(c)
    BY <2>4 DEF ReceiveMessage_PONG, TimerExpires, PingDeadline, Receive, Queued, userState, membership
  <2> QED
    BY <1>1, <2>1, <2>2, <2>3, <2>4 DEF Quiet
<1>2. CASE Ends(c)
  BY <1>2, EndsFrame DEF DisconnectNetworkClient, LeaveServer, userState
<1>3. CASE \E n \in Names : ReceiveMessage_NICK(c, n)
  BY <1>3 DEF ReceiveMessage_NICK, Available, Renamed, WithoutOldName, CheckForPresetNickname, Receive, Queued, membership
<1>4. CASE ReceiveMessage_USER(c)
  BY <1>4 DEF ReceiveMessage_USER, CheckForPresetNickname, Receive, Queued, membership
<1>5. CASE \E chs \in SUBSET Channels : ReceiveMessage_JOIN(c, chs)
  BY <1>5 DEF ReceiveMessage_JOIN, EnterChannels, Receive, Queued, userState
<1>6. CASE ReceiveMessage_JOIN0(c)
  BY <1>6 DEF ReceiveMessage_JOIN0, EnterChannels, Receive, Queued, userState
<1>7. CASE \E list \in ChannelLists : ReceiveMessage_PART(c, list)
  BY <1>7 DEF ReceiveMessage_PART, Receive, Queued, userState
<1>8. CASE ReceiveCommand_IDENTIFY(c)
  BY <1>8 DEF ReceiveCommand_IDENTIFY, Receive, Queued, membership
<1> QED
  BY StepKinds, <1>1, <1>2, <1>3, <1>4, <1>5, <1>6, <1>7, <1>8

LEMMA RegistrationStep ==
    ASSUME IInv, NEW c \in NetworkClients, Step(c)
    PROVE  RegistrationFirst'
<1> USE DEF IInv, TypeOK, RegistrationFirst, Registered, Member
<1>1. CASE Quiet(c)
  <2>1. CASE HandleNewConnection(c)
    BY <2>1 DEF HandleNewConnection, userState, membership
  <2>2. CASE PeerActs(c) \/ Reply(c) \/ PartialLine(c)
    BY <2>2 DEF PeerActs, Reply, PartialLine, Receive, Queued, userState, membership
  <2>3. CASE (\E n \in Names : NickWithoutEntry(c, n)) \/ UseFreedClient(c)
    BY <2>3 DEF NickWithoutEntry, Available, UseFreedClient, connection, userState, membership
  <2>4. CASE ReceiveMessage_PONG(c) \/ TimerExpires(c) \/ PingDeadline(c)
    BY <2>4 DEF ReceiveMessage_PONG, TimerExpires, PingDeadline, Receive, Queued, userState, membership
  <2> QED
    BY <1>1, <2>1, <2>2, <2>3, <2>4 DEF Quiet
<1>2. CASE Ends(c)
  <2> PICK d \in NetworkClients :
              /\ DisconnectNetworkClient(d)
              /\ UNCHANGED <<userState, joined, crashed, stray>>
              /\ \A e \in NetworkClients : e # d => due'[e] = due[e]
              /\ due'[d] \in {due[d], "None"}
    BY <1>2, EndsFrame
  <2> USE DEF DisconnectNetworkClient, LeaveServer, userState
  <2>1. \A e \in NetworkClients : timer'[e] \in {timer[e], "None"} /\ due'[e] \in {due[e], "None"}
    OBVIOUS
  <2>2. ASSUME NEW e \in NetworkClients, NEW ch \in Channels, status'[e][ch] # "Absent"
        PROVE  status[e][ch] # "Absent"
    <3>1. e # d => status'[e] = status[e]
      OBVIOUS
    <3>2. status'[d][ch] # "Absent" => status[d][ch] # "Absent"
      OBVIOUS
    <3> QED
      BY <2>2, <3>1, <3>2
  <2>3. \A e \in NetworkClients, n \in LowerNames : nicknames'[n] = e => nicknames[n] = e
    BY ClientsAssumption DEF Clients
  <2> QED
    BY <2>1, <2>2, <2>3
<1>3. CASE \E n \in Names : ReceiveMessage_NICK(c, n)
  BY <1>3, ClientsAssumption DEF ReceiveMessage_NICK, Available, Renamed, WithoutOldName, CheckForPresetNickname, membership, Clients
<1>4. CASE ReceiveMessage_USER(c)
  BY <1>4 DEF ReceiveMessage_USER, CheckForPresetNickname, membership
<1>5. CASE \E chs \in SUBSET Channels : ReceiveMessage_JOIN(c, chs)
  BY <1>5 DEF ReceiveMessage_JOIN, EnterChannels, userState
<1>6. CASE ReceiveMessage_JOIN0(c)
  <2>1. \A d \in NetworkClients : d # c => status'[d] = status[d]
    BY <1>6 DEF ReceiveMessage_JOIN0, EnterChannels
  <2>2. Registered(c) /\ UNCHANGED <<nick, sentNick, sentUser, identified, nicknames, timer, due>>
    BY <1>6 DEF ReceiveMessage_JOIN0, userState
  <2>3. stray \subseteq stray'
    BY <1>6 DEF ReceiveMessage_JOIN0, EnterChannels
  <2> QED
    BY <2>1, <2>2, <2>3
<1>7. CASE \E list \in ChannelLists : ReceiveMessage_PART(c, list)
  BY <1>7 DEF ReceiveMessage_PART, userState
<1>8. CASE ReceiveCommand_IDENTIFY(c)
  BY <1>8 DEF ReceiveCommand_IDENTIFY, membership
<1> QED
  BY StepKinds, <1>1, <1>2, <1>3, <1>4, <1>5, <1>6, <1>7, <1>8

LEMMA RegistrySoundStep ==
    ASSUME IInv, NEW c \in NetworkClients, Step(c)
    PROVE  RegistrySound'
<1> USE DEF IInv, TypeOK, RegistrySound
<1>1. CASE Quiet(c)
  BY <1>1, QuietFrame DEF userState
<1>2. CASE Ends(c)
  BY <1>2, EndsFrame, ClientsAssumption DEF DisconnectNetworkClient, LeaveServer, userState, RegistrationFirst, Clients
<1>3. CASE \E n \in Names : ReceiveMessage_NICK(c, n)
  <2>1. life[c] # "unused"
    BY <1>3 DEF UnusedHasNoState, ReceiveMessage_NICK, Available, Renamed, WithoutOldName, Receive, Queued
  <2> QED
    BY <1>3, <2>1, ClientsAssumption DEF ReceiveMessage_NICK, Available, Renamed, WithoutOldName, RegistrationFirst, Clients
<1>4. CASE ReceiveMessage_USER(c)
  BY <1>4 DEF ReceiveMessage_USER
<1>5. CASE \E chs \in SUBSET Channels : ReceiveMessage_JOIN(c, chs)
  BY <1>5 DEF ReceiveMessage_JOIN, EnterChannels, userState
<1>6. CASE ReceiveMessage_JOIN0(c)
  BY <1>6 DEF ReceiveMessage_JOIN0, EnterChannels, userState
<1>7. CASE \E list \in ChannelLists : ReceiveMessage_PART(c, list)
  BY <1>7 DEF ReceiveMessage_PART, userState
<1>8. CASE ReceiveCommand_IDENTIFY(c)
  BY <1>8 DEF ReceiveCommand_IDENTIFY
<1> QED
  BY StepKinds, <1>1, <1>2, <1>3, <1>4, <1>5, <1>6, <1>7, <1>8

LEMMA RegistryCompleteStep ==
    ASSUME IInv, NEW c \in NetworkClients, Step(c)
    PROVE  RegistryComplete'
<1> USE DEF IInv, TypeOK, RegistryComplete
<1>0. \A d \in NetworkClients : Lowercased[nick[d]] \in LowerNames
  BY DEF LowerNames
<1>1. CASE Quiet(c)
  BY <1>1, QuietFrame DEF userState, UnusedHasNoState
<1>2. CASE Ends(c)
  <2> PICK d \in NetworkClients :
              /\ DisconnectNetworkClient(d)
              /\ UNCHANGED <<userState, joined, crashed, stray>>
    BY <1>2, EndsFrame
  <2> SUFFICES ASSUME stray = {}, NEW e \in NetworkClients, life'[e] = "open", nick[e] # NoNickname
               PROVE  nicknames'[Lowercased[nick[e]]] = e
    BY DEF userState
  <2>1. e # d /\ life[e] = "open"
    BY DEF DisconnectNetworkClient, LeaveServer
  <2>2. nicknames[Lowercased[nick[e]]] = e
    BY <2>1
  <2>3. life[d] = "open" /\ nick[d] # NoNickname => Lowercased[nick[d]] # Lowercased[nick[e]]
    BY <2>1, <2>2
  <2> QED
    BY <1>0, <2>2, <2>3 DEF DisconnectNetworkClient, LeaveServer
<1>3. CASE \E n \in Names : ReceiveMessage_NICK(c, n)
  <2>1. life[c] # "unused"
    BY <1>3 DEF UnusedHasNoState, ReceiveMessage_NICK, Available, Renamed, WithoutOldName, Receive, Queued
  <2>2. PICK n \in Names : ReceiveMessage_NICK(c, n)
    BY <1>3
  <2>3. Lowercased[n] \in LowerNames
    BY DEF LowerNames
  <2> QED
    BY <1>0, <2>1, <2>2, <2>3, ClientsAssumption DEF ReceiveMessage_NICK, Available, Renamed, WithoutOldName, Clients
<1>4. CASE ReceiveMessage_USER(c)
  BY <1>4 DEF ReceiveMessage_USER
<1>5. CASE \E chs \in SUBSET Channels : ReceiveMessage_JOIN(c, chs)
  BY <1>5 DEF ReceiveMessage_JOIN, EnterChannels, userState
<1>6. CASE ReceiveMessage_JOIN0(c)
  BY <1>6 DEF ReceiveMessage_JOIN0, EnterChannels, userState
<1>7. CASE \E list \in ChannelLists : ReceiveMessage_PART(c, list)
  BY <1>7 DEF ReceiveMessage_PART, userState
<1>8. CASE ReceiveCommand_IDENTIFY(c)
  BY <1>8 DEF ReceiveCommand_IDENTIFY
<1> QED
  BY StepKinds, <1>1, <1>2, <1>3, <1>4, <1>5, <1>6, <1>7, <1>8

LEMMA MembersAliveStep ==
    ASSUME IInv, NEW c \in NetworkClients, Step(c)
    PROVE  MembersAlive'
<1> USE DEF IInv, TypeOK, MembersAlive, Member
<1>1. CASE Quiet(c)
  BY <1>1, QuietFrame DEF membership, UnusedHasNoState
<1>2. CASE Ends(c)
  <2> PICK d \in NetworkClients :
              /\ DisconnectNetworkClient(d)
              /\ UNCHANGED <<userState, joined, crashed, stray>>
    BY <1>2, EndsFrame
  <2>1. CASE life[d] # "open"
    BY <2>1 DEF DisconnectNetworkClient, LeaveServer
  <2>2. CASE life[d] = "open" /\ nick[d] = NoNickname
    <3>1. d \in stray \/ \A ch \in Channels : ~Member(d, ch)
      BY <2>2 DEF RegistrationFirst, Registered
    <3> QED
      BY <2>2, <3>1 DEF DisconnectNetworkClient, LeaveServer
  <2>3. CASE life[d] = "open" /\ nick[d] # NoNickname
    <3>1. \A ch \in Channels : status'[d][ch] = "Absent"
      BY <2>3 DEF DisconnectNetworkClient, LeaveServer
    <3>2. \A e \in NetworkClients : e # d => status'[e] = status[e] /\ life'[e] = life[e]
      BY <2>3 DEF DisconnectNetworkClient, LeaveServer
    <3>3. life'[d] = "shut"
      BY <2>3 DEF DisconnectNetworkClient, LeaveServer
    <3> QED
      BY <3>1, <3>2, <3>3
  <2> QED
    BY <2>1, <2>2, <2>3
<1>3. CASE \E n \in Names : ReceiveMessage_NICK(c, n)
  BY <1>3 DEF ReceiveMessage_NICK, Available, Renamed, WithoutOldName, membership
<1>4. CASE ReceiveMessage_USER(c)
  BY <1>4 DEF ReceiveMessage_USER, membership
<1>5. ASSUME NEW chs \in SUBSET Channels, ReceiveMessage_JOIN(c, chs)
      PROVE  MembersAlive'
  <2>1. life[c] # "unused"
    BY <1>5 DEF UnusedHasNoState, ReceiveMessage_JOIN, Receive, Queued
  <2>2. /\ \A d \in NetworkClients \ {c} : status'[d] = status[d] /\ joined'[d] = joined[d]
        /\ UNCHANGED life
        /\ stray \subseteq stray'
    BY <1>5 DEF ReceiveMessage_JOIN, EnterChannels
  <2>3. ASSUME NEW ch \in Channels
        PROVE  /\ Member(c, ch)' <=> Member(c, ch) \/ ch \in Admitted(c, chs)
               /\ joined'[c] = joined[c] \cup Admitted(c, chs)
    BY <1>5 DEF ReceiveMessage_JOIN, EnterChannels
  <2>4. life[c] = "shut" /\ Admitted(c, chs) # {} => c \in stray'
    BY <1>5 DEF ReceiveMessage_JOIN, EnterChannels
  <2> SUFFICES ASSUME NEW d \in NetworkClients, NEW ch \in Channels
               PROVE  (/\ Member(d, ch) => ch \in joined[d] /\ (life[d] = "open" \/ d \in stray)
                       /\ life[d] = "open" /\ ch \in joined[d] => Member(d, ch))'
    OBVIOUS
  <2>5. CASE d # c
    BY <2>2, <2>5
  <2>6. CASE d = c
    BY <2>1, <2>2, <2>3, <2>4, <2>6
  <2> QED
    BY <2>5, <2>6
<1>6. CASE ReceiveMessage_JOIN0(c)
  <2> DEFINE left == {ch \in joined[c] : Member(c, ch)}
             row  == [ch \in Channels |-> IF ch \in left THEN "Absent" ELSE status[c][ch]]
             chs  == {ch \in {Zero} \cap Channels :
                         ~MustIdentify(c) /\ MayJoin(c, ch) /\ row[ch] = "Absent"}
  <2>1. life[c] # "unused"
    BY <1>6 DEF UnusedHasNoState, ReceiveMessage_JOIN0, Receive, Queued
  <2>2. UNCHANGED life /\ EnterChannels(c, chs, row, joined[c] \ left)
    BY <1>6 DEF ReceiveMessage_JOIN0
  <2> HIDE DEF chs
  <2>3. /\ \A d \in NetworkClients \ {c} : status'[d] = status[d] /\ joined'[d] = joined[d]
        /\ stray \subseteq stray'
        /\ joined'[c] = (joined[c] \ left) \cup chs
        /\ life[c] = "shut" /\ chs # {} => c \in stray'
    BY <2>2 DEF EnterChannels
  <2>4. ASSUME NEW ch \in Channels
        PROVE  Member(c, ch)' <=> ch \in chs \/ (Member(c, ch) /\ ch \notin left)
    BY <2>2 DEF EnterChannels
  <2> SUFFICES ASSUME NEW d \in NetworkClients, NEW ch \in Channels
               PROVE  (/\ Member(d, ch) => ch \in joined[d] /\ (life[d] = "open" \/ d \in stray)
                       /\ life[d] = "open" /\ ch \in joined[d] => Member(d, ch))'
    OBVIOUS
  <2>5. CASE d # c
    BY <2>2, <2>3, <2>5
  <2>6. CASE d = c
    BY <2>1, <2>2, <2>3, <2>4, <2>6
  <2> QED
    BY <2>5, <2>6
<1>7. ASSUME NEW list \in ChannelLists, ReceiveMessage_PART(c, list)
      PROVE  MembersAlive'
  <2>1. /\ \A d \in NetworkClients \ {c} : status'[d] = status[d] /\ joined'[d] = joined[d]
        /\ UNCHANGED <<life, stray>>
        /\ joined'[c] = joined[c] \ Left(c, list)
    BY <1>7 DEF ReceiveMessage_PART
  <2>2. ASSUME NEW ch \in Channels
        PROVE  Member(c, ch)' <=> Member(c, ch) /\ ch \notin Left(c, list)
    BY <1>7 DEF ReceiveMessage_PART
  <2> QED
    BY <2>1, <2>2
<1>8. CASE ReceiveCommand_IDENTIFY(c)
  BY <1>8 DEF ReceiveCommand_IDENTIFY, membership
<1> QED
  BY StepKinds, <1>1, <1>2, <1>3, <1>4, <1>5, <1>6, <1>7, <1>8

\* As long as nobody strays, a client that gives up a nickname is neither
\* identified nor a member of a channel: the entry it gives up is its own.
LEMMA OnlyFreshClientsRename ==
    ASSUME IInv, NEW c \in NetworkClients, NEW n \in Names, ReceiveMessage_NICK(c, n), stray' = {}
    PROVE  ~identified[c] /\ \A ch \in Channels : ~Member(c, ch)
<1> USE DEF IInv, TypeOK
<1>1. stray = {} /\ life[c] = "open"
  BY DEF ReceiveMessage_NICK, Available, Renamed, WithoutOldName, UnusedHasNoState, Receive, Queued
<1>2. CASE nick[c] = NoNickname
  BY <1>1, <1>2 DEF RegistrationFirst, Registered
<1>3. CASE nick[c] # NoNickname
  <2>1. nicknames[Lowercased[nick[c]]] = c
    BY <1>1, <1>3 DEF RegistryComplete
  <2>2. ~Frozen(c)
    BY <1>3, <2>1 DEF ReceiveMessage_NICK, Available, Renamed, WithoutOldName
  <2> QED
    BY <2>2 DEF Frozen, MembersAlive
<1> QED
  BY <1>2, <1>3

LEMMA MembersAuthorisedStep ==
    ASSUME IInv, NEW c \in NetworkClients, Step(c)
    PROVE  MembersAuthorised'
<1> USE DEF IInv, TypeOK, MembersAuthorised, MustIdentify, Voiced, Member, Registered
<1> SUFFICES ASSUME stray' = {}, NEW d \in NetworkClients, NEW ch \in Channels, Member(d, ch)'
             PROVE  (/\ Registered(d)
                     /\ ~MustIdentify(d)
                     /\ status[d][ch] = "Voice" <=> Voiced(d, ch)
                     /\ status[d][ch] = "NoStatus" => ch \in ObserverChannels)'
  OBVIOUS
<1>1. CASE Quiet(c)
  BY <1>1, QuietFrame DEF userState, membership
<1>2. CASE Ends(c)
  <2> PICK e \in NetworkClients :
              /\ DisconnectNetworkClient(e)
              /\ UNCHANGED <<userState, joined, crashed, stray>>
    BY <1>2, EndsFrame
  <2>1. \/ status'[d] = status[d]
        \/ status'[d] = [k \in Channels |-> IF k \in joined[d] THEN "Absent" ELSE status[d][k]]
    BY DEF DisconnectNetworkClient, LeaveServer
  <2>2. status'[d][ch] = status[d][ch]
    BY <2>1
  <2> QED
    BY <2>2 DEF userState
<1>3. ASSUME NEW n \in Names, ReceiveMessage_NICK(c, n)
      PROVE  (/\ Registered(d)
              /\ ~MustIdentify(d)
              /\ status[d][ch] = "Voice" <=> Voiced(d, ch)
              /\ status[d][ch] = "NoStatus" => ch \in ObserverChannels)'
  <2>1. ~Member(c, ch)
    BY <1>3, OnlyFreshClientsRename
  <2>2. UNCHANGED status
    BY <1>3 DEF ReceiveMessage_NICK, Available, Renamed, WithoutOldName, membership
  <2>3. d # c
    BY <2>1, <2>2
  <2> QED
    BY <1>3, <2>2, <2>3 DEF ReceiveMessage_NICK, Available, Renamed, WithoutOldName
<1>4. CASE ReceiveMessage_USER(c)
  BY <1>4 DEF ReceiveMessage_USER, membership
<1>5. CASE \E chs \in SUBSET Channels : ReceiveMessage_JOIN(c, chs)
  <2> PICK chs \in SUBSET Channels : ReceiveMessage_JOIN(c, chs)
    BY <1>5
  <2>1. UNCHANGED <<nick, sentNick, sentUser, identified>> /\ stray = {}
    BY DEF ReceiveMessage_JOIN, EnterChannels, userState
  <2>2. \/ status'[d][ch] = status[d][ch]
        \/ /\ d = c /\ ch \in Admitted(c, chs)
           /\ status'[d][ch] = IF Voiced(c, ch) THEN "Voice" ELSE "NoStatus"
    BY DEF ReceiveMessage_JOIN, EnterChannels
  <2>3. Registered(c) /\ ~MustIdentify(c)
    BY DEF ReceiveMessage_JOIN
  <2>4. ch \in Admitted(c, chs) => MayJoin(c, ch)
    BY DEF Admitted
  <2> QED
    BY <2>1, <2>2, <2>3, <2>4 DEF MayJoin
<1>6. CASE ReceiveMessage_JOIN0(c)
  <2>1. UNCHANGED <<nick, sentNick, sentUser, identified>> /\ stray = {}
    BY <1>6 DEF ReceiveMessage_JOIN0, EnterChannels, userState
  <2>2. \/ status'[d][ch] = status[d][ch]
        \/ /\ d = c /\ Registered(c) /\ ~MustIdentify(c) /\ MayJoin(c, ch)
           /\ status'[d][ch] = IF Voiced(c, ch) THEN "Voice" ELSE "NoStatus"
    BY <1>6 DEF ReceiveMessage_JOIN0, EnterChannels
  <2> QED
    BY <2>1, <2>2 DEF MayJoin
<1>7. CASE \E list \in ChannelLists : ReceiveMessage_PART(c, list)
  BY <1>7 DEF ReceiveMessage_PART, userState
<1>8. CASE ReceiveCommand_IDENTIFY(c)
  BY <1>8 DEF ReceiveCommand_IDENTIFY, membership
<1> QED
  BY StepKinds, <1>1, <1>2, <1>3, <1>4, <1>5, <1>6, <1>7, <1>8

LEMMA NoUndefinedBehaviourStep ==
    ASSUME IInv, NEW c \in NetworkClients, Step(c)
    PROVE  NoUndefinedBehaviour'
<1> USE DEF IInv, TypeOK, NoUndefinedBehaviour
<1>0. UNCHANGED crashed /\ stray \subseteq stray' => NoUndefinedBehaviour'
  OBVIOUS
<1>1. CASE Quiet(c)
  <2>1. ASSUME NEW n \in Names, NickWithoutEntry(c, n)
        PROVE  NoUndefinedBehaviour'
    <3>1. life[c] = "shut" \/ stray # {}
      BY <2>1, ClientsAssumption DEF NickWithoutEntry, Available, RegistryComplete, UnusedHasNoState, Queued, Clients
    <3> QED
      BY <2>1, <3>1 DEF NickWithoutEntry, Available
  <2>2. CASE UseFreedClient(c)
    BY <2>2 DEF UseFreedClient, Released, MembersAlive, RegistrySound
  <2>3. CASE UNCHANGED crashed
    BY <1>0, <1>1, <2>3, QuietFrame
  <2> QED
    BY <1>1, <2>1, <2>2, <2>3 DEF Quiet, HandleNewConnection, PeerActs, Reply, PartialLine,
        ReceiveMessage_PONG, TimerExpires, PingDeadline
<1>2. CASE Ends(c)
  BY <1>0, <1>2, EndsFrame
<1>3. CASE \E n \in Names : ReceiveMessage_NICK(c, n)
  BY <1>0, <1>3 DEF ReceiveMessage_NICK, Available, Renamed, WithoutOldName
<1>4. CASE ReceiveMessage_USER(c)
  BY <1>0, <1>4 DEF ReceiveMessage_USER
<1>5. CASE \E chs \in SUBSET Channels : ReceiveMessage_JOIN(c, chs)
  BY <1>0, <1>5 DEF ReceiveMessage_JOIN, EnterChannels
<1>6. CASE ReceiveMessage_JOIN0(c)
  BY <1>0, <1>6 DEF ReceiveMessage_JOIN0, EnterChannels
<1>7. CASE \E list \in ChannelLists : ReceiveMessage_PART(c, list)
  BY <1>0, <1>7 DEF ReceiveMessage_PART
<1>8. CASE ReceiveCommand_IDENTIFY(c)
  BY <1>0, <1>8 DEF ReceiveCommand_IDENTIFY
<1> QED
  BY StepKinds, <1>1, <1>2, <1>3, <1>4, <1>5, <1>6, <1>7, <1>8

LEMMA DeadlineAheadStep ==
    ASSUME IInv, NEW c \in NetworkClients, Step(c)
    PROVE  DeadlineAhead'
<1> USE DEF IInv, TypeOK, DeadlineAhead, Registered, MustIdentify
<1>1. CASE Quiet(c)
  <2>1. CASE HandleNewConnection(c)
    BY <2>1 DEF HandleNewConnection, userState, UnusedHasNoState
  <2>2. CASE PeerActs(c) \/ Reply(c) \/ PartialLine(c)
    BY <2>2 DEF PeerActs, Reply, PartialLine, userState
  <2>3. CASE (\E n \in Names : NickWithoutEntry(c, n)) \/ UseFreedClient(c)
    BY <2>3 DEF NickWithoutEntry, Available, UseFreedClient, connection, userState
  <2>4. CASE ReceiveMessage_PONG(c)
    BY <2>4 DEF ReceiveMessage_PONG, userState
  <2>5. CASE TimerExpires(c)
    BY <2>5 DEF TimerExpires, userState
  <2>6. CASE PingDeadline(c)
    BY <2>6 DEF PingDeadline, userState, RegistrationFirst
  <2> QED
    BY <1>1, <2>1, <2>2, <2>3, <2>4, <2>5, <2>6 DEF Quiet
<1>2. CASE Ends(c)
  <2> PICK d \in NetworkClients :
              /\ DisconnectNetworkClient(d)
              /\ UNCHANGED <<userState, joined, crashed, stray>>
              /\ \A e \in NetworkClients : e # d => due'[e] = due[e]
    BY <1>2, EndsFrame
  <2>1. /\ life'[d] # "open"
        /\ \A e \in NetworkClients \ {d} : life'[e] = life[e] /\ timer'[e] = timer[e]
        /\ timer'[d] \in {timer[d], "None"}
    BY DEF DisconnectNetworkClient, LeaveServer
  <2> QED
    BY <2>1 DEF userState
<1>3. ASSUME NEW n \in Names, ReceiveMessage_NICK(c, n)
      PROVE  DeadlineAhead'
  <2>1. stray' = {} => ~identified[c]
    BY <1>3, OnlyFreshClientsRename
  <2>2. stray \subseteq stray'
    BY <1>3 DEF ReceiveMessage_NICK, Available, Renamed, WithoutOldName
  <2> QED
    BY <1>3, <2>1, <2>2 DEF ReceiveMessage_NICK, Available, Renamed, WithoutOldName, CheckForPresetNickname, RegistrationFirst, Preset
<1>4. CASE ReceiveMessage_USER(c)
  BY <1>4 DEF ReceiveMessage_USER, CheckForPresetNickname, RegistrationFirst
<1>5. CASE \E chs \in SUBSET Channels : ReceiveMessage_JOIN(c, chs)
  BY <1>5 DEF ReceiveMessage_JOIN, EnterChannels, userState
<1>6. CASE ReceiveMessage_JOIN0(c)
  BY <1>6 DEF ReceiveMessage_JOIN0, EnterChannels, userState
<1>7. CASE \E list \in ChannelLists : ReceiveMessage_PART(c, list)
  BY <1>7 DEF ReceiveMessage_PART, userState
<1>8. CASE ReceiveCommand_IDENTIFY(c)
  BY <1>8 DEF ReceiveCommand_IDENTIFY
<1> QED
  BY StepKinds, <1>1, <1>2, <1>3, <1>4, <1>5, <1>6, <1>7, <1>8

(***************************************************************************)
(* The theorems.                                                           *)
(***************************************************************************)
LEMMA IInvStep ==
    ASSUME IInv, [Next]_vars
    PROVE  IInv'
<1>1. CASE UNCHANGED vars
  BY <1>1 DEF vars, connection, userState, membership, IInv, TypeOK, UnusedHasNoState, RegistrationFirst,
     RegistrySound, RegistryComplete, MembersAlive, MembersAuthorised, NoUndefinedBehaviour,
     DeadlineAhead, Registered, Member, MustIdentify, Voiced
<1>2. CASE \E c \in NetworkClients : Step(c)
  BY <1>2, TypeStep, UnusedStep, RegistrationStep, RegistrySoundStep, RegistryCompleteStep,
     MembersAliveStep, MembersAuthorisedStep, NoUndefinedBehaviourStep, DeadlineAheadStep
     DEF IInv, Next
<1> QED
  BY <1>1, <1>2 DEF Next

LEMMA InitIInv == Init => IInv
<1> SUFFICES ASSUME Init PROVE IInv
  OBVIOUS
<1>1. TypeOK
  BY InitType
<1>2. \A n \in LowerNames, c \in NetworkClients : nicknames[n] # c
  BY ClientsAssumption DEF Init, Clients
<1> QED
  BY <1>1, <1>2 DEF Init, IInv, UnusedHasNoState, RegistrationFirst, RegistrySound,
     RegistryComplete, MembersAlive, MembersAuthorised, NoUndefinedBehaviour, DeadlineAhead,
     Registered, Member

\* The inductive invariant holds in every reachable state.
THEOREM Invariance == Spec => []IInv
BY InitIInv, IInvStep, PTL DEF Spec

\* A nickname is registered for open connections that carry it only (strays
\* excepted).
THEOREM RegistryCorrect == Spec => []RegistrySound
<1>1. IInv => RegistrySound
  BY DEF IInv
<1> QED
  BY <1>1, Invariance, PTL

\* Every open connection with a nickname is found under it, so no two share one
\* (as long as nobody strays).
THEOREM RegistryReachesAll == Spec => []RegistryComplete
<1>1. IInv => RegistryComplete
  BY DEF IInv
<1> QED
  BY <1>1, Invariance, PTL

\* Channels hold no pointer to a client that is shut (strays excepted), and the
\* two sides of a membership agree.
THEOREM MembershipCorrect == Spec => []MembersAlive
<1>1. IInv => MembersAlive
  BY DEF IInv
<1> QED
  BY <1>1, Invariance, PTL

\* Nobody is in a channel who has not identified or has no right to be there,
\* and voice is what the present nickname deserves.
THEOREM MembershipEarned == Spec => []MembersAuthorised
<1>1. IInv => MembersAuthorised
  BY DEF IInv
<1> QED
  BY <1>1, Invariance, PTL

\* The undefined behaviour in the code is reached through a stray client only.
THEOREM BehaviourDefined == Spec => []NoUndefinedBehaviour
<1>1. IInv => NoUndefinedBehaviour
  BY DEF IInv
<1> QED
  BY <1>1, Invariance, PTL

\* Every open connection has a deadline ahead, and the right one until it has
\* registered.
THEOREM DeadlineCorrect == Spec => []DeadlineAhead
<1>1. IInv => DeadlineAhead
  BY DEF IInv
<1> QED
  BY <1>1, Invariance, PTL

\* Whoever has identified or is in a channel keeps its nickname as long as nobody
\* strays.
THEOREM NicknameFixed == Spec => NicknameKept
<1> DEFINE Kept == \A c \in NetworkClients :
                      (identified[c] \/ joined[c] # {}) /\ nick'[c] # nick[c] => stray' # {}
<1>1. ASSUME IInv, [Next]_vars
      PROVE  [Kept]_vars
  <2> SUFFICES ASSUME NEW d \in NetworkClients, Step(d), ~UNCHANGED nick
               PROVE  Kept
    BY <1>1 DEF Next, vars, userState
  <2>1. PICK n \in Names : ReceiveMessage_NICK(d, n)
    BY StepKinds, <1>1, QuietFrame, EndsFrame DEF IInv, userState, ReceiveMessage_USER, ReceiveMessage_JOIN,
       ReceiveMessage_JOIN0, ReceiveMessage_PART, ReceiveCommand_IDENTIFY
  <2>2. stray' = {} => ~identified[d] /\ joined[d] = {}
    <3> SUFFICES ASSUME stray' = {}
                 PROVE  ~identified[d] /\ joined[d] = {}
      OBVIOUS
    <3>1. ~identified[d] /\ \A ch \in Channels : ~Member(d, ch)
      BY <1>1, <2>1, OnlyFreshClientsRename
    <3>2. life[d] = "open"
      BY <1>1, <2>1 DEF ReceiveMessage_NICK, Receive, Queued, IInv, TypeOK, UnusedHasNoState
    <3>3. joined[d] \subseteq Channels /\ \A ch \in Channels : ch \in joined[d] => Member(d, ch)
      BY <1>1, <3>2 DEF IInv, TypeOK, MembersAlive
    <3> QED
      BY <3>1, <3>3
  <2> QED
    BY <1>1, <2>1, <2>2 DEF ReceiveMessage_NICK, Available, Renamed, WithoutOldName, IInv, TypeOK
<1> QED
  BY <1>1, Invariance, PTL DEF Spec, NicknameKept

================================================================================
