-------------------------- MODULE IRCServer_refinement -------------------------
(***************************************************************************)
(* IRCServer implements Chat, for every set of clients, nicknames and      *)
(* channels: one lemma for each kind of step.  Until a client strays the   *)
(* parts of the inductive invariant say what the abstract actions ask for. *)
(* From Chat follows what a bot may take for granted of its channel.       *)
(***************************************************************************)
EXTENDS IRCServer_proofs

\* The bots are never displaced from the registry.
BotsKept == stray = {} => \A v \in VirtualClients : nicknames[VirtualNickname[v]] = v

LEMMA InitBotsKept == Init => BotsKept
<1> SUFFICES ASSUME Init, NEW v \in VirtualClients
             PROVE  nicknames[VirtualNickname[v]] = v
  BY DEF BotsKept
<1>1. VirtualNickname[v] \in LowerNames
  BY DEF LowerNames
<1>2. (CHOOSE w \in VirtualClients : VirtualNickname[w] = VirtualNickname[v]) = v
  BY NamesAssumption
<1> QED
  BY <1>1, <1>2 DEF Init

\* The only entries that are overwritten or erased are free or the client's own.
LEMMA BotsKeptStep ==
    ASSUME IInv, BotsKept, [Next]_vars
    PROVE  BotsKept'
<1> USE DEF IInv, TypeOK, BotsKept
<1>0. /\ \A v \in VirtualClients : VirtualNickname[v] \in LowerNames /\ v \notin NetworkClients \cup {NoClient}
      /\ \A d \in NetworkClients : Lowercased[nick[d]] \in LowerNames
  BY ClientsAssumption DEF LowerNames, Clients
<1>1. CASE UNCHANGED vars
  BY <1>1 DEF vars
<1>2. ASSUME NEW c \in NetworkClients, Step(c), stray' = {}
      PROVE  BotsKept'
  <2>1. CASE Quiet(c)
    BY <1>2, <2>1, QuietFrame
  <2>2. CASE Ends(c)
    <3> PICK d \in NetworkClients : DisconnectNetworkClient(d) /\ UNCHANGED stray
      BY <2>2, EndsFrame
    <3>1. life[d] = "open" /\ nick[d] # NoNickname => nicknames[Lowercased[nick[d]]] = d
      BY <1>2 DEF RegistryComplete
    <3> QED
      BY <1>0, <1>2, <3>1 DEF DisconnectNetworkClient, LeaveServer
  <2>3. ASSUME NEW n \in Names, ReceiveMessage_NICK(c, n)
        PROVE  BotsKept'
    <3>1. stray = {} /\ life[c] = "open"
      BY <1>2, <2>3 DEF ReceiveMessage_NICK, UnusedHasNoState, Receive, Queued
    <3>2. nick[c] # NoNickname => nicknames[Lowercased[nick[c]]] = c
      BY <3>1 DEF RegistryComplete
    <3>3. nicknames[Lowercased[n]] \in {NoClient, c} /\ nicknames' = Renamed(c, n)
      BY <2>3 DEF ReceiveMessage_NICK, Available
    <3> QED
      BY <1>0, <3>1, <3>2, <3>3 DEF Renamed, WithoutOldName
  <2>4. CASE UNCHANGED nicknames /\ stray \subseteq stray'
    BY <1>2, <2>4
  <2> QED
    BY <1>2, StepKinds, <2>1, <2>2, <2>3, <2>4 DEF ReceiveMessage_USER, ReceiveMessage_JOIN, EnterChannels,
       ReceiveMessage_JOIN0, ReceiveMessage_PART, ReceiveCommand_IDENTIFY
<1> QED
  BY <1>1, <1>2 DEF Next

(***************************************************************************)
(* What is known of a client that is open, and of one that is not.         *)
(***************************************************************************)
LEMMA OpenClient ==
    ASSUME NEW c \in NetworkClients, life[c] = "open"
    PROVE  /\ knownName[c] = nick[c]
           /\ c \in listened <=> Registered(c)
           /\ c \in trusted <=> identified[c]
BY DEF knownName, listened, trusted

\* Nothing is known of a client that is shut, and it is in no channel.
LEMMA ShutClient ==
    ASSUME IInv, stray = {}, NEW c \in NetworkClients, life[c] # "open", NEW ch \in Channels
    PROVE  status[c][ch] = "Absent"
BY DEF IInv, MembersAlive, Member

\* Lines of a client that is shut change nothing anybody can see.
LEMMA SameToOthers ==
    ASSUME UNCHANGED <<life, status>>, NEW c \in NetworkClients, life[c] # "open",
           \A d \in NetworkClients \ {c} :
              /\ nick'[d] = nick[d] /\ identified'[d] = identified[d]
              /\ sentNick'[d] = sentNick[d] /\ sentUser'[d] = sentUser[d]
    PROVE  UNCHANGED Promise!vars
BY DEF knownName, listened, trusted, Registered, Promise!vars

LEMMA QuietChat ==
    ASSUME IInv, stray = {}, NEW c \in NetworkClients, Quiet(c)
    PROVE  UNCHANGED Promise!vars
<1> USE DEF IInv, TypeOK
<1>1. /\ UNCHANGED <<userState, membership>>
      /\ \A d \in NetworkClients : life'[d] = life[d] \/ (life[d] = "unused" /\ life'[d] = "open")
  BY QuietFrame
<1>2. \A d \in NetworkClients :
         life[d] = "unused" => nick[d] = NoNickname /\ ~Registered(d) /\ ~identified[d]
  BY DEF UnusedHasNoState, RegistrationFirst, Registered
<1>3. knownName' = knownName
  BY <1>1, <1>2 DEF knownName, userState
<1>4. listened' = listened /\ trusted' = trusted
  BY <1>1, <1>2 DEF listened, trusted, userState, Registered
<1> QED
  BY <1>1, <1>3, <1>4 DEF membership, Promise!vars

\* Whoever is disconnected quits.
LEMMA EndsChat ==
    ASSUME IInv, stray = {}, NEW c \in NetworkClients, Ends(c)
    PROVE  Promise!Next \/ UNCHANGED Promise!vars
<1> USE DEF IInv, TypeOK
<1> PICK d \in NetworkClients : DisconnectNetworkClient(d) /\ UNCHANGED userState
  BY EndsFrame
<1>1. CASE life[d] # "open"
  <2>1. UNCHANGED <<life, status, userState>>
    BY <1>1 DEF DisconnectNetworkClient
  <2> QED
    BY <2>1 DEF knownName, listened, trusted, Registered, userState, Promise!vars
<1>2. CASE life[d] = "open"
  <2>1. life' = [life EXCEPT ![d] = "shut"]
    BY <1>2 DEF DisconnectNetworkClient
  <2>2. knownName' = [knownName EXCEPT ![d] = NoNickname]
    BY <2>1 DEF knownName, userState
  <2>3. listened' = listened \ {d} /\ trusted' = trusted \ {d}
    BY <2>1 DEF listened, trusted, userState, Registered
  <2>4. status' = [status EXCEPT ![d] = [ch \in Channels |-> "Absent"]]
    <3>1. CASE nick[d] = NoNickname
      <4>1. \A ch \in Channels : status[d][ch] = "Absent"
        BY <3>1 DEF RegistrationFirst, Registered, Member
      <4>2. status[d] = [ch \in Channels |-> "Absent"]
        BY <4>1
      <4> QED
        BY <1>2, <3>1, <4>2 DEF DisconnectNetworkClient
    <3>2. CASE nick[d] # NoNickname
      <4>1. \A ch \in Channels : ch \notin joined[d] => status[d][ch] = "Absent"
        BY DEF MembersAlive, Member
      <4>2. [ch \in Channels |-> IF ch \in joined[d] THEN "Absent" ELSE status[d][ch]]
               = [ch \in Channels |-> "Absent"]
        BY <4>1
      <4> QED
        BY <1>2, <3>2, <4>2 DEF DisconnectNetworkClient, LeaveServer
    <3> QED
      BY <3>1, <3>2
  <2>5. Promise!Quit(d)
    BY <2>2, <2>3, <2>4 DEF Promise!Quit
  <2> QED
    BY <2>5 DEF Promise!Next
<1> QED
  BY <1>1, <1>2

\* A nickname is taken by somebody who may, from nobody.
LEMMA NickChat ==
    ASSUME IInv, BotsKept, stray' = {}, NEW c \in NetworkClients, NEW n \in Names, ReceiveMessage_NICK(c, n)
    PROVE  Promise!Next
<1> USE DEF IInv, TypeOK
<1>1. stray = {} /\ life[c] = "open" /\ n # NoNickname
  BY DEF ReceiveMessage_NICK, UnusedHasNoState, Receive, Queued
<1>2. /\ nick' = [nick EXCEPT ![c] = n] /\ sentNick' = [sentNick EXCEPT ![c] = TRUE]
      /\ UNCHANGED <<life, sentUser, identified, status>>
      /\ Available(c, n)
  BY DEF ReceiveMessage_NICK, membership
<1>3. Promise!Free(c, n)
  <2>1. \A v \in VirtualClients : VirtualNickname[v] # Lowercased[n]
    BY <1>1, <1>2, ClientsAssumption DEF BotsKept, Available, Clients
  <2>2. ASSUME NEW d \in NetworkClients \ {c}, knownName[d] # NoNickname
        PROVE  Lowercased[knownName[d]] # Lowercased[n]
    <3>1. life[d] = "open" /\ knownName[d] = nick[d]
      BY <2>2 DEF knownName
    <3>2. nicknames[Lowercased[nick[d]]] = d
      BY <1>1, <2>2, <3>1 DEF RegistryComplete
    <3> QED
      BY <1>2, <3>1, <3>2, ClientsAssumption DEF Available, Clients
  <2> QED
    BY <2>1, <2>2 DEF Promise!Free
<1>4. c \notin trusted /\ Promise!Alone(c)
  BY OnlyFreshClientsRename DEF trusted, Promise!Alone, Member
<1>5. knownName' = [knownName EXCEPT ![c] = n]
  BY <1>1, <1>2 DEF knownName
<1>6. listened' \in {listened, listened \cup {c}}
  <2>1. \A d \in NetworkClients \ {c} : d \in listened' <=> d \in listened
    BY <1>2 DEF listened, Registered
  <2>2. c \in listened => c \in listened'
    BY <1>2 DEF listened, Registered
  <2>3. listened \subseteq NetworkClients /\ listened' \subseteq NetworkClients
    BY DEF listened
  <2>4. CASE c \in listened'
    <3>1. listened' = listened \cup {c}
      BY <2>1, <2>3, <2>4
    <3> QED
      BY <3>1
  <2>5. CASE c \notin listened'
    <3>1. \A d \in NetworkClients : d \in listened' <=> d \in listened
      BY <2>1, <2>2, <2>5
    <3>2. listened' = listened
      BY <2>3, <3>1, Zenon
    <3> QED
      BY <3>2
  <2> QED
    BY <2>4, <2>5
<1>7. UNCHANGED <<trusted, status>>
  BY <1>2 DEF trusted
<1>8. Promise!Rename(c, n)
  BY <1>1, <1>3, <1>4, <1>5, <1>6, <1>7 DEF Promise!Rename
<1> QED
  BY <1>8 DEF Promise!Next

\* USER makes a client with a nickname a registered one.
LEMMA UserChat ==
    ASSUME IInv, stray = {}, NEW c \in NetworkClients, ReceiveMessage_USER(c)
    PROVE  Promise!Next \/ UNCHANGED Promise!vars
<1> USE DEF IInv, TypeOK
<1>1. /\ sentUser' = [sentUser EXCEPT ![c] = TRUE]
      /\ UNCHANGED <<life, nick, sentNick, identified, status>>
  BY DEF ReceiveMessage_USER, membership
<1>2. UNCHANGED <<knownName, trusted>>
  BY <1>1 DEF knownName, trusted
<1>3. CASE life[c] = "open" /\ sentNick[c]
  <2>1. nick[c] # NoNickname
    BY <1>3 DEF RegistrationFirst
  <2>2. listened' = listened \cup {c}
    BY <1>1, <1>3 DEF listened, Registered
  <2>3. Promise!Register(c)
    BY <1>1, <1>2, <1>3, <2>1, <2>2, OpenClient DEF Promise!Register
  <2> QED
    BY <2>3 DEF Promise!Next
<1>4. CASE ~(life[c] = "open" /\ sentNick[c])
  <2>1. listened' = listened
    BY <1>1, <1>4 DEF listened, Registered
  <2> QED
    BY <1>1, <1>2, <2>1 DEF Promise!vars
<1> QED
  BY <1>3, <1>4

LEMMA IdentifyChat ==
    ASSUME IInv, NEW c \in NetworkClients, ReceiveCommand_IDENTIFY(c)
    PROVE  Promise!Next \/ UNCHANGED Promise!vars
<1> USE DEF IInv, TypeOK
<1>1. /\ identified' = [identified EXCEPT ![c] = TRUE]
      /\ UNCHANGED <<life, nick, sentNick, sentUser, status>>
      /\ Registered(c) /\ Lowercased[nick[c]] \in Users
  BY DEF ReceiveCommand_IDENTIFY, membership, MustIdentify, Preset
<1>2. UNCHANGED <<knownName, listened>>
  BY <1>1 DEF knownName, listened, Registered
<1>3. CASE life[c] = "open"
  <2>1. trusted' = trusted \cup {c}
    BY <1>1, <1>3 DEF trusted
  <2>2. Promise!Identify(c)
    BY <1>1, <1>2, <1>3, <2>1, OpenClient DEF Promise!Identify
  <2> QED
    BY <2>2 DEF Promise!Next
<1>4. CASE life[c] # "open"
  BY <1>1, <1>4, SameToOthers
<1> QED
  BY <1>3, <1>4

(***************************************************************************)
(* Channels.                                                               *)
(***************************************************************************)
\* What JOIN, JOIN 0 and PART do to the row of an open client is a Move.
LEMMA MoveChat ==
    ASSUME IInv, NEW c \in NetworkClients, life[c] = "open", Registered(c),
           UNCHANGED <<life, nick, sentNick, sentUser, identified>>,
           NEW row \in [Channels -> ClientStatus \cup {"Absent"}],
           status' = [status EXCEPT ![c] = row],
           \A ch \in Channels :
              \/ row[ch] \in {status[c][ch], "Absent"}
              \/ /\ ~MustIdentify(c) /\ MayJoin(c, ch)
                 /\ row[ch] = IF Voiced(c, ch) THEN "Voice" ELSE "NoStatus"
    PROVE  Promise!Next
<1>1. UNCHANGED <<knownName, listened, trusted>>
  BY DEF knownName, listened, trusted, Registered
<1>2. \A ch \in Channels : Promise!Deserves(c, ch) <=> Voiced(c, ch)
  BY OpenClient DEF Promise!Deserves, Voiced
<1>3. ~MustIdentify(c) => Promise!Genuine(c)
  BY OpenClient DEF Promise!Genuine, MustIdentify, Preset
<1>4. \A ch \in Channels :
         \/ row[ch] \in {status[c][ch], "Absent"}
         \/ row[ch] = Promise!Role(c, ch) /\ Promise!Admits(c, ch)
  BY <1>2, <1>3 DEF Promise!Role, Promise!Admits, MayJoin
<1>5. row \in [Channels -> {"Absent", "NoStatus", "Voice"}] /\ c \in listened
  BY OpenClient DEF ClientStatus
<1>6. Promise!Move(c)
  BY <1>1, <1>4, <1>5 DEF Promise!Move
<1> QED
  BY <1>6 DEF Promise!Next

\* On behalf of a client that is shut they do nothing, unless it strays.
LEMMA ShutMoveChat ==
    ASSUME IInv, stray = {}, NEW c \in NetworkClients, life[c] # "open",
           UNCHANGED <<life, nick, sentNick, sentUser, identified>>,
           NEW row \in [Channels -> ClientStatus \cup {"Absent"}],
           status' = [status EXCEPT ![c] = row],
           \A ch \in Channels : row[ch] \in {status[c][ch], "Absent"}
    PROVE  UNCHANGED Promise!vars
<1> USE DEF IInv, TypeOK
<1>1. \A ch \in Channels : row[ch] = status[c][ch]
  BY ShutClient
<1>2. row = status[c]
  BY <1>1
<1> QED
  BY <1>2, SameToOthers

LEMMA JoinChat ==
    ASSUME IInv, stray' = {}, NEW c \in NetworkClients, NEW chs \in SUBSET Channels,
           ReceiveMessage_JOIN(c, chs)
    PROVE  Promise!Next \/ UNCHANGED Promise!vars
<1> USE DEF IInv, TypeOK
<1> DEFINE in  == Admitted(c, chs)
           row == [ch \in Channels |-> IF ch \in in THEN (IF Voiced(c, ch) THEN "Voice" ELSE "NoStatus")
                                                   ELSE status[c][ch]]
<1>1. /\ stray = {} /\ Registered(c) /\ ~MustIdentify(c)
      /\ UNCHANGED <<life, nick, sentNick, sentUser, identified>>
      /\ status' = [status EXCEPT ![c] = row]
      /\ life[c] # "open" => in = {}
  BY DEF ReceiveMessage_JOIN, EnterChannels, userState, UnusedHasNoState, Receive, Queued
<1>2. row \in [Channels -> ClientStatus \cup {"Absent"}]
  BY DEF ClientStatus
<1>3. \A ch \in Channels :
         /\ ch \in in => /\ ~MustIdentify(c) /\ MayJoin(c, ch)
                         /\ row[ch] = IF Voiced(c, ch) THEN "Voice" ELSE "NoStatus"
         /\ ch \notin in => row[ch] \in {status[c][ch], "Absent"}
  BY <1>1 DEF Admitted
<1> HIDE DEF in, row
<1>4. CASE life[c] = "open"
  BY <1>1, <1>2, <1>3, <1>4, MoveChat
<1>5. CASE life[c] # "open"
  BY <1>1, <1>2, <1>3, <1>5, ShutMoveChat
<1> QED
  BY <1>4, <1>5

LEMMA Join0Chat ==
    ASSUME IInv, stray' = {}, NEW c \in NetworkClients, ReceiveMessage_JOIN0(c)
    PROVE  Promise!Next \/ UNCHANGED Promise!vars
<1> USE DEF IInv, TypeOK
<1> DEFINE left == {ch \in joined[c] : Member(c, ch)}
           kept == [ch \in Channels |-> IF ch \in left THEN "Absent" ELSE status[c][ch]]
           in   == {ch \in {Zero} \cap Channels :
                       ~MustIdentify(c) /\ MayJoin(c, ch) /\ kept[ch] = "Absent"}
           row  == [ch \in Channels |-> IF ch \in in THEN (IF Voiced(c, ch) THEN "Voice" ELSE "NoStatus")
                                                    ELSE kept[ch]]
<1>1. /\ stray = {} /\ Registered(c)
      /\ UNCHANGED <<life, nick, sentNick, sentUser, identified>>
      /\ status' = [status EXCEPT ![c] = row]
      /\ life[c] # "open" => in = {}
  BY DEF ReceiveMessage_JOIN0, EnterChannels, userState, UnusedHasNoState, Receive, Queued
<1>2. row \in [Channels -> ClientStatus \cup {"Absent"}]
  BY DEF ClientStatus
<1>3. \A ch \in Channels :
         /\ ch \in in => /\ ~MustIdentify(c) /\ MayJoin(c, ch)
                         /\ row[ch] = IF Voiced(c, ch) THEN "Voice" ELSE "NoStatus"
         /\ ch \notin in => row[ch] \in {status[c][ch], "Absent"}
  OBVIOUS
<1> HIDE DEF left, kept, in, row
<1>4. CASE life[c] = "open"
  BY <1>1, <1>2, <1>3, <1>4, MoveChat
<1>5. CASE life[c] # "open"
  BY <1>1, <1>2, <1>3, <1>5, ShutMoveChat
<1> QED
  BY <1>4, <1>5

LEMMA PartChat ==
    ASSUME IInv, stray = {}, NEW c \in NetworkClients, NEW list \in ChannelLists,
           ReceiveMessage_PART(c, list)
    PROVE  Promise!Next \/ UNCHANGED Promise!vars
<1> USE DEF IInv, TypeOK
<1> DEFINE row == [ch \in Channels |-> IF ch \in Left(c, list) THEN "Absent" ELSE status[c][ch]]
<1>1. /\ Registered(c) /\ UNCHANGED <<life, nick, sentNick, sentUser, identified>>
      /\ status' = [status EXCEPT ![c] = row]
  BY DEF ReceiveMessage_PART, userState
<1>2. /\ row \in [Channels -> ClientStatus \cup {"Absent"}]
      /\ \A ch \in Channels : row[ch] \in {status[c][ch], "Absent"}
  BY DEF ClientStatus
<1> HIDE DEF row
<1>3. CASE life[c] = "open"
  BY <1>1, <1>2, <1>3, MoveChat
<1>4. CASE life[c] # "open"
  BY <1>1, <1>2, <1>4, ShutMoveChat
<1> QED
  BY <1>3, <1>4

(***************************************************************************)
(* The theorem.                                                            *)
(***************************************************************************)
LEMMA InitChat == Init => Promise!Init
<1> SUFFICES ASSUME Init PROVE Promise!Init
  OBVIOUS
<1>1. knownName = [c \in NetworkClients |-> NoNickname] /\ listened = {} /\ trusted = {}
  BY DEF Init, knownName, listened, trusted
<1> QED
  BY <1>1 DEF Init, Promise!Init

\* Nobody who has strayed comes back.
LEMMA StrayOnlyGrows ==
    ASSUME IInv, Next
    PROVE  stray \subseteq stray'
BY StepKinds, QuietFrame, EndsFrame DEF Next, IInv, ReceiveMessage_NICK, ReceiveMessage_USER,
   ReceiveMessage_JOIN, ReceiveMessage_JOIN0, EnterChannels, ReceiveMessage_PART, ReceiveCommand_IDENTIFY

LEMMA StepChat ==
    ASSUME IInv, BotsKept, [Next]_vars
    PROVE  [stray' # {} \/ Promise!Next]_(Promise!vars)
<1> SUFFICES ASSUME stray' = {}
             PROVE  Promise!Next \/ UNCHANGED Promise!vars
  OBVIOUS
<1>1. CASE UNCHANGED vars
  BY <1>1 DEF vars, connection, userState, membership, knownName, listened, trusted, Registered, Promise!vars
<1>2. ASSUME NEW c \in NetworkClients, Step(c)
      PROVE  Promise!Next \/ UNCHANGED Promise!vars
  <2>1. stray \subseteq stray'
    BY <1>2, StrayOnlyGrows DEF Next
  <2>2. stray = {}
    BY <2>1
  <2> QED
    BY <1>2, <2>2, StepKinds, QuietChat, EndsChat, NickChat, UserChat, IdentifyChat, JoinChat, Join0Chat,
       PartChat
<1> QED
  BY <1>1, <1>2 DEF Next

\* Until a client registers or joins after its end or takes the empty nickname,
\* everything the handlers do to nicknames, identifications and channels is one
\* of the five things that Chat allows.
THEOREM Refinement == Spec => KeepsChat
<1>1. Spec => []BotsKept
  BY InitBotsKept, BotsKeptStep, Invariance, PTL DEF Spec
<1> QED
  BY <1>1, InitChat, StepChat, Invariance, PTL DEF Spec, KeepsChat

(***************************************************************************)
(* What this means to a bot in a channel: the part of VoteBot's world that *)
(* the server is.                                                          *)
(***************************************************************************)
MembersOf(ch) == {c \in NetworkClients : Member(c, ch)}

\* A handler lets one client at most in or out of a channel (or both, one after
\* the other), and nobody who stays there gets another nickname: what VoteBot
\* relies on when it takes a client for a nickname and tells an electorate by its
\* members.
MembersSteady ==
    [][stray' # {} \/ \A ch \in Channels :
          /\ \E c \in NetworkClients :
                MembersOf(ch)' \in {MembersOf(ch), MembersOf(ch) \cup {c}, MembersOf(ch) \ {c}}
          /\ \A c \in MembersOf(ch) \cap MembersOf(ch)' : nick'[c] = nick[c]]_vars

\* Whatever is done in a chat is done to one client, and a member keeps its name.
LEMMA ChatOneByOne ==
    ASSUME TypeOK, TypeOK', Promise!Next
    PROVE  \E c \in NetworkClients :
              /\ \A d \in NetworkClients \ {c} : status'[d] = status[d] /\ knownName'[d] = knownName[d]
              /\ \A ch \in Channels : Member(c, ch) /\ Member(c, ch)' => knownName'[c] = knownName[c]
<1> USE DEF TypeOK
<1>0. /\ knownName \in [NetworkClients -> Names] /\ knownName' \in [NetworkClients -> Names]
  BY DEF knownName, Names
<1>1. ASSUME NEW c \in NetworkClients, NEW n \in Names, Promise!Rename(c, n)
      PROVE  /\ \A d \in NetworkClients \ {c} : status'[d] = status[d] /\ knownName'[d] = knownName[d]
             /\ \A ch \in Channels : Member(c, ch) /\ Member(c, ch)' => knownName'[c] = knownName[c]
  BY <1>0, <1>1 DEF Promise!Rename, Promise!Alone, Member
<1>2. ASSUME NEW c \in NetworkClients, Promise!Register(c) \/ Promise!Identify(c) \/ Promise!Move(c)
      PROVE  /\ \A d \in NetworkClients \ {c} : status'[d] = status[d] /\ knownName'[d] = knownName[d]
             /\ \A ch \in Channels : Member(c, ch) /\ Member(c, ch)' => knownName'[c] = knownName[c]
  <2>1. knownName' = knownName
    BY <1>2 DEF Promise!Register, Promise!Identify, Promise!Move
  <2>2. status' = status \/ \E row : status' = [status EXCEPT ![c] = row]
    BY <1>2 DEF Promise!Register, Promise!Identify, Promise!Move
  <2> QED
    BY <2>1, <2>2
<1>3. ASSUME NEW c \in NetworkClients, Promise!Quit(c)
      PROVE  /\ \A d \in NetworkClients \ {c} : status'[d] = status[d] /\ knownName'[d] = knownName[d]
             /\ \A ch \in Channels : Member(c, ch) /\ Member(c, ch)' => knownName'[c] = knownName[c]
  BY <1>0, <1>3 DEF Promise!Quit, Member
<1> QED
  BY <1>1, <1>2, <1>3 DEF Promise!Next

\* With the inductive invariant, what is known of a member is its nickname.
LEMMA MembersSteadyStep ==
    ASSUME IInv, IInv', BotsKept, Next, stray' = {}, NEW ch \in Channels
    PROVE  /\ \E c \in NetworkClients :
                 MembersOf(ch)' \in {MembersOf(ch), MembersOf(ch) \cup {c}, MembersOf(ch) \ {c}}
           /\ \A c \in MembersOf(ch) \cap MembersOf(ch)' : nick'[c] = nick[c]
<1>1. PICK c \in NetworkClients :
         /\ \A d \in NetworkClients \ {c} : status'[d] = status[d] /\ knownName'[d] = knownName[d]
         /\ Member(c, ch) /\ Member(c, ch)' => knownName'[c] = knownName[c]
  <2>1. CASE Promise!Next
    BY <2>1, ChatOneByOne DEF IInv
  <2>2. CASE UNCHANGED Promise!vars
    BY <2>2 DEF Promise!vars, Next
  <2> QED
    BY <2>1, <2>2, StepChat
<1>2. stray = {}
  BY StrayOnlyGrows
<1>3. \A d \in MembersOf(ch) : knownName[d] = nick[d]
  BY <1>2 DEF MembersOf, knownName, IInv, MembersAlive
<1>4. \A d \in MembersOf(ch)' : knownName'[d] = nick'[d]
  BY DEF MembersOf, knownName, IInv, MembersAlive
<1>5. \A d \in NetworkClients \ {c} : d \in MembersOf(ch)' <=> d \in MembersOf(ch)
  BY <1>1 DEF MembersOf, Member
<1>6. MembersOf(ch)' \in {MembersOf(ch), MembersOf(ch) \cup {c}, MembersOf(ch) \ {c}}
  <2>1. MembersOf(ch) \subseteq NetworkClients /\ MembersOf(ch)' \subseteq NetworkClients
    BY DEF MembersOf
  <2>2. CASE c \in MembersOf(ch)'
    <3>1. MembersOf(ch)' = MembersOf(ch) \cup {c}
      BY <1>5, <2>1, <2>2
    <3> QED
      BY <3>1
  <2>3. CASE c \notin MembersOf(ch)'
    <3>1. MembersOf(ch)' = MembersOf(ch) \ {c}
      BY <1>5, <2>1, <2>3
    <3> QED
      BY <3>1
  <2> QED
    BY <2>2, <2>3
<1>7. \A d \in MembersOf(ch) \cap MembersOf(ch)' : nick'[d] = nick[d]
  BY <1>1, <1>3, <1>4 DEF MembersOf
<1> QED
  BY <1>6, <1>7

\* Members come and go one at a time and keep their names, whatever JOIN, PART,
\* JOIN 0, GHOST, a deadline or a failure does: this follows from Chat alone.
THEOREM ChannelSteady == Spec => MembersSteady
<1>1. IInv /\ IInv' /\ BotsKept /\ [Next]_vars =>
         [stray' # {} \/ \A ch \in Channels :
             /\ \E c \in NetworkClients :
                   MembersOf(ch)' \in {MembersOf(ch), MembersOf(ch) \cup {c}, MembersOf(ch) \ {c}}
             /\ \A c \in MembersOf(ch) \cap MembersOf(ch)' : nick'[c] = nick[c]]_vars
  BY MembersSteadyStep
<1>2. Spec => []BotsKept
  BY InitBotsKept, BotsKeptStep, Invariance, PTL DEF Spec
<1> QED
  BY <1>1, <1>2, Invariance, PTL DEF Spec, MembersSteady

================================================================================
