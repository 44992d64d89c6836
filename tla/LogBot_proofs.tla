----------------------------- MODULE LogBot_proofs -----------------------------
(***************************************************************************)
(* The properties of the logs, proved for every set of clients, nicknames, *)
(* channels and logged channels.  A step of the composed system is a step  *)
(* of the server, so everything proved of the server holds here as well.   *)
(***************************************************************************)
EXTENDS LogBot, IRCServer_proofs

LEMMA SysStepIsStep ==
    ASSUME NEW c \in NetworkClients, SysStep(c)
    PROVE  Step(c)
BY DEF SysStep, Silent, Quit, Ghost, Join, Join0, Part, Speak, Step, HandleNewData, Deadline

LEMMA StrayGrows ==
    ASSUME TypeOK, NEW c \in NetworkClients, Step(c)
    PROVE  stray \subseteq stray'
<1>1. CASE Quiet(c)
  BY <1>1, QuietFrame
<1>2. CASE Ends(c)
  BY <1>2, EndsFrame
<1>3. CASE \E n \in Names : ReceiveMessage_NICK(c, n)
  BY <1>3 DEF ReceiveMessage_NICK
<1>4. CASE ReceiveMessage_USER(c) \/ ReceiveCommand_IDENTIFY(c)
  BY <1>4 DEF ReceiveMessage_USER, ReceiveCommand_IDENTIFY
<1>5. CASE (\E chs \in SUBSET Channels : ReceiveMessage_JOIN(c, chs)) \/ ReceiveMessage_JOIN0(c)
  BY <1>5 DEF ReceiveMessage_JOIN, ReceiveMessage_JOIN0, EnterChannels
<1>6. CASE \E list \in ChannelLists : ReceiveMessage_PART(c, list)
  BY <1>6 DEF ReceiveMessage_PART
<1> QED
  BY StepKinds, <1>1, <1>2, <1>3, <1>4, <1>5, <1>6

(***************************************************************************)
(* The invariant.                                                          *)
(***************************************************************************)
LogInv ==
    /\ IInv
    /\ LogTypeOK
    /\ LogTellsMembers
    /\ LogConsistent
    /\ SenderFound

\* As long as nobody strays, LogBot finds the client itself under its name ...
LEMMA SenderIsFound ==
    ASSUME IInv, stray = {}, NEW c \in NetworkClients, life[c] = "open", nick[c] # NoNickname
    PROVE  Sender(c) = c
BY DEF IInv, RegistryComplete, Sender

\* ... and so do the members of the channels, who all have one.
LEMMA MemberIsFound ==
    ASSUME IInv, stray = {}, NEW c \in NetworkClients, NEW ch \in Channels, Member(c, ch)
    PROVE  life[c] = "open" /\ nick[c] # NoNickname /\ Sender(c) = c
<1>1. life[c] = "open"
  BY DEF IInv, MembersAlive
<1>2. nick[c] # NoNickname
  BY DEF IInv, RegistrationFirst, Registered
<1> QED
  BY <1>1, <1>2, SenderIsFound

\* A member shares its nickname with no open client.
LEMMA MemberUnique ==
    ASSUME IInv, stray = {}, NEW c \in NetworkClients, life[c] = "open", nick[c] # NoNickname,
           NEW d \in NetworkClients, NEW ch \in Channels, Member(d, ch), nick[d] = nick[c]
    PROVE  c = d
BY SenderIsFound, MemberIsFound DEF Sender

\* A log that is right before one client leaves the channels out and enters the
\* channels in is right afterwards.
LEMMA LogFollows ==
    ASSUME LogInv, stray = {}, NEW c \in NetworkClients, life[c] = "open", nick[c] # NoNickname,
           NEW out, NEW in,
           LogChange(nick[c], out, in), UNCHANGED nick,
           \A ch \in LoggedChannels :
              /\ Member(c, ch)' <=> ch \in in \/ (Member(c, ch) /\ ch \notin out)
              /\ ch \in out => Member(c, ch)
              /\ ch \in in \ out => ~Member(c, ch)
              /\ \A d \in NetworkClients \ {c} : Member(d, ch)' <=> Member(d, ch)
    PROVE  LogTellsMembers' /\ LogConsistent'
<1>1. \A ch \in LoggedChannels : ch \in Channels
  BY LoggedChannelsAssumption
<1>2. \A ch \in LoggedChannels : nick[c] \in present[ch] <=> Member(c, ch)
  BY <1>1, MemberUnique DEF LogInv, LogTellsMembers
<1>3. ~contradicted'
  BY <1>2 DEF LogChange, LogInv, LogConsistent
<1>4. ASSUME NEW ch \in LoggedChannels
      PROVE  present'[ch] = {nick'[d] : d \in {e \in NetworkClients : Member(e, ch)'}}
  <2>1. ch \in Channels
    BY <1>1
  <2>2. present'[ch] = (present[ch] \ (IF ch \in out THEN {nick[c]} ELSE {}))
                          \cup (IF ch \in in THEN {nick[c]} ELSE {})
    BY DEF LogChange
  <2>3. present[ch] = {nick[d] : d \in {e \in NetworkClients : Member(e, ch)}}
    BY DEF LogInv, LogTellsMembers
  <2>4. ASSUME NEW x
        PROVE  x \in present'[ch] <=> \E d \in NetworkClients : Member(d, ch)' /\ nick[d] = x
    <3>1. CASE x = nick[c]
      <4>1. \A d \in NetworkClients : Member(d, ch) /\ nick[d] = x => d = c
        BY <3>1, <2>1, MemberUnique DEF LogInv
      <4>2. (\E d \in NetworkClients : Member(d, ch)' /\ nick[d] = x) <=> Member(c, ch)'
        BY <3>1, <4>1
      <4>3. x \in present'[ch] <=> ch \in in \/ (ch \notin out /\ Member(c, ch))
        BY <3>1, <2>2, <1>2
      <4> QED
        BY <4>2, <4>3
    <3>2. CASE x # nick[c]
      <4>1. x \in present'[ch] <=> \E d \in NetworkClients : Member(d, ch) /\ nick[d] = x
        BY <3>2, <2>2, <2>3
      <4> QED
        BY <3>2, <4>1
    <3> QED
      BY <3>1, <3>2
  <2>5. {nick'[d] : d \in {e \in NetworkClients : Member(e, ch)'}}
           = {nick[d] : d \in {e \in NetworkClients : Member(e, ch)'}}
    OBVIOUS
  <2>6. \A x : x \in {nick[d] : d \in {e \in NetworkClients : Member(e, ch)'}}
                  <=> \E d \in NetworkClients : Member(d, ch)' /\ nick[d] = x
    OBVIOUS
  <2> QED
    BY <2>4, <2>5, <2>6
<1> QED
  BY <1>3, <1>4 DEF LogTellsMembers, LogConsistent

\* If LogBot writes nothing, its log stays right if the members stay who they are.
LEMMA LogRests ==
    ASSUME LogInv, stray = {}, UNCHANGED logVars,
           \A c \in NetworkClients, ch \in LoggedChannels :
              /\ Member(c, ch)' <=> Member(c, ch)
              /\ Member(c, ch) => nick'[c] = nick[c]
    PROVE  LogTellsMembers' /\ LogConsistent' /\ SenderFound'
<1>1. ASSUME NEW ch \in LoggedChannels
      PROVE  {nick'[c] : c \in {d \in NetworkClients : Member(d, ch)'}}
                = {nick[c] : c \in {d \in NetworkClients : Member(d, ch)}}
  <2> DEFINE before == {nick[c] : c \in {d \in NetworkClients : Member(d, ch)}}
             after  == {nick'[c] : c \in {d \in NetworkClients : Member(d, ch)'}}
  <2>1. \A x : x \in after <=> \E d \in NetworkClients : Member(d, ch)' /\ nick'[d] = x
    OBVIOUS
  <2>2. \A x : x \in before <=> \E d \in NetworkClients : Member(d, ch) /\ nick[d] = x
    OBVIOUS
  <2>3. \A x : x \in after <=> x \in before
    BY <2>1, <2>2
  <2> QED
    BY <2>3
<1> QED
  BY <1>1 DEF LogInv, LogTellsMembers, LogConsistent, SenderFound, logVars

(***************************************************************************)
(* Every step.                                                             *)
(***************************************************************************)
LEMMA ChangeType ==
    ASSUME LogTypeOK, NEW n \in Names, NEW out, NEW in, LogChange(n, out, in), UNCHANGED botFailed
    PROVE  LogTypeOK'
<1>1. present' \in [LoggedChannels -> SUBSET Names]
  BY DEF LogChange, LogTypeOK
<1>2. contradicted' \in BOOLEAN
  BY Zenon DEF LogChange
<1>3. botFailed' \in BOOLEAN
  BY DEF LogTypeOK
<1> QED
  BY <1>1, <1>2, <1>3 DEF LogTypeOK

LEMMA NotFoundType ==
    ASSUME LogTypeOK, NotFound
    PROVE  LogTypeOK'
BY DEF LogTypeOK, NotFound

LEMMA RestType ==
    ASSUME LogTypeOK, UNCHANGED logVars
    PROVE  LogTypeOK'
BY DEF LogTypeOK, logVars

LEMMA LogQuitType ==
    ASSUME IInv, LogTypeOK, NEW c \in NetworkClients, LogQuit(c)
    PROVE  LogTypeOK'
<1>1. Sender(c) \in NetworkClients => nick[Sender(c)] \in Names
  BY DEF IInv, TypeOK
<1> QED
  BY <1>1, ChangeType, NotFoundType, RestType DEF LogQuit

LEMMA LogMovesType ==
    ASSUME IInv, LogTypeOK, NEW c \in NetworkClients, NEW left, NEW entered, LogMoves(c, left, entered)
    PROVE  LogTypeOK'
<1>1. Sender(c) \in NetworkClients => nick[Sender(c)] \in Names
  BY DEF IInv, TypeOK
<1> QED
  BY <1>1, ChangeType, NotFoundType, RestType DEF LogMoves

LEMMA LogTypeStep ==
    ASSUME IInv, LogTypeOK, NEW c \in NetworkClients, SysStep(c)
    PROVE  LogTypeOK'
<1>1. CASE Silent(c)
  BY <1>1, RestType DEF Silent
<1>2. CASE Quit(c)
  BY <1>2, LogQuitType DEF Quit
<1>3. CASE \E n \in LowerNames : Ghost(c, n)
  BY <1>3, LogQuitType DEF Ghost, ReceiveCommand_GHOST
<1>4. CASE (\E chs \in SUBSET Channels : Join(c, chs)) \/ Join0(c) \/ \E list \in ChannelLists : Part(c, list)
  BY <1>4, LogMovesType DEF Join, Join0, Part
<1>5. CASE \E ch \in LoggedChannels : Speak(c, ch)
  <2> PICK ch \in LoggedChannels : Speak(c, ch)
    BY <1>5
  <2>1. CASE NotFound
    BY <2>1, NotFoundType
  <2>2. CASE /\ contradicted' = (contradicted \/ nick[Sender(c)] \notin present[ch])
             /\ UNCHANGED <<present, botFailed>>
    <3>1. contradicted' \in BOOLEAN
      BY <2>2, Zenon
    <3> QED
      BY <2>2, <3>1 DEF LogTypeOK
  <2> QED
    BY <2>1, <2>2 DEF Speak
<1> QED
  BY <1>1, <1>2, <1>3, <1>4, <1>5 DEF SysStep

\* A client that is disconnected while nobody strays leaves the logs right.
LEMMA LogQuitRight ==
    ASSUME LogInv, stray = {}, NEW c \in NetworkClients,
           DisconnectNetworkClient(c), UNCHANGED nick, LogQuit(c)
    PROVE  LogTellsMembers' /\ LogConsistent' /\ (botFailed' = botFailed)
<1> USE LoggedChannelsAssumption
<1>1. \A d \in NetworkClients \ {c}, ch \in Channels : Member(d, ch)' <=> Member(d, ch)
  BY DEF DisconnectNetworkClient, LeaveServer, Member, LogInv, IInv, TypeOK
<1>2. CASE life[c] # "open" \/ nick[c] = NoNickname \/ joined[c] \cap LoggedChannels = {}
  <2>1. \A ch \in LoggedChannels : Member(c, ch)' <=> Member(c, ch)
    BY <1>2 DEF DisconnectNetworkClient, LeaveServer, Member, LogInv, IInv, TypeOK
  <2>2. UNCHANGED logVars
    BY <1>2 DEF LogQuit
  <2> QED
    BY <1>1, <2>1, <2>2, LogRests DEF logVars
<1>3. CASE life[c] = "open" /\ nick[c] # NoNickname /\ joined[c] \cap LoggedChannels # {}
  <2>1. Sender(c) = c
    BY <1>3, SenderIsFound DEF LogInv
  <2>2. LogChange(nick[c], joined[c], {}) /\ UNCHANGED botFailed
    BY <1>3, <2>1 DEF LogQuit
  <2>3. \A ch \in Channels :
           /\ ~Member(c, ch)'
           /\ Member(c, ch) <=> ch \in joined[c]
    BY <1>3 DEF DisconnectNetworkClient, LeaveServer, Member, LogInv, IInv, TypeOK, MembersAlive
  <2>4. \A ch \in LoggedChannels :
              /\ Member(c, ch)' <=> ch \in {} \/ (Member(c, ch) /\ ch \notin joined[c])
              /\ ch \in joined[c] => Member(c, ch)
              /\ ch \in {} \ joined[c] => ~Member(c, ch)
              /\ \A d \in NetworkClients \ {c} : Member(d, ch)' <=> Member(d, ch)
    BY <1>1, <2>3
  <2> QED
    BY <1>3, <2>2, <2>4, LogFollows
<1> QED
  BY <1>2, <1>3

\* A registered client that leaves the channels of left and enters those of
\* entered leaves the logs right.
LEMMA LogMovesRight ==
    ASSUME LogInv, stray = {}, NEW c \in NetworkClients, life[c] = "open", nick[c] # NoNickname,
           NEW left, NEW entered, LogMoves(c, left, entered), UNCHANGED nick,
           \A ch \in LoggedChannels :
              /\ Member(c, ch)' <=> ch \in entered \/ (Member(c, ch) /\ ch \notin left)
              /\ ch \in left => Member(c, ch)
              /\ ch \in entered \ left => ~Member(c, ch)
              /\ \A d \in NetworkClients \ {c} : Member(d, ch)' <=> Member(d, ch)
    PROVE  LogTellsMembers' /\ LogConsistent' /\ (botFailed' = botFailed)
<1>1. CASE (left \cup entered) \cap LoggedChannels = {}
  <2>1. UNCHANGED logVars
    BY <1>1 DEF LogMoves
  <2>2. \A d \in NetworkClients, ch \in LoggedChannels : Member(d, ch)' <=> Member(d, ch)
    BY <1>1
  <2> QED
    BY <2>1, <2>2, LogRests DEF logVars
<1>2. CASE (left \cup entered) \cap LoggedChannels # {}
  <2>1. Sender(c) = c
    BY SenderIsFound DEF LogInv
  <2>2. \A ch \in entered \cap LoggedChannels : status'[c][ch] # "Absent"
    BY DEF Member
  <2>3. LogChange(nick[c], left, entered) /\ UNCHANGED botFailed
    BY <1>2, <2>1, <2>2 DEF LogMoves
  <2> QED
    BY <2>3, LogFollows
<1> QED
  BY <1>1, <1>2

LEMMA LogStep ==
    ASSUME LogInv, stray' = {}, NEW c \in NetworkClients, SysStep(c)
    PROVE  LogTellsMembers' /\ LogConsistent' /\ (botFailed' = botFailed)
<1> USE LoggedChannelsAssumption
<1>1. IInv /\ TypeOK /\ Step(c)
  BY SysStepIsStep DEF LogInv, IInv
<1>2. stray = {}
  BY <1>1, StrayGrows
<1>3. ASSUME Registered(c), read[c] # "none"
      PROVE  nick[c] # NoNickname /\ (life[c] = "open" \/ life[c] = "shut")
  BY <1>1, <1>2, <1>3 DEF IInv, RegistrationFirst, Registered, UnusedHasNoState, TypeOK
<1>4. CASE Silent(c)
  <2>1. CASE \E n \in Names : ReceiveMessage_NICK(c, n)
    <3>1. PICK n \in Names : ReceiveMessage_NICK(c, n)
      BY <2>1
    <3>2. \A ch \in Channels : ~Member(c, ch)
      BY <1>1, <3>1, OnlyFreshClientsRename
    <3>3. /\ UNCHANGED status
          /\ \A d \in NetworkClients \ {c} : nick'[d] = nick[d]
      BY <1>1, <3>1 DEF ReceiveMessage_NICK, membership, TypeOK
    <3> QED
      BY <1>2, <1>4, <3>2, <3>3, LogRests DEF Silent, Member, logVars
  <2>2. CASE ~\E n \in Names : ReceiveMessage_NICK(c, n)
    <3>1. UNCHANGED <<status, nick>>
      BY <1>1, <1>4, <2>2, QuietFrame DEF Silent, Quiet, ReceiveMessage_USER, ReceiveCommand_IDENTIFY,
         membership, userState
    <3> QED
      BY <1>2, <1>4, <3>1, LogRests DEF Silent, Member, logVars
  <2> QED
    BY <2>1, <2>2
<1>5. CASE Quit(c)
  <2>1. DisconnectNetworkClient(c) /\ UNCHANGED nick
    BY <1>5 DEF Quit, HandleReadError, HandleSendError, InvalidLine, ReceiveMessage_QUIT, NickDeadline,
       IdentifyDeadline, PongDeadline, EndConnection, userState
  <2> QED
    BY <1>2, <1>5, <2>1, LogQuitRight DEF Quit
<1>6. ASSUME NEW n \in LowerNames, Ghost(c, n)
      PROVE  LogTellsMembers' /\ LogConsistent' /\ (botFailed' = botFailed)
  <2> PICK d \in NetworkClients : d = nicknames[n]
    BY <1>6 DEF Ghost, ReceiveCommand_GHOST
  <2>1. DisconnectNetworkClient(d) /\ UNCHANGED nick /\ LogQuit(d)
    BY <1>6 DEF Ghost, ReceiveCommand_GHOST, userState
  <2> QED
    BY <1>2, <2>1, LogQuitRight
<1>7. ASSUME NEW chs \in SUBSET Channels, Join(c, chs)
      PROVE  LogTellsMembers' /\ LogConsistent' /\ (botFailed' = botFailed)
  <2> DEFINE entered == Admitted(c, chs)
  <2>1. ReceiveMessage_JOIN(c, chs) /\ LogMoves(c, {}, entered)
    BY <1>7 DEF Join
  <2>2. nick[c] # NoNickname /\ UNCHANGED nick
    BY <1>3, <2>1 DEF ReceiveMessage_JOIN, Receive, Queued, userState
  <2>3. \A ch \in Channels :
           /\ Member(c, ch)' <=> ch \in entered \/ Member(c, ch)
           /\ ch \in entered => ~Member(c, ch)
           /\ \A d \in NetworkClients \ {c} : Member(d, ch)' <=> Member(d, ch)
    BY <1>1, <2>1 DEF ReceiveMessage_JOIN, EnterChannels, Admitted, Member, TypeOK
  <2>4. CASE life[c] = "open"
    <3> HIDE DEF entered
    <3>1. \A ch \in LoggedChannels :
              /\ Member(c, ch)' <=> ch \in entered \/ (Member(c, ch) /\ ch \notin {})
              /\ ch \in {} => Member(c, ch)
              /\ ch \in entered \ {} => ~Member(c, ch)
              /\ \A d \in NetworkClients \ {c} : Member(d, ch)' <=> Member(d, ch)
      BY <2>3
    <3> QED
      BY <1>2, <2>1, <2>2, <2>4, <3>1, LogMovesRight
  <2>5. CASE life[c] = "shut"
    <3>1. entered = {}
      BY <2>1, <2>5 DEF ReceiveMessage_JOIN, EnterChannels
    <3>2. UNCHANGED logVars
      BY <2>1, <3>1 DEF LogMoves
    <3> QED
      BY <1>2, <2>2, <2>3, <3>1, <3>2, LogRests DEF logVars
  <2> QED
    BY <1>3, <2>1, <2>4, <2>5 DEF ReceiveMessage_JOIN, Receive, Queued
<1>8. CASE Join0(c)
  <2> DEFINE left    == {ch \in joined[c] : Member(c, ch)}
             row     == [ch \in Channels |-> IF ch \in left THEN "Absent" ELSE status[c][ch]]
             chs     == {ch \in {Zero} \cap Channels :
                           ~MustIdentify(c) /\ MayJoin(c, ch) /\ row[ch] = "Absent"}
             entered == {ch \in {Zero} \cap Channels : Member(c, ch)' /\ (Member(c, ch) => ch \in joined[c])}
  <2>1. ReceiveMessage_JOIN0(c) /\ LogMoves(c, left, entered)
    BY <1>8 DEF Join0
  <2>2. nick[c] # NoNickname /\ UNCHANGED nick
    BY <1>3, <2>1 DEF ReceiveMessage_JOIN0, Receive, Queued, userState
  <2>3. EnterChannels(c, chs, row, joined[c] \ left)
    BY <2>1 DEF ReceiveMessage_JOIN0
  <2>4. \A ch \in Channels :
           /\ Member(c, ch)' <=> ch \in chs \/ (Member(c, ch) /\ ch \notin left)
           /\ ch \in left <=> Member(c, ch) /\ ch \in joined[c]
           /\ ch \in chs \ left => ~Member(c, ch)
           /\ \A d \in NetworkClients \ {c} : Member(d, ch)' <=> Member(d, ch)
    BY <1>1, <2>3 DEF EnterChannels, Member, TypeOK
  <2>5. chs \subseteq entered /\ entered \subseteq chs
    BY <2>4
  <2>6. CASE life[c] = "open"
    <3> HIDE DEF left, chs, entered
    <3>1. \A ch \in LoggedChannels :
              /\ Member(c, ch)' <=> ch \in entered \/ (Member(c, ch) /\ ch \notin left)
              /\ ch \in left => Member(c, ch)
              /\ ch \in entered \ left => ~Member(c, ch)
              /\ \A d \in NetworkClients \ {c} : Member(d, ch)' <=> Member(d, ch)
      BY <2>4, <2>5
    <3> QED
      BY <1>2, <2>1, <2>2, <2>6, <3>1, LogMovesRight
  <2>7. CASE life[c] = "shut"
    <3>1. \A ch \in Channels : ~Member(c, ch)
      BY <1>1, <1>2, <2>7 DEF IInv, MembersAlive
    <3>2. chs = {}
      BY <2>3, <2>7 DEF EnterChannels
    <3>3. left \cap LoggedChannels = {}
      BY <3>1
    <3>4. UNCHANGED logVars
      BY <2>1, <2>5, <3>2, <3>3 DEF LogMoves
    <3> QED
      BY <1>2, <2>2, <2>4, <3>1, <3>2, <3>4, LogRests DEF logVars
  <2> QED
    BY <1>3, <2>1, <2>6, <2>7 DEF ReceiveMessage_JOIN0, Receive, Queued
<1>9. ASSUME NEW list \in ChannelLists, Part(c, list)
      PROVE  LogTellsMembers' /\ LogConsistent' /\ (botFailed' = botFailed)
  <2> DEFINE left == Left(c, list)
  <2>1. ReceiveMessage_PART(c, list) /\ LogMoves(c, left, {})
    BY <1>9 DEF Part
  <2>2. nick[c] # NoNickname /\ UNCHANGED nick
    BY <1>3, <2>1 DEF ReceiveMessage_PART, Receive, Queued, userState
  <2>3. \A ch \in left : Member(c, ch)
    <3> SUFFICES ASSUME NEW ch \in left
                 PROVE  Member(c, ch)
      OBVIOUS
    <3>1. PICK k \in DOMAIN list : ch = list[k] /\ \A j \in 1..k : Member(c, list[j])
      BY DEF Left
    <3>2. k \in 1..k
      BY DEF ChannelLists
    <3> QED
      BY <3>1, <3>2
  <2>4. \A ch \in Channels :
           /\ Member(c, ch)' <=> Member(c, ch) /\ ch \notin left
           /\ \A d \in NetworkClients \ {c} : Member(d, ch)' <=> Member(d, ch)
    BY <1>1, <2>1 DEF ReceiveMessage_PART, Member, TypeOK
  <2> HIDE DEF left
  <2>5. CASE life[c] = "open"
    <3>1. \A ch \in LoggedChannels :
              /\ Member(c, ch)' <=> ch \in {} \/ (Member(c, ch) /\ ch \notin left)
              /\ ch \in left => Member(c, ch)
              /\ ch \in {} \ left => ~Member(c, ch)
              /\ \A d \in NetworkClients \ {c} : Member(d, ch)' <=> Member(d, ch)
      BY <2>3, <2>4
    <3> QED
      BY <1>2, <2>1, <2>2, <2>5, <3>1, LogMovesRight
  <2>6. CASE life[c] = "shut"
    <3>1. \A ch \in Channels : ~Member(c, ch)
      BY <1>1, <1>2, <2>6 DEF IInv, MembersAlive
    <3>2. left \cap LoggedChannels = {}
      BY <2>3, <3>1
    <3>3. UNCHANGED logVars
      BY <2>1, <3>2 DEF LogMoves
    <3> QED
      BY <1>2, <2>2, <2>4, <3>1, <3>3, LogRests DEF logVars
  <2> QED
    BY <1>3, <2>1, <2>5, <2>6 DEF ReceiveMessage_PART, Receive, Queued
<1>10. ASSUME NEW ch \in LoggedChannels, Speak(c, ch)
       PROVE  LogTellsMembers' /\ LogConsistent' /\ (botFailed' = botFailed)
  <2>1. Member(c, ch) /\ UNCHANGED <<status, nick>>
    BY <1>10 DEF Speak, Member, Reply, membership, userState
  <2>2. Sender(c) = c
    BY <1>1, <1>2, <2>1, MemberIsFound
  <2>3. nick[c] \in present[ch]
    BY <1>2, <2>1 DEF LogInv, LogTellsMembers
  <2>4. UNCHANGED <<present, botFailed>> /\ contradicted' = (contradicted \/ nick[c] \notin present[ch])
    BY <1>10, <2>2 DEF Speak
  <2>5. UNCHANGED present /\ UNCHANGED botFailed /\ ~contradicted'
    BY <1>2, <2>3, <2>4, Zenon DEF LogInv, LogConsistent
  <2> QED
    BY <1>2, <2>1, <2>5 DEF LogInv, LogTellsMembers, LogConsistent, Member
<1> QED
  BY <1>4, <1>5, <1>6, <1>7, <1>8, <1>9, <1>10 DEF SysStep

(***************************************************************************)
(* The theorems.                                                           *)
(***************************************************************************)
LEMMA InitLogInv == LogInit => LogInv
<1> SUFFICES ASSUME LogInit PROVE LogInv
  OBVIOUS
<1>1. IInv
  BY InitIInv DEF LogInit
<1>2. \A c \in NetworkClients, ch \in LoggedChannels : ~Member(c, ch)
  BY LoggedChannelsAssumption DEF LogInit, Init, Member
<1>3. LogTellsMembers
  BY <1>2 DEF LogTellsMembers, LogInit
<1> QED
  BY <1>1, <1>3 DEF LogInit, LogInv, LogTypeOK, LogConsistent, SenderFound

LEMMA LogInvStep ==
    ASSUME LogInv, [SysNext]_sysVars
    PROVE  LogInv'
<1>1. CASE UNCHANGED sysVars
  <2>1. IInv'
    BY <1>1, IInvStep DEF LogInv, sysVars
  <2>2. UNCHANGED <<nick, status, stray, logVars>>
    BY <1>1 DEF sysVars, vars, userState, membership
  <2> QED
    BY <2>1, <2>2 DEF LogInv, logVars, LogTypeOK, LogTellsMembers, LogConsistent, SenderFound, Member
<1>2. CASE SysNext
  <2>1. PICK c \in NetworkClients : SysStep(c)
    BY <1>2 DEF SysNext
  <2>2. IInv'
    BY <2>1, SysStepIsStep, IInvStep DEF Next, LogInv
  <2>3. LogTypeOK'
    BY <2>1, LogTypeStep DEF LogInv
  <2>4. CASE stray' = {}
    <3>1. LogTellsMembers' /\ LogConsistent' /\ (botFailed' = botFailed)
      BY <2>1, <2>4, LogStep
    <3>2. ~botFailed
      BY <1>2 DEF SysNext
    <3> QED
      BY <2>2, <2>3, <3>1, <3>2 DEF LogInv, SenderFound
  <2>5. CASE stray' # {}
    BY <2>2, <2>3, <2>5 DEF LogInv, LogTellsMembers, LogConsistent, SenderFound
  <2> QED
    BY <2>4, <2>5
<1> QED
  BY <1>1, <1>2

\* The inductive invariant of the server and its logs holds in every reachable
\* state.
THEOREM LogInvariance == SysSpec => []LogInv
BY InitLogInv, LogInvStep, PTL DEF SysSpec

\* The composed system is the server: whatever holds of Spec holds of SysSpec.
THEOREM SystemIsServer == SysSpec => Spec
<1>1. LogInit => Init
  BY DEF LogInit
<1>2. [SysNext]_sysVars => [Next]_vars
  BY SysStepIsStep DEF SysNext, Next, sysVars
<1> QED
  BY <1>1, <1>2, PTL DEF SysSpec, Spec

\* The variables of the logs keep their types.
THEOREM LogTypes == SysSpec => []LogTypeOK
<1>1. LogInv => LogTypeOK
  BY DEF LogInv
<1> QED
  BY <1>1, LogInvariance, PTL

\* As long as nobody strays, who is in a channel can be read from its log.
THEOREM LogRight == SysSpec => []LogTellsMembers
<1>1. LogInv => LogTellsMembers
  BY DEF LogInv
<1> QED
  BY <1>1, LogInvariance, PTL

\* As long as nobody strays, no line of a log contradicts an earlier one.
THEOREM LogSound == SysSpec => []LogConsistent
<1>1. LogInv => LogConsistent
  BY DEF LogInv
<1> QED
  BY <1>1, LogInvariance, PTL

\* As long as nobody strays, the assertions in LogBot hold.
THEOREM SenderAlwaysFound == SysSpec => []SenderFound
<1>1. LogInv => SenderFound
  BY DEF LogInv
<1> QED
  BY <1>1, LogInvariance, PTL

================================================================================
