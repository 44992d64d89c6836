------------------------------- MODULE IRCServer -------------------------------
(***************************************************************************)
(* The heart of the server: the life of a connection (CNetworkClient), the *)
(* registry of nicknames and the channel memberships (CIRCServer), and the *)
(* two NickServ commands that change them (CNickServ).                     *)
(*                                                                         *)
(* The program runs on one thread, an event loop: every action below is    *)
(* one completion handler of that loop, from its first line to its return, *)
(* or an event outside the program that puts a completion in the loop's    *)
(* queue.  What makes it hard is the gap between the two: a completion     *)
(* that is already queued still runs when another handler has closed the   *)
(* socket or re-armed the timer in the meantime.                           *)
(*                                                                         *)
(* A read that returns several lines is modelled as one read per line.     *)
(***************************************************************************)
EXTENDS Naturals, Sequences

CONSTANTS
    NetworkClients,     \* the CNetworkClient objects, one per connection
    VirtualClients,     \* the bots, whose names are taken from the start
    NoClient,           \* "no entry" in the registry
    Nicknames,          \* the nicknames clients ask for, in their spelling
    NoNickname,         \* the empty string, which clients may ask for as well
    Lowercased,         \* the lowercased form of every nickname
    VirtualNickname,    \* the lowercased nickname of every virtual client
    Users,              \* the preset nicknames: the keys of UserPasshashMap
    Channels,           \* the preset channels: the keys of m_Channels
    AllowedUsers,       \* for every channel, who gets voice there
    ObserverChannels,   \* the channels anybody may join
    Zero,               \* the channel name "0", configured or not
    MaxChannelList      \* bound: the longest channel list of a PART message

Names      == Nicknames \cup {NoNickname}
LowerNames == {Lowercased[n] : n \in Names} \cup {VirtualNickname[v] : v \in VirtualClients}
Clients    == NetworkClients \cup VirtualClients

ASSUME ClientsAssumption ==
    /\ NetworkClients \cap VirtualClients = {}
    /\ NoClient \notin Clients

\* tolower leaves the empty string alone and nothing else becomes empty; no
\* password can be configured for the empty name, and no bot has it.
ASSUME NamesAssumption ==
    /\ DOMAIN Lowercased = Names
    /\ \A n \in Names : Lowercased[n] = NoNickname <=> n = NoNickname
    /\ NoNickname \notin Users
    /\ VirtualClients = DOMAIN VirtualNickname
    /\ \A v, w \in VirtualClients :
          /\ VirtualNickname[v] # NoNickname
          /\ VirtualNickname[v] = VirtualNickname[w] => v = w

ASSUME ChannelsAssumption ==
    /\ DOMAIN AllowedUsers = Channels
    /\ ObserverChannels \subseteq Channels
    /\ MaxChannelList \in Nat

VARIABLES
    life,       \* m_ShutdownCompleted and membership of m_NetworkClients
    read,       \* the asynchronous read of the client, see ReadStates
    timer,      \* the deadline m_Timer waits for
    due,        \* the deadline handler that waits in the loop's queue
    nick,       \* m_Nickname
    sentNick,   \* UserState.HasSentNickMessage
    sentUser,   \* UserState.HasSentUserMessage
    identified, \* UserState.IsIdentified
    joined,     \* m_JoinedChannels
    status,     \* for every channel, its m_Clients entry for the client
    nicknames,  \* m_Nicknames
    crashed,    \* an undefined behaviour has ended the process
    stray       \* history: clients that have registered or joined after their
                \* shutdown, or have taken the empty nickname

connection == <<life, read, timer, due>>
userState  == <<nick, sentNick, sentUser, identified>>
membership == <<joined, status>>
vars       == <<connection, userState, membership, nicknames, crashed, stray>>

\* "pending": waits for the peer; "hung": waits for a peer that is gone
\* without a trace; "ready": a successful completion with a line is queued;
\* "failed": a completion with an error is queued; "none": no read at all.
ReadStates   == {"none", "pending", "hung", "ready", "failed"}
Deadlines    == {"Nick", "Identify", "Ping", "Pong"}
ClientStatus == {"NoStatus", "Voice"}
ChannelLists == UNION {[1..n -> Channels] : n \in 1..MaxChannelList}

TypeOK ==
    /\ life       \in [NetworkClients -> {"unused", "open", "shut"}]
    /\ read       \in [NetworkClients -> ReadStates]
    /\ timer      \in [NetworkClients -> Deadlines \cup {"None"}]
    /\ due        \in [NetworkClients -> Deadlines \cup {"None"}]
    /\ nick       \in [NetworkClients -> Names]
    /\ sentNick   \in [NetworkClients -> BOOLEAN]
    /\ sentUser   \in [NetworkClients -> BOOLEAN]
    /\ identified \in [NetworkClients -> BOOLEAN]
    /\ joined     \in [NetworkClients -> SUBSET Channels]
    /\ status     \in [NetworkClients -> [Channels -> ClientStatus \cup {"Absent"}]]
    /\ nicknames  \in [LowerNames -> Clients \cup {NoClient}]
    /\ crashed    \in BOOLEAN
    /\ stray      \subseteq NetworkClients

Init ==
    /\ life       = [c \in NetworkClients |-> "unused"]
    /\ read       = [c \in NetworkClients |-> "none"]
    /\ timer      = [c \in NetworkClients |-> "None"]
    /\ due        = [c \in NetworkClients |-> "None"]
    /\ nick       = [c \in NetworkClients |-> NoNickname]
    /\ sentNick   = [c \in NetworkClients |-> FALSE]
    /\ sentUser   = [c \in NetworkClients |-> FALSE]
    /\ identified = [c \in NetworkClients |-> FALSE]
    /\ joined     = [c \in NetworkClients |-> {}]
    /\ status     = [c \in NetworkClients |-> [ch \in Channels |-> "Absent"]]
    /\ nicknames  = [n \in LowerNames |-> IF \E v \in VirtualClients : VirtualNickname[v] = n
                                          THEN CHOOSE v \in VirtualClients : VirtualNickname[v] = n
                                          ELSE NoClient]
    /\ crashed    = FALSE
    /\ stray      = {}

(***************************************************************************)
(* What the code asks of a client.                                         *)
(***************************************************************************)
Registered(c)   == sentNick[c] /\ sentUser[c]
Preset(n)       == Lowercased[n] \in Users
MustIdentify(c) == Preset(nick[c]) /\ ~identified[c]
Member(c, ch)   == status[c][ch] # "Absent"
Voiced(c, ch)   == Lowercased[nick[c]] \in AllowedUsers[ch]
MayJoin(c, ch)  == Voiced(c, ch) \/ ch \in ObserverChannels

\* The last shared_ptr to a client that is shut is gone: no read, no wait.
Released(c) == life[c] = "shut" /\ read[c] = "none" /\ timer[c] = "None" /\ due[c] = "None"

(***************************************************************************)
(* Effects that several handlers share.                                    *)
(***************************************************************************)
\* The loop is running and has a completion of the client's read in its queue.
Queued(c, result) == ~crashed /\ read[c] = result

\* A queued line is handed to its handler; afterwards _HandleNewData reads on
\* if the socket is still open and returns if it is not.
Receive(c) ==
    /\ Queued(c, "ready")
    /\ read' = [read EXCEPT ![c] = IF life[c] = "open" THEN "pending" ELSE "none"]

\* Closing the socket turns a read that waits into a completion with an error;
\* a completion that is already queued stays what it is.
Aborted(c) == IF read[c] \in {"pending", "hung"} THEN "failed" ELSE read[c]

\* _CheckForPresetNickname: either deadline replaces the one m_Timer waits for.
CheckForPresetNickname(c, n) ==
    timer' = [timer EXCEPT ![c] = IF Preset(n) THEN "Identify" ELSE "Ping"]

\* What DisconnectNetworkClient takes away from a client with a nickname: the
\* channels of m_JoinedChannels and the entry of the registry.
LeaveServerWithoutQuit(c) ==        \* mutant: stays in the channels
    /\ UNCHANGED status
    /\ nicknames' = [nicknames EXCEPT ![Lowercased[nick[c]]] = NoClient]

LeaveServerIfRegistered(c) ==       \* mutant: keeps a name reserved before USER
    /\ status' = [status EXCEPT ![c] =
                    [ch \in Channels |-> IF ch \in joined[c] THEN "Absent" ELSE @[ch]]]
    /\ nicknames' = IF Registered(c) THEN [nicknames EXCEPT ![Lowercased[nick[c]]] = NoClient] ELSE nicknames

LeaveServer(c) ==
    /\ status' = [status EXCEPT ![c] =
                    [ch \in Channels |-> IF ch \in joined[c] THEN "Absent" ELSE @[ch]]]
    /\ nicknames' = [nicknames EXCEPT ![Lowercased[nick[c]]] = NoClient]

\* DisconnectNetworkClient with CNetworkClient::Shutdown.  Only a client with a
\* nonempty nickname leaves its channels and the registry, m_JoinedChannels is
\* left as it is, and a client that is shut already is left alone.
DisconnectTwice(c) ==               \* mutant: no HasCompletedShutdown
    /\ life'  = [life EXCEPT ![c] = "shut"]
    /\ timer' = [timer EXCEPT ![c] = "None"]
    /\ IF nick[c] = NoNickname THEN UNCHANGED <<status, nicknames>> ELSE LeaveServer(c)

DisconnectNetworkClient(c) ==
    IF life[c] = "open"
      THEN /\ life'  = [life EXCEPT ![c] = "shut"]
           /\ timer' = [timer EXCEPT ![c] = "None"]
           /\ IF nick[c] = NoNickname THEN UNCHANGED <<status, nicknames>> ELSE LeaveServer(c)
      ELSE UNCHANGED <<life, timer, status, nicknames>>

(***************************************************************************)
(* Connections and what the peer's end of them does.                       *)
(***************************************************************************)
\* _HandleNewConnection with CNetworkClient::Init.
HandleNewConnection(c) ==
    /\ ~crashed
    /\ life[c] = "unused"
    /\ life'  = [life EXCEPT ![c] = "open"]
    /\ timer' = [timer EXCEPT ![c] = "Nick"]
    /\ read'  = [read EXCEPT ![c] = "pending"]
    /\ UNCHANGED <<due, userState, membership, nicknames, crashed, stray>>

\* A line of the client arrives, its read fails, or nothing is heard from the
\* client any more.
PeerActs(c) ==
    /\ ~crashed
    /\ read[c] = "pending"
    /\ \E r \in {"ready", "failed", "hung"} : read' = [read EXCEPT ![c] = r]
    /\ UNCHANGED <<life, timer, due, userState, membership, nicknames, crashed, stray>>

\* _HandleNewData with an error code (the client closed the connection, the
\* SSL handshake failed, or we closed the socket ourselves).
HandleReadError(c) ==
    /\ Queued(c, "failed")
    /\ read' = [read EXCEPT ![c] = "none"]
    /\ DisconnectNetworkClient(c)
    /\ UNCHANGED <<due, userState, joined, crashed, stray>>

\* _HandleSend with an error code, before the read has noticed anything.
HandleSendError(c) ==
    /\ ~crashed
    /\ life[c] = "open"
    /\ read' = [read EXCEPT ![c] = Aborted(c)]
    /\ DisconnectNetworkClient(c)
    /\ UNCHANGED <<due, userState, joined, crashed, stray>>

(***************************************************************************)
(* Messages.  Each action takes one queued line; its guard is the path     *)
(* through the handler that changes something.  Every other line, whatever *)
(* the reply to it, is Reply.                                              *)
(***************************************************************************)
\* INFO, MOTD, NAMES, PING, TOPIC, VERSION, PRIVMSG, NS HELP, unknown commands,
\* and each message above or below that its handler rejects.
Reply(c) ==
    /\ Receive(c)
    /\ UNCHANGED <<life, timer, due, userState, membership, nicknames, crashed, stray>>

\* The data holds no complete line: _HandleNewData reads on without asking
\* whether the socket is still open, and on a closed one the read fails.
PartialLineForgotten(c) ==          \* mutant: no completion for a closed socket
    /\ Queued(c, "ready")
    /\ read' = [read EXCEPT ![c] = "pending"]
    /\ UNCHANGED <<life, timer, due, userState, membership, nicknames, crashed, stray>>

PartialLine(c) ==
    /\ Queued(c, "ready")
    /\ read' = [read EXCEPT ![c] = IF life[c] = "open" THEN "pending" ELSE "failed"]
    /\ UNCHANGED <<life, timer, due, userState, membership, nicknames, crashed, stray>>

\* The line is too long, or a prefix with no command behind it.
InvalidLine(c) ==
    /\ Queued(c, "ready")
    /\ read' = [read EXCEPT ![c] = "none"]
    /\ DisconnectNetworkClient(c)
    /\ UNCHANGED <<due, userState, joined, crashed, stray>>

\* What ReceiveMessage_NICK looks at before it lets an entry of the registry go.
FrozenIfJoined(x)     == x \in VirtualClients \/ joined[x] # {}     \* mutant
FrozenIfIdentified(x) == x \in VirtualClients \/ identified[x]      \* mutant
Frozen(x)             == x \in VirtualClients \/ identified[x] \/ joined[x] # {}

\* The nickname is not in use by somebody else.
Available(c, n) == nicknames[Lowercased[n]] \in {NoClient, c}

\* The registry after the client has changed its nickname to n.  The entry given
\* up is the one found under the current name, whoever it belongs to by now.
WithoutOldName(c) ==
    IF nick[c] = NoNickname THEN nicknames ELSE [nicknames EXCEPT ![Lowercased[nick[c]]] = NoClient]

RenamedAsSpelled(c, n) ==           \* mutant: the key is not lowercased
    [m \in LowerNames \cup {n} |-> IF m = n THEN c ELSE WithoutOldName(c)[m]]

RenamedTooEarly(c, n) ==            \* mutant: the old entry is erased last
    IF nick[c] = NoNickname
      THEN [nicknames EXCEPT ![Lowercased[n]] = c]
      ELSE [nicknames EXCEPT ![Lowercased[n]] = c, ![Lowercased[nick[c]]] = NoClient]

Renamed(c, n) == [WithoutOldName(c) EXCEPT ![Lowercased[n]] = c]

ReceiveMessage_NICK(c, n) ==
    LET holder == nicknames[Lowercased[nick[c]]]
    IN  /\ Receive(c)
        /\ n # nick[c]
        /\ Available(c, n)
        /\ nick[c] # NoNickname => holder # NoClient /\ ~Frozen(holder)
        /\ nicknames' = Renamed(c, n)
        /\ nick' = [nick EXCEPT ![c] = n]
        /\ sentNick' = [sentNick EXCEPT ![c] = TRUE]
        /\ IF sentUser[c] THEN CheckForPresetNickname(c, n) ELSE UNCHANGED timer
        /\ stray' = IF life[c] = "shut" \/ n = NoNickname THEN stray \cup {c} ELSE stray
        /\ UNCHANGED <<life, due, sentUser, identified, membership, crashed>>

\* ReceiveMessage_NICK when the registry has no entry under the current name:
\* the end of the map is dereferenced, which may end the process.  (It may also
\* read something that looks like a frozen client: that is Reply.)
NickWithoutEntry(c, n) ==
    /\ Queued(c, "ready")
    /\ n # nick[c]
    /\ Available(c, n)
    /\ nick[c] # NoNickname
    /\ nicknames[Lowercased[nick[c]]] = NoClient
    /\ crashed' = TRUE
    /\ stray' = IF life[c] = "shut" THEN stray \cup {c} ELSE stray
    /\ UNCHANGED <<connection, userState, membership, nicknames>>

ReceiveMessage_USER(c) ==
    /\ Receive(c)
    /\ ~Registered(c)
    /\ sentUser' = [sentUser EXCEPT ![c] = TRUE]
    /\ IF sentNick[c] THEN CheckForPresetNickname(c, nick[c]) ELSE UNCHANGED timer
    /\ UNCHANGED <<life, due, nick, sentNick, identified, membership, nicknames, crashed, stray>>

\* The channels of chs that let the client in and do not have it yet.
Admitted(c, chs) == {ch \in chs : MayJoin(c, ch) /\ ~Member(c, ch)}

\* The loop of ReceiveMessage_JOIN over existing channels.
EnterChannels(c, chs, row, member) ==
    /\ status' = [status EXCEPT ![c] = [ch \in Channels |->
                    IF ch \in chs THEN (IF Voiced(c, ch) THEN "Voice" ELSE "NoStatus") ELSE row[ch]]]
    /\ joined' = [joined EXCEPT ![c] = member \cup chs]
    /\ stray' = IF life[c] = "shut" /\ chs # {} THEN stray \cup {c} ELSE stray

ReceiveMessage_JOIN(c, chs) ==
    /\ Receive(c)
    /\ Registered(c)
    /\ ~MustIdentify(c)
    /\ EnterChannels(c, Admitted(c, chs), status[c], joined[c])
    /\ UNCHANGED <<life, timer, due, userState, nicknames, crashed>>

\* JOIN 0 parts with every channel and then goes on as a JOIN of channel "0".
ReceiveMessage_JOIN0(c) ==
    LET left == {ch \in joined[c] : Member(c, ch)}
        row  == [ch \in Channels |-> IF ch \in left THEN "Absent" ELSE status[c][ch]]
        chs  == {ch \in {Zero} \cap Channels :
                    ~MustIdentify(c) /\ MayJoin(c, ch) /\ row[ch] = "Absent"}
    IN  /\ Receive(c)
        /\ Registered(c)
        /\ EnterChannels(c, chs, row, joined[c] \ left)
        /\ UNCHANGED <<life, timer, due, userState, nicknames, crashed>>

\* The channels left before the first one the client is not a member of, where
\* ReceiveMessage_PART returns.  Unknown channels in the list change nothing.
Left(c, list) ==
    {list[i] : i \in {k \in DOMAIN list : \A j \in 1..k :
                        Member(c, list[j]) /\ \A h \in 1..(j - 1) : list[h] # list[j]}}

ReceiveMessage_PART(c, list) ==
    LET left == Left(c, list)
    IN  /\ Receive(c)
        /\ Registered(c)
        /\ status' = [status EXCEPT ![c] =
                        [ch \in Channels |-> IF ch \in left THEN "Absent" ELSE @[ch]]]
        /\ joined' = [joined EXCEPT ![c] = @ \ left]
        /\ UNCHANGED <<life, timer, due, userState, nicknames, crashed, stray>>

\* Any PONG restarts the ping timer, whatever deadline m_Timer waits for.
PongBeforeRegistration(c) ==        \* mutant: no check for the registration
    /\ Receive(c)
    /\ timer' = [timer EXCEPT ![c] = "Ping"]
    /\ UNCHANGED <<life, due, userState, membership, nicknames, crashed, stray>>

ReceiveMessage_PONG(c) ==
    /\ Receive(c)
    /\ Registered(c)
    /\ timer' = [timer EXCEPT ![c] = "Ping"]
    /\ UNCHANGED <<life, due, userState, membership, nicknames, crashed, stray>>

ReceiveMessage_QUIT(c) ==
    /\ Queued(c, "ready")
    /\ Registered(c)
    /\ read' = [read EXCEPT ![c] = "none"]
    /\ DisconnectNetworkClient(c)
    /\ UNCHANGED <<due, userState, joined, crashed, stray>>

\* NickServ's IDENTIFY with the right password; SetUserState restarts the ping
\* timer.
ReceiveCommand_IDENTIFY(c) ==
    /\ Receive(c)
    /\ Registered(c)
    /\ MustIdentify(c)
    /\ identified' = [identified EXCEPT ![c] = TRUE]
    /\ timer' = [timer EXCEPT ![c] = "Ping"]
    /\ UNCHANGED <<life, due, nick, sentNick, sentUser, membership, nicknames, crashed, stray>>

\* NickServ's GHOST with the right password disconnects whoever is registered
\* under the preset nickname n.
ReceiveCommand_GHOST(c, n) ==
    LET d == nicknames[n]
    IN  /\ Queued(c, "ready")
        /\ Registered(c)
        /\ d \in NetworkClients \ {c}
        /\ n \in Users
        /\ read' = [read EXCEPT ![c] = IF life[c] = "open" THEN "pending" ELSE "none",
                                ![d] = Aborted(d)]
        /\ DisconnectNetworkClient(d)
        /\ UNCHANGED <<due, userState, joined, crashed, stray>>

\* A message makes the server follow a pointer to a client that is freed: a
\* member of a channel it answers NAMES for, or a nickname it sends a PRIVMSG
\* to.  The process may end; the milder outcome, a read of the old object, is
\* what the other actions do.
UseFreedClient(c) ==
    /\ Queued(c, "ready")
    /\ Registered(c)
    /\ \E d \in NetworkClients :
          /\ Released(d)
          /\ \/ \E ch \in Channels : Member(d, ch)
             \/ \E n \in LowerNames : nicknames[n] = d
    /\ crashed' = TRUE
    /\ UNCHANGED <<connection, userState, membership, nicknames, stray>>

HandleNewData(c) ==
    \/ Reply(c) \/ PartialLine(c) \/ InvalidLine(c)
    \/ \E n \in Names : ReceiveMessage_NICK(c, n) \/ NickWithoutEntry(c, n)
    \/ ReceiveMessage_USER(c)
    \/ \E chs \in SUBSET Channels : ReceiveMessage_JOIN(c, chs)
    \/ ReceiveMessage_JOIN0(c)
    \/ \E list \in ChannelLists : ReceiveMessage_PART(c, list)
    \/ ReceiveMessage_PONG(c)
    \/ ReceiveMessage_QUIT(c)
    \/ ReceiveCommand_IDENTIFY(c)
    \/ \E n \in LowerNames : ReceiveCommand_GHOST(c, n)
    \/ UseFreedClient(c)

(***************************************************************************)
(* Timers.  When the time is up the handler is queued, and from then on no *)
(* cancel reaches it.  The queue is first in, first out, so a handler runs *)
(* before the timer it re-arms can queue another one.                      *)
(***************************************************************************)
TimerExpires(c) ==
    /\ ~crashed
    /\ timer[c] # "None"
    /\ due[c] = "None"
    /\ due'   = [due EXCEPT ![c] = timer[c]]
    /\ timer' = [timer EXCEPT ![c] = "None"]
    /\ UNCHANGED <<life, read, userState, membership, nicknames, crashed, stray>>

\* A deadline that ends the connection.
EndConnection(c, deadline) ==
    /\ ~crashed
    /\ due[c] = deadline
    /\ due' = [due EXCEPT ![c] = "None"]
    /\ read' = [read EXCEPT ![c] = Aborted(c)]
    /\ DisconnectNetworkClient(c)
    /\ UNCHANGED <<userState, joined, crashed, stray>>

NickDeadline(c)     == EndConnection(c, "Nick")
IdentifyDeadline(c) == EndConnection(c, "Identify")
PongDeadline(c)     == EndConnection(c, "Pong")

\* Pings the client and replaces whatever m_Timer waits for by now.
PingDeadlineAgain(c) ==             \* mutant: pings without a deadline for the PONG
    /\ ~crashed
    /\ due[c] = "Ping"
    /\ due'   = [due EXCEPT ![c] = "None"]
    /\ timer' = [timer EXCEPT ![c] = "Ping"]
    /\ UNCHANGED <<life, read, userState, membership, nicknames, crashed, stray>>

PingDeadline(c) ==
    /\ ~crashed
    /\ due[c] = "Ping"
    /\ due'   = [due EXCEPT ![c] = "None"]
    /\ timer' = [timer EXCEPT ![c] = "Pong"]
    /\ UNCHANGED <<life, read, userState, membership, nicknames, crashed, stray>>

Deadline(c) == NickDeadline(c) \/ IdentifyDeadline(c) \/ PongDeadline(c) \/ PingDeadline(c)

(***************************************************************************)
(* The specification.                                                      *)
(***************************************************************************)
Step(c) ==
    \/ HandleNewConnection(c)
    \/ PeerActs(c)
    \/ HandleReadError(c)
    \/ HandleSendError(c)
    \/ HandleNewData(c)
    \/ TimerExpires(c)
    \/ Deadline(c)

Next == \E c \in NetworkClients : Step(c)

Spec == Init /\ [][Next]_vars

\* The loop runs every queued completion, and time passes.  Nothing is assumed
\* of the clients.
FairTo(c) ==
    /\ WF_vars(HandleReadError(c))
    /\ WF_vars(HandleNewData(c))
    /\ WF_vars(TimerExpires(c))
    /\ WF_vars(Deadline(c))

Fairness == \A c \in NetworkClients : FairTo(c)

FairSpec == Spec /\ Fairness

(***************************************************************************)
(* Safety.                                                                 *)
(***************************************************************************)
\* An entry of m_Nicknames never outlives its client or the name it was made
\* for: it points to an open connection that carries this very nickname.  Only
\* clients that took the empty nickname, or registered when they were shut
\* already, leave entries behind.
RegistrySound ==
    \A n \in LowerNames, c \in NetworkClients :
        nicknames[n] = c => \/ life[c] = "open" /\ Lowercased[nick[c]] = n
                            \/ c \in stray

\* Every connection can be reached under its nickname, so no two of them ever
\* share one: what ReceiveMessage_NICK, GHOST and PRIVMSG rely on.
RegistryComplete ==
    stray = {} => \A c \in NetworkClients :
        life[c] = "open" /\ nick[c] # NoNickname => nicknames[Lowercased[nick[c]]] = c

\* CChannel::m_Clients and CClient::m_JoinedChannels say the same of an open
\* connection, and no channel holds a pointer to a client that is shut: what
\* every loop over the members of a channel relies on.
MembersAlive ==
    \A c \in NetworkClients, ch \in Channels :
        /\ Member(c, ch) => ch \in joined[c] /\ (life[c] = "open" \/ c \in stray)
        /\ life[c] = "open" /\ ch \in joined[c] => Member(c, ch)

\* Whoever is in a channel has identified if the nickname asks for it, has voice
\* exactly if the nickname is on the list of the channel, and is there without
\* voice only if the channel allows observers -- although a nickname can change
\* after registration and identification.
MembersAuthorised ==
    stray = {} => \A c \in NetworkClients, ch \in Channels : Member(c, ch) =>
        /\ Registered(c)
        /\ ~MustIdentify(c)
        /\ status[c][ch] = "Voice" <=> Voiced(c, ch)
        /\ status[c][ch] = "NoStatus" => ch \in ObserverChannels

\* As long as no client strays, no handler runs into undefined behaviour.
NoUndefinedBehaviour == crashed => stray # {}

\* An open connection always has a deadline ahead, the registration deadline
\* until it has registered, so a silent peer never holds it for ever; and the
\* identify deadline is ahead only of a client that still has to identify.
DeadlineAhead ==
    \A c \in NetworkClients :
        /\ life[c] = "open" =>
              /\ timer[c] # "None" \/ due[c] # "None"
              /\ ~Registered(c) => "Nick" \in {timer[c], due[c]}
        /\ timer[c] = "Identify" => Registered(c) /\ (stray = {} => MustIdentify(c))

\* Nobody who has identified or is in a channel changes its nickname, so neither
\* an identification nor a voice or a membership got by it ever passes to
\* another name.  The check in ReceiveMessage_NICK that keeps this asks whoever
\* is registered under the old name, not the client itself.
NicknameKept ==
    [][\A c \in NetworkClients :
          (identified[c] \/ joined[c] # {}) /\ nick'[c] # nick[c] => stray' # {}]_vars

(***************************************************************************)
(* What the server promises its clients and bots: with what is known of    *)
(* the open connections it implements Chat.                                *)
(***************************************************************************)
knownName == [c \in NetworkClients |-> IF life[c] = "open" THEN nick[c] ELSE NoNickname]
listened  == {c \in NetworkClients : life[c] = "open" /\ Registered(c)}
trusted   == {c \in NetworkClients : life[c] = "open" /\ identified[c]}

Promise == INSTANCE Chat WITH
    Clients    <- NetworkClients,
    BotNames   <- {VirtualNickname[v] : v \in VirtualClients},
    name       <- knownName,
    registered <- listened

\* Whatever lines, deadlines and failures come in which order, every handler does
\* to nicknames, identifications and channels one thing that Chat allows, or
\* nothing -- as long as no client strays.
KeepsChat == Promise!Init /\ [][stray' # {} \/ Promise!Next]_(Promise!vars)

(***************************************************************************)
(* Liveness, under FairSpec.                                               *)
(***************************************************************************)
\* A peer that vanishes without a trace loses its nickname in the end: one of
\* the deadlines catches it in every state of the protocol.
NicknameReclaimed ==
    \A c \in NetworkClients :
        read[c] = "hung" ~> \/ life[c] = "shut" /\ \A n \in LowerNames : nicknames[n] # c
                            \/ crashed \/ c \in stray

\* As long as the process lives, every completion that is queued can be handled,
\* and every timer can expire whose handler is not queued.
HandlersCanRun ==
    ~crashed => \A c \in NetworkClients :
        /\ read[c] = "failed" => ENABLED <<HandleReadError(c)>>_vars
        /\ read[c] = "ready"  => ENABLED <<HandleNewData(c)>>_vars
        /\ timer[c] # "None" /\ due[c] = "None" => ENABLED <<TimerExpires(c)>>_vars
        /\ due[c] # "None" => ENABLED <<Deadline(c)>>_vars

\* A client that is shut is freed in the end: the completions and timers that
\* hold a shared_ptr to it run out, even those armed after the shutdown.
ShutIsReleased ==
    /\ []HandlersCanRun
    /\ \A c \in NetworkClients : life[c] = "shut" ~> Released(c) \/ crashed

(***************************************************************************)
(* What comments of the code and the help text say, and the code does not  *)
(* keep.                                                                   *)
(***************************************************************************)
\* "Check this and don't process any further commands if we were disconnected."
\* (CNetworkClient.cpp:89-90): a shut client never becomes a channel member.
ShutClientsStayOut ==
    [][\A c \in NetworkClients, ch \in Channels :
          life[c] = "shut" /\ Member(c, ch)' => Member(c, ch)]_vars

\* "If you don't identify, you will be disconnected after 240 seconds."
\* (CNickServ.cpp:109): the identify deadline is ahead of every open client
\* that is registered and has to identify.
IdentifyDeadlineArmed ==
    \A c \in NetworkClients :
        life[c] = "open" /\ Registered(c) /\ MustIdentify(c) => "Identify" \in {timer[c], due[c]}

================================================================================
