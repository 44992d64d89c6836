-------------------------------- MODULE LogBot ---------------------------------
(***************************************************************************)
(* LogBot composed with the server: a virtual client that is a member of   *)
(* the channels it logs, gets every message the server broadcasts there    *)
(* and writes one line to the log of the channel for it.                   *)
(*                                                                         *)
(* LogBot is handed nothing but the text of a message.  It finds out who   *)
(* the sender is by looking the name in the prefix up in m_Nicknames, and  *)
(* where the sender is by asking the objects it finds there.  So what it   *)
(* writes is only right because every handler of the server broadcasts at  *)
(* the right moment: after the client has entered a channel, and before it *)
(* has left its channels and the registry.                                 *)
(*                                                                         *)
(* A log grows for ever.  What is kept of it is what its reader knows: who *)
(* must be in the channel after the last line, and whether any line has    *)
(* contradicted the ones before it.                                        *)
(***************************************************************************)
EXTENDS IRCServer

CONSTANT LoggedChannels     \* the keys of m_ChannelStreamMap

\* CLogBot::Init ends the start of the server if a channel does not exist.
ASSUME LoggedChannelsAssumption == LoggedChannels \subseteq Channels

VARIABLES
    present,        \* for every log, the nicknames that have joined in it and
                    \* have neither left nor quit since
    contradicted,   \* a JOIN of somebody who was present has been logged, or a
                    \* PART, QUIT or PRIVMSG of somebody who was not
    botFailed       \* an assertion of LogBot, or the undefined behaviour it
                    \* stands for in a release build, has ended the process

logVars == <<present, contradicted, botFailed>>
sysVars == <<vars, logVars>>

LogTypeOK ==
    /\ present      \in [LoggedChannels -> SUBSET Names]
    /\ contradicted \in BOOLEAN
    /\ botFailed    \in BOOLEAN

\* The logs are created empty, and only the bots are in the channels.
LogInit ==
    /\ Init
    /\ present      = [ch \in LoggedChannels |-> {}]
    /\ contradicted = FALSE
    /\ botFailed    = FALSE

(***************************************************************************)
(* The four kinds of lines.                                                *)
(***************************************************************************)
\* The client LogBot takes for the sender of a message of c: the entry found
\* under the lowercased name in the prefix.
Sender(c) == nicknames[Lowercased[nick[c]]]

\* What is logged for a message of c that reaches LogBot in the channels chs:
\* the nickname of the sender leaves the logs of out and enters those of in.
LogChangeLowercased(n, out, in) ==  \* mutant: m_NicknameLowercased
    /\ present' = [ch \in LoggedChannels |->
                      (present[ch] \ (IF ch \in out THEN {Lowercased[n]} ELSE {}))
                          \cup (IF ch \in in THEN {Lowercased[n]} ELSE {})]
    /\ UNCHANGED contradicted

LogChange(n, out, in) ==
    /\ present' = [ch \in LoggedChannels |->
                      (present[ch] \ (IF ch \in out THEN {n} ELSE {})) \cup (IF ch \in in THEN {n} ELSE {})]
    /\ contradicted' = (\/ contradicted
                        \/ \E ch \in LoggedChannels \cap out : n \notin present[ch]
                        \/ \E ch \in LoggedChannels \cap (in \ out) : n \in present[ch])

\* SendIRCMessage finds no sender, or _LogMessage_JOIN does not find it in the
\* channel.  The assertion ends the process; without assertions anything may
\* happen, to go on without a line included.
NotFound ==
    /\ botFailed' \in BOOLEAN
    /\ UNCHANGED <<present, contradicted>>

\* _LogMessage_PART for every channel of left and _LogMessage_JOIN for every
\* channel of entered, which the client is a member of by now.
LogMoves(c, left, entered) ==
    LET d == Sender(c)
    IN  IF (left \cup entered) \cap LoggedChannels = {}
          THEN UNCHANGED logVars
          ELSE IF d \in NetworkClients /\ \A ch \in entered \cap LoggedChannels : status'[d][ch] # "Absent"
            THEN LogChange(nick[d], left, entered) /\ UNCHANGED botFailed
            ELSE NotFound

\* _LogMessage_QUIT: a single QUIT reaches LogBot, while the server goes through
\* the channels of the client, and is logged for the channels that are in
\* m_JoinedChannels of the sender.
LogQuitOnce(c) ==                   \* mutant: asks m_Clients of the channels, some of
    LET d == Sender(c)              \* which have let the client go already
    IN  IF life[c] # "open" \/ nick[c] = NoNickname \/ joined[c] \cap LoggedChannels = {}
          THEN UNCHANGED logVars
          ELSE IF d \in NetworkClients
            THEN /\ LogChange(nick[d], {CHOOSE ch \in joined[c] \cap LoggedChannels : TRUE}, {})
                 /\ UNCHANGED botFailed
            ELSE NotFound

LogQuitLate(c) ==                   \* mutant: sent when the nickname is removed
    IF life[c] # "open" \/ nick[c] = NoNickname \/ joined[c] \cap LoggedChannels = {}
      THEN UNCHANGED logVars
      ELSE NotFound

LogQuit(c) ==
    LET d == Sender(c)
    IN  IF life[c] # "open" \/ nick[c] = NoNickname \/ joined[c] \cap LoggedChannels = {}
          THEN UNCHANGED logVars
          ELSE IF d \in NetworkClients
            THEN LogChange(nick[d], joined[d], {}) /\ UNCHANGED botFailed
            ELSE NotFound

(***************************************************************************)
(* Every handler of the server, with what it lets LogBot write.            *)
(***************************************************************************)
\* ReceiveMessage_PRIVMSG to a logged channel; every other PRIVMSG is silent.
SpeakUnchecked(c, ch) ==            \* mutant: the sender need not be in the channel
    /\ Reply(c)
    /\ Registered(c)
    /\ IF Sender(c) \in NetworkClients
         THEN /\ contradicted' = (contradicted \/ nick[Sender(c)] \notin present[ch])
              /\ UNCHANGED <<present, botFailed>>
         ELSE NotFound

Speak(c, ch) ==
    /\ Reply(c)
    /\ Registered(c)
    /\ status[c][ch] = "Voice"
    /\ IF Sender(c) \in NetworkClients
         THEN /\ contradicted' = (contradicted \/ nick[Sender(c)] \notin present[ch])
              /\ UNCHANGED <<present, botFailed>>
         ELSE NotFound

\* DisconnectNetworkClient, from wherever it is called.
Quit(c) ==
    /\ \/ HandleReadError(c) \/ HandleSendError(c) \/ InvalidLine(c) \/ ReceiveMessage_QUIT(c)
       \/ NickDeadline(c) \/ IdentifyDeadline(c) \/ PongDeadline(c)
    /\ LogQuit(c)

Ghost(c, n) == ReceiveCommand_GHOST(c, n) /\ LogQuit(nicknames[n])

Join(c, chs) == ReceiveMessage_JOIN(c, chs) /\ LogMoves(c, {}, Admitted(c, chs))

\* The PARTs of a JOIN 0, then perhaps the JOIN of channel "0".
Join0(c) ==
    /\ ReceiveMessage_JOIN0(c)
    /\ LogMoves(c, {ch \in joined[c] : Member(c, ch)},
                   {ch \in {Zero} \cap Channels : Member(c, ch)' /\ (Member(c, ch) => ch \in joined[c])})

Part(c, list) == ReceiveMessage_PART(c, list) /\ LogMoves(c, Left(c, list), {})

\* The handlers that broadcast nothing to a channel.
Silent(c) ==
    /\ \/ HandleNewConnection(c) \/ PeerActs(c)
       \/ Reply(c) \/ PartialLine(c)
       \/ \E n \in Names : ReceiveMessage_NICK(c, n) \/ NickWithoutEntry(c, n)
       \/ ReceiveMessage_USER(c) \/ ReceiveMessage_PONG(c) \/ ReceiveCommand_IDENTIFY(c)
       \/ UseFreedClient(c)
       \/ TimerExpires(c) \/ PingDeadline(c)
    /\ UNCHANGED logVars

SysStep(c) ==
    \/ Silent(c)
    \/ Quit(c)
    \/ \E n \in LowerNames : Ghost(c, n)
    \/ \E chs \in SUBSET Channels : Join(c, chs)
    \/ Join0(c)
    \/ \E list \in ChannelLists : Part(c, list)
    \/ \E ch \in LoggedChannels : Speak(c, ch)

SysNext == ~botFailed /\ \E c \in NetworkClients : SysStep(c)

SysSpec == LogInit /\ [][SysNext]_sysVars

(***************************************************************************)
(* What the logs are worth, as long as no client strays (see IRCServer).   *)
(***************************************************************************)
\* The reader of a log knows who is in the channel: the nicknames that have
\* joined in it and neither left nor quit are those of its members, whichever
\* way they went and under whichever spelling they came.
LogTellsMembers ==
    stray = {} => \A ch \in LoggedChannels :
        present[ch] = {nick[c] : c \in {d \in NetworkClients : Member(d, ch)}}

\* No line of a log contradicts the lines before it: nobody joins twice, and
\* nobody leaves, quits or speaks without having joined.
LogConsistent == stray = {} => ~contradicted

\* LogBot finds the sender of every message in the registry, and the sender of a
\* JOIN in the channel, at the moment it is told: its assertions never fail.
SenderFound == botFailed => stray # {}

================================================================================
