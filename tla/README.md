# Verification of the ROSEV IRC System

TLA+ models, TLC configurations and TLAPS proofs for the IRC server of ReactOS
Deutschland e.V. (`src/src/*.cpp`): a small single-process IRC server with
preset channels, preset (password-protected) nicknames, a nickname service, a
channel log bot and bots that hold secret votes in a channel.  File names below
are relative to `src/src/`.

## 1. The system

One process, one thread: `boost::asio::io_service::run()` takes completions
(accepted connection, data read, data written, timer expired) off a queue and
calls their handlers one after the other.  All state is in memory.

| Component | State it keeps | Operations |
|---|---|---|
| `CIRCServer` | `m_NetworkClients`, `m_Nicknames`, `m_Channels`, the acceptors | accepts connections, one `ReceiveMessage_*` handler per IRC command, `DisconnectNetworkClient`, `Shutdown` |
| `CNetworkClient` (plain and SSL) | socket, input buffer, send queue, one timer, nickname, user state (NICK sent, USER sent, identified), joined channels | `_HandleNewData`, `_HandleSend`, four deadlines, `Shutdown` |
| `CChannel` | members with their status (none or voice), topic, allowed users | add and remove a client |
| `CNickServ` | none | `IDENTIFY`, `GHOST`, `HELP` |
| `CVoteBot` | the vote in preparation or running: administrator lock, question, options, excluded nicknames, votes, vote count, timer | administrator commands, votes, messages of the channel, deadline |
| `CLogBot` | one log file per channel | writes JOIN, PART, PRIVMSG, QUIT |
| `CVoteBotManager`, `CConfiguration` | configuration | read files once, before the loop starts |
| `main.cpp`, `run_*.cpp` | pid file, signal handlers | start, daemonise, shut down |

How they interact:

- A line of a client goes from `_HandleNewData` through `_ReceiveMessage` to a
  handler of `CIRCServer`, which calls other clients directly:
  `SendIRCMessage` of every channel member, `SendPrivateMessage` of the
  addressee.  For a virtual client (a bot) that call *is* its message handler,
  so VoteBot and LogBot act inside the handlers of the server, before the
  sender of a PART or QUIT is taken out of the channel.
- Clients, channels and bots refer to each other by raw pointers:
  `m_Nicknames`, `CChannel::m_Clients`, `CClient::m_JoinedChannels`,
  `CVoteBot::m_Votes`.  The only owners of a network client are
  `m_NetworkClients` and the `shared_ptr`s in its pending completions.
- Every client has *one* timer for four purposes: registration, identification,
  the next ping, the answer to a ping.

### What is hard about it

1. **Queued completions.**  Closing a socket or cancelling a timer does not take
   back a completion that is already in the queue.  It runs later, with a
   success code, on an object that has been shut or a timer that has been
   re-armed: a line is handled for a client that is disconnected, a deadline
   hits the next vote.
2. **Aliased life times.**  A nickname entry, a membership or a vote must go
   when its client goes, whichever of eight ways that happens.
3. **A protocol in any order.**  NICK, USER, IDENTIFY, JOIN, PONG, GHOST may
   come in any order and again; identification, voice and membership must never
   pass to a name that has not earned them.
4. **Lines cut out of a stream.**  A read may end anywhere, in the middle of a
   CRLF too; pointers into one buffer walk over several lines and a remainder.
5. **Lookups in the middle of a change.**  LogBot and VoteBot are told of a
   message while the handler that sends it is still changing the registry and
   the channels.
6. **A shutdown at any moment.**  The signal handler destroys what the handlers
   of the loop use, without asking whether one is running.
7. **Counters beside sets.**  `m_VoteCount` shadows the votes in a map that
   changes while people vote, change their votes, come and leave.

Properties that make each component correct: the registry is sound (no entry
outlives its client or name) and complete (every named connection is in it);
both sides of a membership agree and only authorised, identified clients are
members; a connection always has the right deadline ahead, loses its nickname
when its peer is gone, and is freed in the end; a vote counts one ballot for
each present voter, ends when none is missing or the time is up, and inherits
nothing from the vote before; lines depend on the bytes of the stream and not on
where the reads cut it, with the exceptions that section 2 names; a log tells who is in the channel; there is one instance of the server,
it listens while it runs, ends when it is told to and leaves no pid file behind.

`PROJECT.json` lists the hazards line by line with the properties that catch
them going wrong.  Where the code is open to a hazard and nothing in the
repository says that it must not be, a property names it as its exception and so
shows that there is no other; the hazard's note says that.

## 2. The modules

| Module | Models | Uses |
|---|---|---|
| `Chat` | what the server promises its clients and bots, abstractly: nicknames, identifications, memberships | |
| `IRCServer` | `CIRCServer`, `CNetworkClient`, `CChannel`, `CClient`, `CNickServ`, the sockets as far as a read or write completes or fails | instantiates `Chat` |
| `MCIRCServer` | instances for TLC | extends `IRCServer` |
| `IRCServer_proofs` | the safety of `IRCServer`, for all constants | extends `IRCServer`, `TLAPS` |
| `IRCServer_refinement` | that `IRCServer` implements `Chat`, for all constants | extends `IRCServer_proofs` |
| `IRCServer_progress` | the liveness of `IRCServer`, for all constants | extends `IRCServer_proofs` |
| `SecretVote` | what a vote bot promises, abstractly | |
| `VoteBot` | `CVoteBot` | instantiates `SecretVote` |
| `MCVoteBot` | instance for TLC | extends `VoteBot` |
| `VoteBot_proofs` | theorems about `VoteBot`, and that it implements `SecretVote`, for all constants | extends `VoteBot`, `TLAPS` |
| `MessageStream` | what sending messages to a client means, abstractly | |
| `SendQueue` | the sending half of `CNetworkClient`, as far as a write completes, stops half-way or fails | instantiates `MessageStream` |
| `MCSendQueue` | instance for TLC | extends `SendQueue` |
| `SendQueue_proofs` | theorems about `SendQueue`, and that it implements `MessageStream`, for all constants | extends `SendQueue`, `TLAPS` |
| `LineStream` | what a client's bytes mean, abstractly: a stream cut into lines | |
| `InputBuffer` | the receiving half: `_HandleNewData` with `m_InputBuffer`, `_Receive` of both transports | instantiates `LineStream` |
| `InputBuffer_proofs` | theorems about `InputBuffer`, and that it implements `LineStream`, for all constants | extends `InputBuffer`, `TLAPS` |
| `LogBot` | `CLogBot`, composed with every handler of the server by joint actions | extends `IRCServer` |
| `MCLogBot` | instance for TLC | extends `LogBot` |
| `LogBot_proofs` | theorems about the composition, for all constants | extends `LogBot`, `IRCServer_proofs` |
| `ServerProcess` | `main.cpp`, `run_*.cpp`; `Init`, the acceptors and `Shutdown` of `CIRCServer` | |
| `ServerProcess_proofs` | theorems about `ServerProcess`, for any number of processes | extends `ServerProcess`, `TLAPS` |

### IRCServer

One action is one completion handler, from its first line to its return;
`PeerActs` and `TimerExpires` are the environment, which queues completions.

| Variable | Code |
|---|---|
| `life` | accepted and in `m_NetworkClients` ("open"), after `Shutdown` ("shut", `m_ShutdownCompleted`) |
| `read` | the asynchronous read: waiting for the peer, or its completion queued with data ("ready") or an error ("failed"); "hung" is a peer that has vanished without a trace |
| `timer`, `due` | the handler `m_Timer` waits for; the expired one in the loop's queue, out of reach of `cancel` |
| `nick`, `sentNick`, `sentUser`, `identified` | `m_Nickname`, `m_UserState` |
| `joined`, `status` | `CClient::m_JoinedChannels`, `CChannel::m_Clients`: kept apart, as in the code, because the handlers update them separately |
| `nicknames` | `CIRCServer::m_Nicknames` |
| `crashed` | the process has run into undefined behaviour (the end of a map or a freed client is dereferenced) |
| `stray` | history only: the clients that registered or joined after their shutdown, or took the empty nickname |

| Action | Code |
|---|---|
| `HandleNewConnection` | `_HandleNewConnection`, `CNetworkClient::Init` |
| `HandleReadError`, `HandleSendError` | `_HandleNewData`, `_HandleSend` with an error, a failed SSL handshake |
| `ReceiveMessage_NICK` ... `ReceiveCommand_GHOST` | the handler of that name, on the path that changes something |
| `Reply` | every line that is only answered: INFO, MOTD, NAMES, PING, TOPIC, VERSION, PRIVMSG, HELP, unknown commands, and all refusals |
| `PartialLine` | data without a complete line; also an SSL handshake that succeeds |
| `InvalidLine` | a line that is too long, a prefix without a command |
| `NickWithoutEntry`, `UseFreedClient` | the undefined behaviour the other handlers can run into |
| `NickDeadline`, `IdentifyDeadline`, `PingDeadline`, `PongDeadline` | the deadline handlers |

Abstractions.  A read that brings several lines is several reads of one line:
the loop may run other handlers between two lines of one read, which the code
does not, so the model has more behaviours, not fewer.  A freed client keeps its
last state in the model; following a pointer to it either ends the process
(`UseFreedClient`) or does what it would do with that state.  Passwords are
right or wrong: a wrong one is a `Reply`.  Nicknames are lowercased through the
function `Lowercased`; invalid ones (length, characters) are refused and so a
`Reply`, except for the empty one, which the code accepts.

Why `stray`.  Two errors of the code (section 4: late lines, the empty nickname)
let clients into
the registry or a channel that nobody takes out again, and everything that
follows from them is beyond repair: stale entries, use after free.  The safety
properties are stated for executions, or for clients, that have not strayed, so
that they say that these two doors are the *only* ways in.

`Chat` is the server without connections, timers, registry and two sides of a
membership: four variables and five actions (`Rename`, `Register`, `Identify`,
`Move`, `Quit`).  `IRCServer` implements it (`KeepsChat`) under

    name       = m_Nickname of an open connection, else none
    registered = the open connections that have sent NICK and USER
    trusted    = the open connections that have identified
    status     = CChannel::m_Clients

so a nickname is free exactly if no other client and no bot has it (the code asks
`m_Nicknames`), nobody who has identified or is in a channel changes its own (the
code asks whoever is registered under it), and a disconnection, whichever of the
eight ways it happens, takes all of it away in one step.

### VoteBot and SecretVote

`VoteBot` has one action per private message that changes the bot
(`ReceiveCommand_CANCEL`, `_NEW`, `_EXCLUDE`, `_START`, `EnterQuestion`,
`EnterOption`, `EnterExcluded`, `ReceiveVote`, `ReceiveEmptyVote`), the two
events of the channel (`Join`, `Leave`; PART and QUIT reach
`CVoteBot::SendIRCMessage` while the client is still a member), and the timer
(`TimerExpires`, `VoteDeadline`).  `_CheckVotes`, which four of them end with,
is an operator over the votes they hand it, so an action is the whole handler.
A client stands for its nickname: it cannot change while it is in the channel
(`IRCServer`).  Questions and options are only counted.  `results` is history:
what the channel was told of the last vote.

`SecretVote` knows three phases and a function from the electorate to ballots.
`VoteBot` implements it under

    phase   = "open" while m_VoteStarted, "idle" while nobody holds the lock
    ballots = for every key of m_Votes its option if HasVoted, else NoVote

(`KeepsPromise`): however commands, voters and the timer interleave, the
announced results are the ballots of exactly those who did not leave, a missing
one as abstention, and a vote goes on exactly as long as a ballot is missing.

### SendQueue

`IRCServer` abstracts from what is written; `SendQueue` is one client seen from
that side.

| Variable | Code |
|---|---|
| `initialized` | `IsInitialized()`: `m_HandshakeHappened` of an SSL client, always true for a plain one |
| `queue` | `m_SendQueue` |
| `buffer` | the message in `m_SendBuffer`; `NoMessage` while `m_SendBufferSize` is 0 |
| `write` | the `async_write`: none, under way ("running"), or its completion queued with success ("done") or an error ("failed") |
| `half`, `wire` | the halves of the buffer, and of everything, that the socket has taken |
| `shut` | `m_ShutdownCompleted` |
| `requested` | history only: every message given to `SendIRCMessage` |

`SendIRCMessage` and `HandleSend` include `_ProcessSendQueue` (`StartWrite`).
`DisconnectNetworkClient` sends the client its own QUIT, if it is in a channel,
and the ERROR, and closes the socket: a write it starts gets as far as the socket
takes data at once, one that was under way fails, a completion that was queued
stays.  `HandleSendError` is that same disconnection from `_HandleSend`;
`Shutdown` is the one of `CIRCServer::Shutdown`.  Messages are also sent to a
client that is shut (a late line, a queued ping deadline); such a write fails.

`MessageStream` has no queue, buffer or pending write: messages are asked for, and
their halves reach the peer one by one until the connection is closed.  What is
sent in the course of closing it (`Farewells`) arrives at once or never, and only
if nothing is in front of it.  `SendQueue` implements it (`KeepsOrder`) under
`opened` = `initialized`, `asked` = `requested`, `closed` = `shut`.

### InputBuffer and LineStream

One client, seen from the receiving side.  `buffer` is what has been read into
`m_InputBuffer`, `pointer` is `m_InputBufferPointer`, `message` and `p` are the
two local pointers of `_HandleNewData`; `line`, `tooLong` and
`late` are history.  `Receive` puts a read behind the remainder, as much
as `_Receive` of either transport asks for; `HandleNewData` enters the loop, and
each turn of it is an action (`Walk`, `ReceiveMessage`, `DiscardLine`), because
it is between the turns that a pointer could go astray; the end of the loop is
`DiscardRemainder` or `KeepRemainder`.  No other handler runs inside the walk.
`Disconnect` is what one did before it, while the completion was queued, and
`ReceiveMessage` may close the socket itself.

`LineStream` has no buffer and no reads: bytes are added to one stream at any time,
between the CR and the LF of a line ending as well as anywhere else.  It takes
one character after the other and ends a line at LF or CRLF; if the LF comes
after the CR has been taken, the CR is stripped from the line, so that its lines
are those of the bytes however they arrive.  `InputBuffer` is mapped to it by

    input = the bytes from p (or m_InputBufferPointer) on
    rest  = the bytes from IRCMessage to p, or the remainder
    ended = why the connection was closed, if it was

and `KeepsLines` says that every step is one of the stream's, or one of two that
the stream itself does not allow, each of them only where the code is known to
take it:

- `KeepCR`, the line ends but keeps the CR of its ending, under `SplitEnding`: p
  has just been set behind the remainder and finds an LF there, and the last byte
  of the remainder is a CR.  That is a CRLF that has been split between two
  reads; the handler of the line sees the CR (section 4, finding 5).
- `Garble`, the line that has not ended is mixed up but keeps its length and gets
  no character it did not hold, under `Overlap`: `memcpy` moves a remainder to the
  beginning of the same buffer, and if it is longer than what was cut off before
  it the ranges overlap and the copy is undefined.  The model lets it hold the
  right bytes or what a copy from the end leaves (`CopiedFromEnd`).

TLC refutes `KeepsLines` without either exception.  One thing depends on the
reads in `LineStream` too: a NUL hides what has arrived behind it (`Hide`), which
in the code is the rest of its read.

### LogBot

`LogBot` extends `IRCServer` and lets every action of it be accompanied by what
LogBot does inside it: `Quit`, `Ghost`, `Join`, `Join0`, `Part`, `Speak` are
handlers that broadcast to a channel, `Silent` are all others.  LogBot gets the
text of a message and looks the sender up by name (`Sender`): in the model too
the lookup goes through `nicknames`, which may hold nobody or somebody else.

A log is unbounded; what is kept is what its reader knows: `present`, the
nicknames that have joined and not left or quit since, and `contradicted`, that
a line has contradicted the lines before it.  `botFailed` is a failed assertion
(or, without assertions, whatever the end of a map does).

Left out: the lines of the bots about themselves (LogBot and the VoteBots join
once at the start, the announcements of a VoteBot), time stamps, and the text of
a message.  A message of a bot finds its sender as long as the bots are in the
registry, which no handler takes them out of.

### ServerProcess

`Processes` are started again and again on one machine.

| Variable | Code |
|---|---|
| `platform` | `WIN32` or not: chosen once |
| `phase` | how far `main`, `InitializeServer` and `RunServerEventLoop` have come |
| `pidFile`, `mutex`, `port` | what is in the pid file, who has a handle of the named mutex, who listens |
| `deletePidFile` | `DeletePidFile` |
| `acceptor` | `m_Acceptors` and the accept that waits or is queued |
| `clients`, `vote` | whether there are network clients (open, or shut but held by a completion), whether a VoteBot waits for its deadline: what keeps `io_service::run` from returning |
| `stopped`, `acceptError`, `undefined`, `raced` | history |

`Initialize` is `InitializeServer` in steps, as other processes act between
them; `Throw` is any exception on the way.  `ShutdownServer` is the signal (or
the thread of the service manager) while the loop waits;
`ShutdownServerInHandler` is the same in the middle of a handler, whose outcome is
undefined: the process goes on, waits for itself for ever (`"hung"`), or crashes
(`Killed`).  Two more ways into undefined behaviour are modelled: the completion
of an accept that was queued when the acceptor was destroyed
(`AcceptOnFreedAcceptor`), and messages to channel members that `Shutdown` has
freed but not taken out of their channels (`LineAfterShutdown`, `EndVote`).
`Killed` at any point is the crash; the pid file then stays (`Stale`) until
`RemoveStalePidFile`.

## 3. The runs

| Run | Checks | States, time |
|---|---|---|
| `IRCServer_safety` | two connections, every message, timer and failure; four nicknames (two spellings of a preset one, another preset one, a free one) and the empty one; an open channel and a closed one, whose name is 0: `TypeOK`, `RegistrySound`, `RegistryComplete`, `MembersAlive`, `MembersAuthorised`, `NoUndefinedBehaviour`, `DeadlineAhead`, the refinement `KeepsChat` | 2.6 million, 140 s |
| `IRCServer_liveness` | two connections, one nickname, no channels, `FairSpec`: `NicknameReclaimed`, `ShutIsReleased` | 92 thousand, 35 s |
| `VoteBot_promise` | three clients with voice and an observer, two administrators, `FairSpec`: `TypeOK`, `CountCorrect`, `SomebodyMissing`, `VotersPresent`, `VotesInRange`, `DeadlineAhead`, `CleanSlate`, the refinement `KeepsPromise`, and `VoteEnds` | 232 thousand, 30 s |
| `SendQueue_wire` | one client, plain or SSL, two different messages, up to four in a row, `FairSpec`: `TypeOK`, `WireInOrder`, `NothingStranded`, the refinement `KeepsOrder`, `WritesEnd`, `Delivered` | 3 thousand, 1 s |
| `InputBuffer_lines` | lines of up to three bytes, reads of up to four, every byte a letter, CR, LF or NUL, `FairSpec`: `TypeOK`, `WithinBuffer`, `OneLateLine`, the refinement `KeepsLines`, `HandlerReturns` | 175 thousand, 10 s |
| `LogBot_lines` | the server with two connections, a preset and a free nickname in mixed case, two logged channels, one of them named 0: `LogTypeOK`, `LogTellsMembers`, `LogConsistent`, `SenderFound` | 1.5 million, 60 s |
| `ServerProcess_instances` | two processes, `FairSpec`: `TypeOK`, `InstanceGuarded`, `PidFileRemoved`, `ServerListens`, `RunsUntilStopped`, `ShutdownEnds` | 149 thousand, 15 s |
| `IRCServer_stale`, `_identify`, `VoteBot_deadline`, `SendQueue_error`, `InputBuffer_split` | one property each that the code does not keep (section 4) | a few seconds |

Bounds and why they are enough:

- *Connections* (2).  The hazards are between a client and one other: a holder
  and a contender for a nickname, a ghost and its victim, a shut client and its
  successor.  A third one adds nothing but time, and the theorems hold for any
  number.
- *Nicknames, channels*: one of every kind the code distinguishes (free and
  preset, spelled in two ways; open to observers and closed).  The closed channel is named
  0, so that JOIN 0 leads back into a channel that not everybody may join.
- `MaxChannelList` (2): a PART with one channel that is left and one that is
  not.
- `MaxOptions` (3): two options plus abstention are the minimum for START.
  `MaxRestarts` (1): START during a vote, once per vote.
- Three voters for the bot: two votes can be missing while a third one is cast,
  changed or withdrawn.  Two administrators compete for the lock, a voter and
  the observer, who prepares votes without having one.  `Numbers` holds
  one number more than there can be options, so that a vote out of range occurs.
- `MaxMessages` (4): one message on the wire, one in the buffer and two in the
  queue; with two different ones, so that a swap or a repetition shows.  Two
  halves per message, so that a write can stop inside it.
- `MaxLength` (3), `MaxRead` (4): a line of one character with CRLF is as long as
  allowed and one of two is too long; a read may hold four empty lines, or the
  end of one line, a whole one and the beginning of a third; a remainder of two
  bytes behind one cut off makes `memcpy` overlap.  The buffer holds twelve
  bytes, and a remainder grows over several reads.
- Two logged channels, so that a QUIT has to reach both logs and a PART one; one
  is named 0, for the JOIN that follows the PARTs of a JOIN 0.
- Two processes: one holds what the other runs into.  A third one finds the pid
  file, the mutex and the port in the same states.
- The TLC runs of `IRCServer` and `LogBot` switch the deadlock check off: every connection
  object may have been used up (the real server creates new ones), and a crash
  ends everything.  Those of `SendQueue` do as well: a client that is shut and
  has no write left is done, and those of `InputBuffer`, as a connection that is
  closed reads no more.  `VoteBot` and `ServerProcess` run with the check.

Fairness.  `IRCServer!Fairness` and `VoteBot!FairSpec` assume weak fairness of
the handlers of queued completions and of `TimerExpires`, for each client: the
event loop runs every completion it has queued, and time passes.  Nothing is
assumed of the peers, administrators and voters.  For VoteBot, that a running
timer expires although START re-arms it rests on `MaxRestarts`: an administrator
who repeats START for ever puts the end off for ever.

`SendQueue!FairSpec` assumes weak fairness of the two completion handlers of a
write.  That the peer reads is no matter of the server: `Delivered` is stated
under `PeerReads`.

`InputBuffer!FairSpec` assumes that the processor runs the loop over a read (weak
fairness of `Turn`).  `ServerProcess!Fairness` assumes that a process makes
progress through `Initialize`, its queued completions and the end of `main`, that
the deadline of a vote comes, and that the completions of clients that are *shut*
come in (`Shutdown` closes their sockets; that they then run out is
`ShutIsReleased` of `IRCServer`).  Nothing is assumed of connected clients, of
accepts or of signals.

Every property of a passing run has a mutant of the code that breaks it (kept
beside the definition it replaces, marked "mutant"): a forgotten cleanup, a
dropped check, a second disconnection, an off-by-one.

## 4. What the code does not keep

Each of these is a run that must end with a counterexample.

1. `IRCServer_stale`: a line whose completion was queued when its connection was
   shut is handled; a JOIN in it makes a dead client a channel member.
2. `IRCServer_identify`: a PONG replaces the deadline to identify.
3. `VoteBot_deadline`: a queued deadline of a vote that is over ends the next
   vote, or its preparation, early.
4. `SendQueue_error`: the ERROR of a disconnection stays in the queue if a write
   is under way.  For a channel member one always is: its own QUIT.
5. `InputBuffer_split`: a CRLF that is split between two reads is not recognised
   as one, since the search goes on behind the CR that was kept; the line keeps
   its CR.

Others are in the models, and exempted by name in the properties they would
break, but have no run of their own:

- The empty nickname is accepted and counts as "no nickname": a channel member
  with it can rename itself, against the comment at `CIRCServer.cpp:578`, and is
  not cleaned up when it disconnects (`stray`; `NicknameKept`, a theorem, says
  that this and finding 1 are the only ways to change the nickname of a member).
- PART gives up at the first channel the client is not in, although all given
  channels are to be processed (`Left`, `CIRCServer.cpp:654`).
- An empty text is no number and may still be counted as a vote, with the value
  of an uninitialised variable (`ReceiveEmptyVote`, `CVoteBot.cpp:226-241`).
- `memcpy` on overlapping ranges (`Overlap` in `KeepsLines`).
- Two instances that start together both pass the test for the pid file
  (`raced`): the port stops the second one, but at its end it removes the pid
  file of the first.
- An accept that fails is not followed by another one: the server is deaf from
  then on, and ends when its last client leaves (`acceptError`).
- A shutdown that hits a handler, a queued accept or a running vote is
  undefined behaviour (`undefined`); a signal before there is an acceptor is
  lost.

Two smaller ones are in the model but have no run of their own: JOIN 0 goes on to join a
channel named "0" (`ReceiveMessage_JOIN0`), and the registration deadline, whose
comment speaks of clients without NICK, also disconnects those without USER.

## 5. What is proved

`IRCServer_proofs` holds for any sets of clients, virtual clients, nicknames,
channels and allowed users, under the three named assumptions of `IRCServer`:
clients and bots are different things; lowercasing leaves the empty name alone,
the bots have different nonempty names and no password belongs to the empty
name; the channel functions have the channels as their domain.

| Theorem | States |
|---|---|
| `TypeCorrect` | `Spec => []TypeOK` |
| `Invariance` | `Spec => []IInv` |
| `RegistryCorrect`, `RegistryReachesAll` | `RegistrySound`, `RegistryComplete` |
| `MembershipCorrect`, `MembershipEarned` | `MembersAlive`, `MembersAuthorised` |
| `BehaviourDefined` | `NoUndefinedBehaviour` |
| `DeadlineCorrect` | `DeadlineAhead` |
| `NicknameFixed` | `Spec => NicknameKept`: nobody who has identified or is in a channel changes its nickname |
| `IRCServer_refinement!Refinement` | `Spec => KeepsChat` |
| `IRCServer_refinement!ChannelSteady` | `Spec => MembersSteady`: a handler lets one client at most in or out of a channel, and a member keeps its nickname |
| `IRCServer_progress!NicknamesReclaimed` | `FairSpec /\ []HandlersCanRun => NicknameReclaimed` |
| `IRCServer_progress!ShutClientsReleased` | `FairSpec /\ []HandlersCanRun => ShutIsReleased` |

The inductive invariant `IInv` is the conjunction of `TypeOK`, the safety
invariants and what they need of each other: a connection that has not been
accepted has no state (`UnusedHasNoState`), and registration comes first: a
client with a nickname has sent NICK, only a registered one has identified,
joined or any deadline but the first (`RegistrationFirst`).  The safety
invariants are not inductive alone: `MembersAuthorised` survives a NICK only
because the registry entry under the client's name is its own
(`RegistryComplete`), so that `Frozen` looks at the right client;
`RegistrySound` survives a disconnection only because the name in the entry is
the client's present one.  The proof first sorts the actions: those that touch
neither names nor memberships (`Quiet`), those that do nothing but disconnect a
client (`Ends`), and the six messages that do more; each part of the invariant
is then shown for each kind.

The refinement has one lemma for each kind of step, named for the handler
(`NickChat`, `IdentifyChat`, `JoinChat`, `EndsChat`, ...).  It asks for one more
invariant, that the bots keep their entries in the registry (`BotsKept`); the rest
of what the abstract actions demand are the parts of `IInv`: the test of
`m_Nicknames` means `Free` because the registry is complete and sound, `Rename` is
`Alone` because both sides of a membership agree, and a step of a client that is
shut already changes nothing of the chat, because it strays if it would.
`ChannelSteady` is then proved from `Chat`: it is what `VoteBot` assumes of the
server, which takes a client for a nickname and lets members come and go one at a
time.

The two liveness theorems follow one client from one deadline to the next.  A
client that gets no more lines (`Silent`) has nothing left but its timer and the
handler that is due, and each step of anybody either ends its connection or moves
these two on (`Ticks`).  A silent peer goes from a ping that is set over a
ping that is due to a deadline that ends it; a client that is shut first loses its
read (`ReadsRight`: closing the socket has completed it) and then passes five
states, of which only a ping arms another timer; the last one is `Released`.

`VoteBot_proofs` holds for any finite set of clients, any administrators and
voters among them, and any `MaxOptions` and `MaxRestarts` (assumptions
`ClientsAssumption`, `BoundsAssumption`).

| Theorem | States |
|---|---|
| `TypeCorrect` | `Spec => []TypeOK` |
| `Invariance` | `Spec => []IInv` |
| `CountingCorrect`, `SomebodyIsMissing` | `CountCorrect`, `SomebodyMissing` |
| `VotesCorrect`, `VotesAreOptions` | `VotersPresent`, `VotesInRange` |
| `DeadlineArmed`, `ResetCorrect` | `DeadlineAhead`, `CleanSlate` |
| `Refinement` | `Spec => KeepsPromise` |
| `VotesTerminate` | `FairSpec /\ []DeadlineCanRun => VoteEnds` |

Here `IInv` needs one part beside the safety invariants: a client that is no
voter has option 0 (`OthersAbstain`), which START relies on when it makes the
client one.  Every handler that ends in `_CheckVotes` either resets the bot
(`ResetInv`) or goes on with new votes (`ProceedInv`); `CheckVotesInv` joins the
two, and each caller shows that the counter it passes on is the number of cast
votes.  The refinement follows the same line: `CheckVotesProceeds` shows that
comparing a counter with the number of keys decides what `SecretVote` decides by
asking whether a ballot is missing, and `ResultsAreTally` that adding up options
that are 0 until somebody votes is the tally with missing ballots as
abstentions; one lemma for each kind of handler then names the abstract step.

`SendQueue_proofs` holds for any messages and any `MaxMessages` (assumption
`MessagesAssumption`).

| Theorem | States |
|---|---|
| `TypeCorrect` | `Spec => []TypeOK` |
| `Invariance` | `Spec => []IInv` |
| `WireCorrect` | `WireInOrder` |
| `QueueDrained` | `NothingStranded` |
| `WritesCorrect` | `HandshakeFirst`: nothing is written to an SSL client before its handshake |
| `Refinement` | `Spec => KeepsOrder` |
| `WritesTerminate` | `FairSpec /\ []CompletionsCanRun => WritesEnd` |

`WireInOrder` relates the first and the last stage only; `IInv` says where every
requested message is: those behind `Taken` are the queue (`QueueInOrder`), the one
at `Taken` is in the buffer if one is in use (`BufferIsLast`), and the wire holds
the halves of the others and `half` halves of that one (`WireLength`,
`WireContent`).  A handler does one of four things to them: it lets messages
queue up (`QueuedInv`), gives the first of new ones to an idle client
(`TakenInv`), replaces a buffer that has been written (`NextTakenInv`), or the
socket takes a half (`TransmitInv`).

`InputBuffer_proofs` holds for any text and any control characters, any
`MaxLength` and any `MaxRead` (assumptions `CharactersAssumption`,
`LengthAssumption`).

| Theorem | States |
|---|---|
| `TypeCorrect` | `Spec => []TypeOK` |
| `Invariance` | `Spec => []IInv` |
| `BufferSafe`, `LateLines` | `WithinBuffer`, `OneLateLine` |
| `LoopAdvances` | `Spec => TurnsRunOut`: each turn of the loop is the last or leaves fewer bytes ahead |
| `Refinement` | `Spec => KeepsLines`: the lines are those of the uncut stream, with the two exceptions |

`IInv` adds four facts.  `RestIsPlain`: the line that is being read holds no LF and no
NUL, without which a line that is handed on would not be one.
`RejectionIsFinal`: once the loop has left the buffer no line is taken from it.
`BehindRemainder` and `NoSplitBehind`: the walk begins behind the remainder and never
goes back, and behind the first byte of a read it never comes upon the LF of a
CRLF alone; from these follows that a line keeps the CR of its ending only under
`SplitEnding` (`LonelyLF`).  Where a remainder goes needs the one piece of
arithmetic: the bytes `memcpy` copies are those of the remainder, even if it
reads them after overwriting them (`CopiedBytes`).  The refinement has one lemma
for each action, named for the step of `LineStream` it maps to: a read arrives
(`ReceiveArrives`), a character is taken (`WalkTakes`), a line ends
(`ReceiveMessageEndsLine`), is too long (`DiscardIsTooLong`), or the remainder is kept
(`KeepRemainderHides`), which is no step at all unless a NUL hides something or the
ranges overlap.

`LogBot_proofs` holds for any constants of `IRCServer` and any set of logged
channels (its assumptions and `LoggedChannelsAssumption`).

| Theorem | States |
|---|---|
| `SystemIsServer` | `SysSpec => Spec`: the composition does what the server does |
| `LogInvariance` | `SysSpec => []LogInv` |
| `LogTypes` | `LogTypeOK` |
| `LogRight`, `LogSound` | `LogTellsMembers`, `LogConsistent` |
| `SenderAlwaysFound` | `SenderFound` |

`LogInv` is the inductive invariant of the server together with the four
invariants of the log, and rests on the registry: as an open client is registered
under its own name (`RegistryComplete`), the lookup by name finds the sender
itself (`SenderIsFound`); as no two members share a nickname (`MemberUnique`), a
name that leaves the log is no other member's.  A handler either changes the
members and the log alike (`LogFollows`) or neither (`LogRests`).

`ServerProcess_proofs` holds for any set of processes (`ProcessesAssumption`).

| Theorem | States |
|---|---|
| `TypeCorrect` | `Spec => []TypeOK` |
| `Invariance` | `Spec => []IInv` |
| `InstanceAlone` | `InstanceGuarded` |
| `PidFileCleanedUp` | `PidFileRemoved` |
| `ListensWhileServing` | `ServerListens` |
| `EndsForAReason` | `Spec => RunsUntilStopped` |
| `ShutdownTerminates` | `FairSpec /\ []EndCanCome => ShutdownEnds` |

`IInv` adds that `deletePidFile` is set exactly while there is a file to remove
(`FlagRight`), that a platform uses one guard and not the other (`SystemsApart`),
that a process which passed the mutex has a handle of it (`HasHandle`), and that a
server listens from the end of its `Init` on (`ListensFromInit`), which is what
`RunsUntilStopped` needs: the event loop of a listening server has work.

### Liveness, and what it rests on

A leads-to under weak fairness follows from three kinds of facts: each step from a
state goes to the next one or stays (proved, from the actions), the fair action goes
to the next one (proved), and in each of these states the fair action can be taken.
The third is a statement with ENABLED, which this prover treats as unknown.  It is
therefore named, once per module, and is a hypothesis of the liveness theorems:

| Named fact | Says |
|---|---|
| `IRCServer!HandlersCanRun` | while the process lives, every queued completion, and every deadline that is due, has a handler that can be run, and every timer that is set can expire |
| `VoteBot!DeadlineCanRun` | the timer of a vote that is running can expire, its handler can be run |
| `SendQueue!CompletionsCanRun` | the completion of a write can be handled |
| `ServerProcess!EndCanCome` | what each phase of a stopped process waits for can come |

None of them is taken on trust: each is the first conjunct of a liveness property
(`ShutIsReleased`, `VoteEnds`, `WritesEnd`, `ShutdownEnds`), so TLC checks it in
every reachable state of the run, where it holds.  For all constants it remains
unproved.

Only model-checked, because the prover cannot reach it:

- those four facts in general (ENABLED);
- `HandlerReturns` and `Delivered`: they take as many steps as there are bytes in
  the buffer or messages in the queue, which is induction over data.  Of
  `HandlerReturns` the argument but for that induction is the theorem
  `LoopAdvances`;
- the violations of section 4.

Every other property of a passing run is a theorem.

## 6. Not modelled

Left out for good, as it changes no state the properties speak of, or is not this
program's:

- the wording of replies, help texts, announcements and log lines;
- how `_ReceiveMessage` splits a line into prefix, command and parameters
  (`CNetworkClient.cpp:201-261`): a pure function whose result is the message that
  an action of `IRCServer` receives, or `InvalidLine`;
- what the configuration files and the command line yield: the constants of the
  modules.  That reading them can fail is in `ServerProcess`;
- installing the Windows service, its event log and the status it reports;
- hashing of passwords, OpenSSL, the scripts, the build.

Left out, and a possible continuation:

- the own lines of the bots in a log: LogBot and the VoteBots join once before the
  first client, and never leave;
- a composition of `IRCServer` with `VoteBot` by joint actions, like the one with
  LogBot.  What `VoteBot` assumes of the server is proved of it: members come and go
  one at a time under one nickname (`ChannelSteady`), and a client leaves with a PART
  or QUIT before it is freed (`MembersAlive`); `Chat` is the half of the server that
  such a composition would need;
- a bound on `m_SendQueue`: there is none in the code to state.
