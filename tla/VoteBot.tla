-------------------------------- MODULE VoteBot --------------------------------
(***************************************************************************)
(* CVoteBot: an administrator prepares a vote by private messages to the   *)
(* bot, the bot asks everybody with voice in its channel, and announces    *)
(* the results when all votes are in or the deadline expires.              *)
(*                                                                         *)
(* One action per private message that changes something, one for each of  *)
(* the two things that happen in the channel, and the timer.  As in        *)
(* IRCServer a deadline handler that is queued is out of reach of cancel.  *)
(*                                                                         *)
(* A client stands for its nickname, which is fixed while it is in the     *)
(* channel; everybody who writes to the bot has identified.                *)
(***************************************************************************)
EXTENDS Naturals, FiniteSets

CONSTANTS
    Clients,        \* the network clients
    AdminUsers,     \* m_AdminUsers: who may prepare a vote
    AllowedUsers,   \* who has voice in the channel of the bot
    NoAdmin,        \* no m_CurrentAdminNickname
    NoVote,         \* no ballot, see SecretVote
    MaxOptions,     \* bound: m_Options.size()
    MaxRestarts     \* bound: how often START is repeated during a vote

ASSUME ClientsAssumption ==
    /\ IsFiniteSet(Clients)
    /\ AdminUsers \subseteq Clients
    /\ AllowedUsers \subseteq Clients
    /\ NoAdmin \notin Clients

ASSUME BoundsAssumption ==
    /\ MaxOptions \in Nat \ {0}
    /\ MaxRestarts \in Nat
    /\ NoVote \notin Nat

VARIABLES
    members,        \* the network clients in the channel
    admin,          \* m_CurrentAdminNickname
    question,       \* m_Question is not empty
    options,        \* m_Options.size(); option 0 is the abstention
    excludeSent,    \* m_ExcludeCommandSent
    excluded,       \* m_ExcludedNicknames
    voters,         \* the keys of m_Votes
    voted,          \* those of them with HasVoted
    option,         \* Option of every voter
    count,          \* m_VoteCount
    started,        \* m_VoteStarted
    timer,          \* m_Timer waits
    due,            \* an expired _VoteDeadline waits in the loop's queue
    restarts,       \* how often START was repeated in this vote
    results         \* history: the results of the last vote that was held

preparation == <<admin, question, options, excludeSent, excluded>>
ballotBox   == <<voters, voted, option, count>>
vars == <<members, preparation, ballotBox, started, timer, due, restarts, results>>

Options == 0..(MaxOptions - 1)
Numbers == 0..MaxOptions            \* what voters send: one number is no option

TypeOK ==
    /\ members     \subseteq Clients
    /\ admin       \in Clients \cup {NoAdmin}
    /\ question    \in BOOLEAN
    /\ options     \in 0..MaxOptions
    /\ excludeSent \in BOOLEAN
    /\ excluded    \subseteq Clients
    /\ voters      \subseteq Clients
    /\ voted       \subseteq voters
    /\ option      \in [Clients -> Options]
    /\ count       \in Nat
    /\ started     \in BOOLEAN
    /\ timer       \in BOOLEAN
    /\ due         \in BOOLEAN
    /\ restarts    \in 0..MaxRestarts
    /\ results     \in [Options -> Nat]

Init ==
    /\ members     = {}
    /\ admin       = NoAdmin
    /\ question    = FALSE
    /\ options     = 0
    /\ excludeSent = FALSE
    /\ excluded    = {}
    /\ voters      = {}
    /\ voted       = {}
    /\ option      = [c \in Clients |-> 0]
    /\ count       = 0
    /\ started     = FALSE
    /\ timer       = FALSE
    /\ due         = FALSE
    /\ restarts    = 0
    /\ results     = [o \in Options |-> 0]

(***************************************************************************)
(* Parts of the handlers.                                                  *)
(***************************************************************************)
\* _IsVotePrepared: two options plus abstention are the minimum.
Prepared == question /\ options >= 3

\* The administrator commands other than CANCEL and HELP are for whoever holds
\* the lock, or for every administrator if nobody does.
MayAdminister(c) == c \in AdminUsers /\ admin \in {NoAdmin, c}

\* Everything _Reset does except m_CurrentAdminNickname and m_Options, which
\* NEW sets again.
ResetWithoutTimer ==                \* mutant: no m_Timer.cancel()
    /\ question' = FALSE
    /\ excludeSent' = FALSE
    /\ excluded' = {}
    /\ voters' = {}
    /\ voted' = {}
    /\ option' = [c \in Clients |-> 0]
    /\ count' = 0
    /\ started' = FALSE
    /\ restarts' = 0
    /\ UNCHANGED timer

ResetWithoutExcluded ==             \* mutant: m_ExcludedNicknames survives
    /\ question' = FALSE
    /\ excludeSent' = FALSE
    /\ UNCHANGED excluded
    /\ voters' = {}
    /\ voted' = {}
    /\ option' = [c \in Clients |-> 0]
    /\ count' = 0
    /\ started' = FALSE
    /\ restarts' = 0
    /\ timer' = FALSE

Clear ==
    /\ question' = FALSE
    /\ excludeSent' = FALSE
    /\ excluded' = {}
    /\ voters' = {}
    /\ voted' = {}
    /\ option' = [c \in Clients |-> 0]
    /\ count' = 0
    /\ started' = FALSE
    /\ restarts' = 0
    /\ timer' = FALSE

Reset ==
    /\ admin' = NoAdmin
    /\ options' = 0
    /\ Clear

\* The results _CheckVotes announces.  An announcement with no vote running has
\* no question and no answers; results is about votes that were held.
Announce(box, choice) ==
    results' = IF started THEN [o \in Options |-> Cardinality({v \in box : choice[v] = o})]
                          ELSE results

\* _CheckVotes, called with these m_Votes and this m_VoteCount.
CheckVotesTooEarly(box, done, choice, n) ==    \* mutant: off by one
    IF n + 1 >= Cardinality(box)
      THEN Announce(box, choice) /\ Reset
      ELSE /\ voters' = box
           /\ voted' = done
           /\ option' = choice
           /\ count' = n
           /\ UNCHANGED <<preparation, started, timer, restarts, results>>

CheckVotes(box, done, choice, n) ==
    IF n = Cardinality(box)
      THEN Announce(box, choice) /\ Reset
      ELSE /\ voters' = box
           /\ voted' = done
           /\ option' = choice
           /\ count' = n
           /\ UNCHANGED <<preparation, started, timer, restarts, results>>

(***************************************************************************)
(* The channel.                                                            *)
(***************************************************************************)
Join(c) ==
    /\ c \notin members
    /\ members' = members \cup {c}
    /\ UNCHANGED <<preparation, ballotBox, started, timer, due, restarts, results>>

\* A PART or QUIT reaches SendIRCMessage while the client is still a member.
\* Its entry is dropped, and so is its vote if it has cast one.
Leaves(c) == started /\ c \in voters

LeaveAlwaysUncounts(c) ==           \* mutant: a missing vote is subtracted, too
    /\ c \in members
    /\ members' = members \ {c}
    /\ IF Leaves(c)
         THEN CheckVotes(voters \ {c}, voted \ {c}, [option EXCEPT ![c] = 0], count - 1)
         ELSE UNCHANGED <<preparation, ballotBox, started, timer, restarts, results>>
    /\ UNCHANGED due

LeaveWithoutCheck(c) ==             \* mutant: no _CheckVotes afterwards
    /\ c \in members
    /\ members' = members \ {c}
    /\ IF Leaves(c)
         THEN /\ voters' = voters \ {c}
              /\ voted' = voted \ {c}
              /\ option' = [option EXCEPT ![c] = 0]
              /\ count' = IF c \in voted THEN count - 1 ELSE count
         ELSE UNCHANGED ballotBox
    /\ UNCHANGED <<preparation, started, timer, due, restarts, results>>

LeaveUnnoticed(c) ==                \* mutant: PART and QUIT are not handled
    /\ c \in members
    /\ members' = members \ {c}
    /\ UNCHANGED <<preparation, ballotBox, started, timer, due, restarts, results>>

Leave(c) ==
    /\ c \in members
    /\ members' = members \ {c}
    /\ IF Leaves(c)
         THEN CheckVotes(voters \ {c}, voted \ {c}, [option EXCEPT ![c] = 0],
                         IF c \in voted THEN count - 1 ELSE count)
         ELSE UNCHANGED <<preparation, ballotBox, started, timer, restarts, results>>
    /\ UNCHANGED due

(***************************************************************************)
(* Private messages to the bot (SendPrivateMessage and the handlers it     *)
(* calls).  Messages that are only answered change nothing.                *)
(***************************************************************************)
ReceiveCommand_CANCEL(c) ==
    /\ c \in AdminUsers
    /\ admin # NoAdmin
    /\ Reset
    /\ UNCHANGED <<members, due, results>>

ReceiveCommand_NEW(c) ==
    /\ MayAdminister(c)
    /\ ~started
    /\ ~question
    /\ Clear
    /\ options' = 1
    /\ admin' = c
    /\ UNCHANGED <<members, due, results>>

\* The first text after NEW is the question.
EnterQuestion(c) ==
    /\ MayAdminister(c)
    /\ ~started
    /\ ~question
    /\ admin # NoAdmin
    /\ question' = TRUE
    /\ UNCHANGED <<members, admin, options, excludeSent, excluded, ballotBox, started, timer, due,
                   restarts, results>>

\* Every further text is an option, until EXCLUDE.
EnterOption(c) ==
    /\ MayAdminister(c)
    /\ ~started
    /\ question
    /\ ~excludeSent
    /\ options < MaxOptions
    /\ options' = options + 1
    /\ UNCHANGED <<members, admin, question, excludeSent, excluded, ballotBox, started, timer, due,
                   restarts, results>>

ReceiveCommand_EXCLUDE(c) ==
    /\ MayAdminister(c)
    /\ ~started
    /\ Prepared
    /\ excludeSent' = TRUE
    /\ UNCHANGED <<members, admin, question, options, excluded, ballotBox, started, timer, due,
                   restarts, results>>

\* After EXCLUDE every text is a nickname that may not vote.
EnterExcluded(c, name) ==
    /\ MayAdminister(c)
    /\ ~started
    /\ excludeSent
    /\ excluded' = excluded \cup {name}
    /\ UNCHANGED <<members, admin, question, options, excludeSent, ballotBox, started, timer, due,
                   restarts, results>>

\* START asks everybody with voice who is not excluded.  It does not look
\* whether a vote is running: then those who have come since are asked as well,
\* and the time begins anew.
Eligible == (members \cap AllowedUsers) \ excluded

ReceiveCommand_START(c) ==
    /\ MayAdminister(c)
    /\ Prepared
    /\ started => restarts < MaxRestarts
    /\ IF voters \cup Eligible = {}
         THEN Reset
         ELSE /\ voters' = voters \cup Eligible
              /\ started' = TRUE
              /\ timer' = TRUE
              /\ restarts' = IF started THEN restarts + 1 ELSE restarts
              /\ UNCHANGED <<preparation, voted, option, count>>
    /\ UNCHANGED <<members, due, results>>

\* A vote of a voter is recorded: the last part of _ReceiveVote.
CastVoteTwice(c, o) ==              \* mutant: a changed vote counts again
    /\ started
    /\ c \in voters
    /\ CheckVotes(voters, voted \cup {c}, [option EXCEPT ![c] = o], count + 1)
    /\ UNCHANGED <<members, due>>

CastVote(c, o) ==
    /\ started
    /\ c \in voters
    /\ CheckVotes(voters, voted \cup {c}, [option EXCEPT ![c] = o],
                  IF c \in voted THEN count ELSE count + 1)
    /\ UNCHANGED <<members, due>>

\* The text is a number and the number is one of the options.
ReceiveVoteUnchecked(c, o) ==       \* mutant: no check of the range
    CastVote(c, o)

ReceiveVote(c, o) ==
    /\ o < options
    /\ CastVote(c, o)

\* An empty text is no reason to ask for a number, but none is read from it
\* either: Number keeps whatever it holds, and if that is an option the vote is
\* cast.
ReceiveEmptyVote(c) ==
    \E o \in Numbers :
        /\ o < options
        /\ CastVote(c, o)

(***************************************************************************)
(* The timer.                                                              *)
(***************************************************************************)
TimerExpires ==
    /\ timer
    /\ ~due
    /\ due' = TRUE
    /\ timer' = FALSE
    /\ UNCHANGED <<members, preparation, ballotBox, started, restarts, results>>

\* _VoteDeadline sets m_VoteCount so that _CheckVotes finds all votes in.
VoteDeadlineChecks ==               \* mutant: m_VoteCount is left as it is
    /\ due
    /\ due' = FALSE
    /\ CheckVotes(voters, voted, option, count)
    /\ UNCHANGED members

VoteDeadline ==
    /\ due
    /\ due' = FALSE
    /\ CheckVotes(voters, voted, option, Cardinality(voters))
    /\ UNCHANGED members

Next ==
    \/ \E c \in Clients :
          \/ Join(c) \/ Leave(c)
          \/ ReceiveCommand_CANCEL(c) \/ ReceiveCommand_NEW(c)
          \/ EnterQuestion(c) \/ EnterOption(c)
          \/ ReceiveCommand_EXCLUDE(c)
          \/ \E name \in Clients : EnterExcluded(c, name)
          \/ ReceiveCommand_START(c)
          \/ \E o \in Numbers : ReceiveVote(c, o)
          \/ ReceiveEmptyVote(c)
    \/ TimerExpires
    \/ VoteDeadline

Spec == Init /\ [][Next]_vars

\* Time passes and the loop runs what it has queued.  That the deadline of a
\* running vote comes, although START can put it off, is due to MaxRestarts.
FairSpec == Spec /\ WF_vars(TimerExpires) /\ WF_vars(VoteDeadline)

(***************************************************************************)
(* Safety.                                                                 *)
(***************************************************************************)
\* The counter agrees with the votes it counts, whoever changes a vote, comes
\* or leaves: what _CheckVotes compares with the number of voters.
CountCorrect == count = Cardinality(voted)

\* A running vote has somebody left to wait for: it never goes on after the last
\* missing vote was cast or the last undecided voter has left.
SomebodyMissing == started => voted # voters

\* Every pointer in m_Votes is to a member of the channel who has voice and is
\* not excluded: nobody is asked, counted or notified after leaving.
VotersPresent == voters \subseteq (members \cap AllowedUsers) \ excluded

\* Every recorded vote is an index into the array of results.
VotesInRange == \A v \in voters : option[v] < options /\ (v \notin voted => option[v] = 0)

\* A vote that runs has a deadline ahead, and m_Timer waits for nothing else.
DeadlineAhead == (started => timer \/ due) /\ (timer => started)

\* When nobody holds the lock everything is as it was at the start, so that no
\* vote inherits anything from the one before.
CleanSlate ==
    /\ admin = NoAdmin => ~started /\ ~question /\ options = 0 /\ ~excludeSent
    /\ ~started => voters = {} /\ count = 0
    /\ ~excludeSent => excluded = {}
    /\ started => Prepared

(***************************************************************************)
(* What the bot promises: with a ballot for every voter, empty until it is *)
(* cast, the bot implements SecretVote.                                    *)
(***************************************************************************)
phase   == IF started THEN "open" ELSE IF admin = NoAdmin THEN "idle" ELSE "preparing"
ballots == [v \in voters |-> IF v \in voted THEN option[v] ELSE NoVote]

Promise == INSTANCE SecretVote WITH phase <- phase, ballots <- ballots, results <- results

\* The bot only opens, counts and closes votes in the way SecretVote allows.
KeepsPromise == Promise!Spec

\* The timer can expire while it is set, and its handler can run in every state
\* of the bot.
DeadlineCanRun ==
    /\ timer /\ ~due => ENABLED <<TimerExpires>>_vars
    /\ due           => ENABLED <<VoteDeadline>>_vars

\* Under FairSpec every vote comes to an end, whoever answers.
VoteEnds ==
    /\ []DeadlineCanRun
    /\ started ~> ~started

(***************************************************************************)
(* What the code does not keep.                                            *)
(***************************************************************************)
\* "The deadline has expired, so our vote ends here." (CVoteBot.cpp:289): the
\* handler finds a vote running that has no later deadline ahead.
DeadlineEndsItsVote == [][VoteDeadline => started /\ ~timer]_vars

================================================================================
