----------------------------- MODULE VoteBot_proofs ----------------------------
(***************************************************************************)
(* Theorems about VoteBot for any clients, administrators and bounds: its  *)
(* safety invariants, that it implements SecretVote, and that votes end.   *)
(***************************************************************************)
EXTENDS VoteBot, FiniteSetTheorems, TLAPS

(***************************************************************************)
(* The inductive invariant.  Beside the safety invariants it only says     *)
(* that nothing is left of the option of a client that is no voter, which  *)
(* is what START relies on when it makes the client one.                   *)
(***************************************************************************)
OthersAbstain == \A v \in Clients \ voters : option[v] = 0

IInv ==
    /\ TypeOK
    /\ CountCorrect
    /\ SomebodyMissing
    /\ VotersPresent
    /\ VotesInRange
    /\ DeadlineAhead
    /\ CleanSlate
    /\ OthersAbstain

(***************************************************************************)
(* Sets of clients.                                                        *)
(***************************************************************************)
LEMMA SetsOfClients ==
    ASSUME NEW S \in SUBSET Clients
    PROVE  IsFiniteSet(S) /\ Cardinality(S) \in Nat
BY FS_Subset, FS_CardinalityType, ClientsAssumption

\* A set of votes is complete exactly if there are as many as voters.
LEMMA AllVotesIn ==
    ASSUME NEW box \in SUBSET Clients, NEW done \in SUBSET box
    PROVE  Cardinality(done) = Cardinality(box) <=> done = box
<1>1. IsFiniteSet(box)
  BY SetsOfClients
<1> QED
  BY <1>1, FS_Subset

\* The results are numbers.
LEMMA ResultsType ==
    ASSUME NEW box \in SUBSET Clients, NEW choice \in [Clients -> Options]
    PROVE  [o \in Options |-> Cardinality({v \in box : choice[v] = o})] \in [Options -> Nat]
<1>1. \A o \in Options : Cardinality({v \in box : choice[v] = o}) \in Nat
  <2> TAKE o \in Options
  <2> {v \in box : choice[v] = o} \in SUBSET Clients
    OBVIOUS
  <2> QED
    BY SetsOfClients
<1> QED
  BY <1>1

\* A number that is in range is an option.
LEMMA OptionOfNumber ==
    ASSUME TypeOK, NEW o \in Numbers, o < options
    PROVE  o \in Options
BY BoundsAssumption DEF TypeOK, Numbers, Options

(***************************************************************************)
(* The two outcomes of a handler that checks the votes: everything is      *)
(* reset, or the vote goes on with new ballots.                            *)
(***************************************************************************)
LEMMA ResetInv ==
    ASSUME Reset,
           members' \subseteq Clients, due' \in BOOLEAN,
           results' \in [Options -> Nat]
    PROVE  IInv'
<1> USE DEF Reset, Clear
<1> 0 \in Options
  BY BoundsAssumption DEF Options
<1>1. TypeOK'
  <2>1. option' \in [Clients -> Options]
    OBVIOUS
  <2>2. options' \in 0..MaxOptions /\ restarts' \in 0..MaxRestarts
    BY BoundsAssumption
  <2> QED
    BY <2>1, <2>2 DEF TypeOK
<1>2. CountCorrect'
  BY FS_EmptySet DEF CountCorrect
<1> QED
  BY <1>1, <1>2 DEF IInv, SomebodyMissing, VotersPresent, VotesInRange, DeadlineAhead, CleanSlate,
                    OthersAbstain

LEMMA ProceedInv ==
    ASSUME IInv, started,
           NEW box \in SUBSET voters, NEW done \in SUBSET box, NEW choice \in [Clients -> Options],
           done # box,
           voters' = box, voted' = done, option' = choice, count' = Cardinality(done),
           \A v \in box : choice[v] < options,
           \A v \in Clients \ done : choice[v] = 0,
           UNCHANGED <<preparation, started, timer, due, restarts, results>>,
           members' \subseteq Clients, box \subseteq members'
    PROVE  IInv'
<1> USE DEF IInv, preparation
<1>1. TypeOK'
  <2> Cardinality(done) \in Nat
    BY SetsOfClients DEF TypeOK
  <2> QED
    BY DEF TypeOK
<1>2. CountCorrect' /\ SomebodyMissing'
  BY DEF CountCorrect, SomebodyMissing
<1>3. VotersPresent'
  BY DEF VotersPresent
<1>4. VotesInRange' /\ OthersAbstain'
  BY DEF VotesInRange, OthersAbstain, TypeOK
<1>5. DeadlineAhead' /\ CleanSlate'
  BY DEF DeadlineAhead, CleanSlate, Prepared
<1> QED
  BY <1>1, <1>2, <1>3, <1>4, <1>5

\* _CheckVotes preserves the invariant if its caller keeps the counter right.
LEMMA CheckVotesInv ==
    ASSUME IInv, started,
           NEW box \in SUBSET voters, NEW done \in SUBSET box, NEW choice \in [Clients -> Options],
           CheckVotes(box, done, choice, Cardinality(done)),
           \A v \in box : choice[v] < options,
           \A v \in Clients \ done : choice[v] = 0,
           members' \subseteq Clients, box \subseteq members',
           UNCHANGED due
    PROVE  IInv'
<1> box \in SUBSET Clients /\ due' \in BOOLEAN
  BY DEF IInv, TypeOK
<1>1. CASE Cardinality(done) = Cardinality(box)
  <2>1. Announce(box, choice) /\ Reset
    BY <1>1 DEF CheckVotes
  <2>2. results' \in [Options -> Nat]
    <3>1. results' = [o \in Options |-> Cardinality({v \in box : choice[v] = o})]
      BY <2>1 DEF Announce
    <3>2. [o \in Options |-> Cardinality({v \in box : choice[v] = o})] \in [Options -> Nat]
      BY ResultsType, Zenon
    <3> QED
      BY <3>1, <3>2
  <2> QED
    BY <2>1, <2>2, ResetInv
<1>2. CASE Cardinality(done) # Cardinality(box)
  <2>1. done # box
    BY <1>2
  <2>2. /\ voters' = box /\ voted' = done /\ option' = choice /\ count' = Cardinality(done)
        /\ UNCHANGED <<preparation, started, timer, due, restarts, results>>
    BY <1>2 DEF CheckVotes
  <2> QED
    BY <2>1, <2>2, ProceedInv
<1> QED
  BY <1>1, <1>2

(***************************************************************************)
(* The invariant holds initially and is preserved by every action.         *)
(***************************************************************************)
LEMMA InitInv == Init => IInv
<1> SUFFICES ASSUME Init PROVE IInv
  OBVIOUS
<1> USE DEF Init
<1> 0 \in Options
  BY BoundsAssumption DEF Options
<1>1. TypeOK
  <2>1. option \in [Clients -> Options] /\ results \in [Options -> Nat]
    OBVIOUS
  <2>2. options \in 0..MaxOptions /\ restarts \in 0..MaxRestarts
    BY BoundsAssumption
  <2> QED
    BY <2>1, <2>2 DEF TypeOK
<1>2. CountCorrect
  BY FS_EmptySet DEF CountCorrect
<1> QED
  BY <1>1, <1>2 DEF IInv, SomebodyMissing, VotersPresent, VotesInRange, DeadlineAhead, CleanSlate,
                    OthersAbstain

LEMMA JoinInv ==
    ASSUME IInv, NEW c \in Clients, Join(c)
    PROVE  IInv'
BY DEF Join, IInv, preparation, ballotBox, TypeOK, CountCorrect, SomebodyMissing, VotersPresent,
       VotesInRange, DeadlineAhead, CleanSlate, Prepared, OthersAbstain

LEMMA LeaveInv ==
    ASSUME IInv, NEW c \in Clients, Leave(c)
    PROVE  IInv'
<1> members' = members \ {c} /\ UNCHANGED due
  BY DEF Leave
<1>1. CASE Leaves(c)
  <2> DEFINE box    == voters \ {c}
             done   == voted \ {c}
             choice == [option EXCEPT ![c] = 0]
  <2>1. /\ box \in SUBSET voters /\ done \in SUBSET box /\ choice \in [Clients -> Options]
        /\ \A v \in box : choice[v] < options
        /\ \A v \in Clients \ done : choice[v] = 0
        /\ members' \subseteq Clients /\ box \subseteq members'
    BY BoundsAssumption DEF IInv, TypeOK, VotersPresent, VotesInRange, OthersAbstain, Options
  <2>2. Cardinality(done) = IF c \in voted THEN count - 1 ELSE count
    BY SetsOfClients, FS_RemoveElement DEF IInv, TypeOK, CountCorrect
  <2>3. CheckVotes(box, done, choice, Cardinality(done))
    BY <1>1, <2>2 DEF Leave
  <2>4. started
    BY <1>1 DEF Leaves
  <2> HIDE DEF box, done, choice
  <2> QED
    BY <2>1, <2>3, <2>4, CheckVotesInv
<1>2. CASE ~Leaves(c)
  <2>1. UNCHANGED <<preparation, ballotBox, started, timer, restarts, results>>
    BY <1>2 DEF Leave
  <2>2. started => c \notin voters
    BY <1>2 DEF Leaves
  <2> QED
    BY <2>1, <2>2 DEF IInv, preparation, ballotBox, TypeOK, CountCorrect, SomebodyMissing,
       VotersPresent, VotesInRange, DeadlineAhead, CleanSlate, Prepared, OthersAbstain
<1> QED
  BY <1>1, <1>2

\* Preparing a vote changes no vote, and changes nothing while a vote runs.
LEMMA PrepareInv ==
    ASSUME IInv, NEW c \in Clients,
           \/ EnterQuestion(c) \/ EnterOption(c) \/ ReceiveCommand_EXCLUDE(c)
           \/ \E name \in Clients : EnterExcluded(c, name)
    PROVE  IInv'
<1> USE DEF IInv, MayAdminister, ballotBox
<1>1. CASE EnterQuestion(c)
  BY <1>1 DEF EnterQuestion, TypeOK, CountCorrect, SomebodyMissing, VotersPresent, VotesInRange,
              DeadlineAhead, CleanSlate, OthersAbstain
<1>2. CASE EnterOption(c)
  <2>1. TypeOK'
    BY <1>2, BoundsAssumption DEF EnterOption, TypeOK
  <2>2. VotesInRange'
    BY <1>2 DEF EnterOption, TypeOK, VotesInRange, CleanSlate
  <2> QED
    BY <1>2, <2>1, <2>2 DEF EnterOption, CountCorrect, SomebodyMissing, VotersPresent,
                            DeadlineAhead, CleanSlate, OthersAbstain
<1>3. CASE ReceiveCommand_EXCLUDE(c)
  BY <1>3 DEF ReceiveCommand_EXCLUDE, Prepared, TypeOK, CountCorrect, SomebodyMissing, VotersPresent,
              VotesInRange, DeadlineAhead, CleanSlate, OthersAbstain
<1>4. CASE \E name \in Clients : EnterExcluded(c, name)
  BY <1>4 DEF EnterExcluded, TypeOK, CountCorrect, SomebodyMissing, VotersPresent,
              VotesInRange, DeadlineAhead, CleanSlate, OthersAbstain
<1> QED
  BY <1>1, <1>2, <1>3, <1>4

LEMMA CancelInv ==
    ASSUME IInv, NEW c \in Clients, ReceiveCommand_CANCEL(c)
    PROVE  IInv'
BY ResetInv DEF ReceiveCommand_CANCEL, IInv, TypeOK

LEMMA NewInv ==
    ASSUME IInv, NEW c \in Clients, ReceiveCommand_NEW(c)
    PROVE  IInv'
<1> USE DEF ReceiveCommand_NEW, Clear, IInv
<1> 0 \in Options
  BY BoundsAssumption DEF Options
<1>1. TypeOK'
  <2>1. option' \in [Clients -> Options]
    OBVIOUS
  <2>2. options' \in 0..MaxOptions /\ restarts' \in 0..MaxRestarts
    BY BoundsAssumption
  <2> QED
    BY <2>1, <2>2 DEF TypeOK
<1>2. CountCorrect'
  BY FS_EmptySet DEF CountCorrect
<1>3. CleanSlate'
  BY ClientsAssumption DEF CleanSlate
<1> QED
  BY <1>1, <1>2, <1>3 DEF SomebodyMissing, VotersPresent, VotesInRange, DeadlineAhead,
                          OthersAbstain

LEMMA StartInv ==
    ASSUME IInv, NEW c \in Clients, ReceiveCommand_START(c)
    PROVE  IInv'
<1> UNCHANGED <<members, due, results>> /\ Prepared
  BY DEF ReceiveCommand_START
<1>1. CASE voters \cup Eligible = {}
  BY <1>1, ResetInv DEF ReceiveCommand_START, IInv, TypeOK
<1>2. CASE voters \cup Eligible # {}
  <2>1. /\ voters' = voters \cup Eligible /\ started' = TRUE /\ timer' = TRUE
        /\ restarts' = IF started THEN restarts + 1 ELSE restarts
        /\ started => restarts < MaxRestarts
        /\ UNCHANGED <<preparation, voted, option, count>>
    BY <1>2 DEF ReceiveCommand_START
  <2> USE DEF IInv, preparation
  <2>2. TypeOK'
    BY <2>1, BoundsAssumption DEF TypeOK, Eligible
  <2>3. SomebodyMissing'
    BY <1>2, <2>1 DEF TypeOK, SomebodyMissing, CleanSlate
  <2>4. VotersPresent'
    BY <2>1 DEF VotersPresent, Eligible
  <2>5. VotesInRange' /\ OthersAbstain'
    BY <2>1 DEF VotesInRange, OthersAbstain, Prepared, TypeOK, Eligible
  <2>6. CountCorrect' /\ DeadlineAhead'
    BY <2>1 DEF CountCorrect, DeadlineAhead
  <2>7. CleanSlate'
    BY <2>1 DEF CleanSlate, Prepared, TypeOK
  <2> QED
    BY <2>2, <2>3, <2>4, <2>5, <2>6, <2>7
<1> QED
  BY <1>1, <1>2

LEMMA CastInv ==
    ASSUME IInv, NEW c \in Clients, NEW o \in Numbers, o < options, CastVote(c, o)
    PROVE  IInv'
<1> DEFINE done   == voted \cup {c}
           choice == [option EXCEPT ![c] = o]
<1>1. started /\ UNCHANGED <<members, due>>
  BY DEF CastVote
<1>2. /\ voters \in SUBSET voters /\ done \in SUBSET voters /\ choice \in [Clients -> Options]
      /\ \A v \in voters : choice[v] < options
      /\ \A v \in Clients \ done : choice[v] = 0
      /\ members' \subseteq Clients /\ voters \subseteq members'
  BY <1>1, OptionOfNumber DEF CastVote, IInv, TypeOK, VotersPresent, VotesInRange, OthersAbstain
<1>3. Cardinality(done) = IF c \in voted THEN count ELSE count + 1
  BY SetsOfClients, FS_AddElement DEF IInv, TypeOK, CountCorrect
<1>4. CheckVotes(voters, done, choice, Cardinality(done))
  BY <1>3 DEF CastVote
<1> HIDE DEF done, choice
<1> QED
  BY <1>1, <1>2, <1>4, CheckVotesInv

LEMMA DeadlineInv ==
    ASSUME IInv, TimerExpires \/ VoteDeadline
    PROVE  IInv'
<1>1. CASE TimerExpires
  BY <1>1 DEF TimerExpires, IInv, preparation, ballotBox, TypeOK, CountCorrect, SomebodyMissing,
     VotersPresent, VotesInRange, DeadlineAhead, CleanSlate, Prepared, OthersAbstain
<1>2. CASE VoteDeadline
  <2>1. Announce(voters, option) /\ Reset /\ due' = FALSE /\ UNCHANGED members
    BY <1>2 DEF VoteDeadline, CheckVotes
  <2>2. results' \in [Options -> Nat]
    <3>1. [o \in Options |-> Cardinality({v \in voters : option[v] = o})] \in [Options -> Nat]
      <4>1. voters \in SUBSET Clients /\ option \in [Clients -> Options]
        BY DEF IInv, TypeOK
      <4> QED
        BY <4>1, ResultsType, Zenon
    <3> QED
      BY <2>1, <3>1 DEF Announce, IInv, TypeOK
  <2> QED
    BY <2>1, <2>2, ResetInv DEF IInv, TypeOK
<1> QED
  BY <1>1, <1>2

LEMMA StepInv == IInv /\ [Next]_vars => IInv'
<1> SUFFICES ASSUME IInv, [Next]_vars PROVE IInv'
  OBVIOUS
<1>1. CASE UNCHANGED vars
  BY <1>1 DEF vars, IInv, preparation, ballotBox, TypeOK, CountCorrect, SomebodyMissing,
     VotersPresent, VotesInRange, DeadlineAhead, CleanSlate, Prepared, OthersAbstain
<1>2. ASSUME NEW c \in Clients, NEW o \in Numbers, ReceiveVote(c, o)
      PROVE  IInv'
  BY <1>2, CastInv DEF ReceiveVote, IInv, TypeOK
<1>3. ASSUME NEW c \in Clients, ReceiveEmptyVote(c)
      PROVE  IInv'
  BY <1>3, CastInv DEF ReceiveEmptyVote, IInv, TypeOK
<1> QED
  BY <1>1, <1>2, <1>3, JoinInv, LeaveInv, PrepareInv, CancelInv, NewInv, StartInv, DeadlineInv
     DEF Next

\* Every reachable state satisfies the inductive invariant.
THEOREM Invariance == Spec => []IInv
BY InitInv, StepInv, PTL DEF Spec

\* Every variable keeps its type.
THEOREM TypeCorrect == Spec => []TypeOK
<1>1. IInv => TypeOK
  BY DEF IInv
<1> QED
  BY <1>1, Invariance, PTL

\* m_VoteCount is the number of the votes that have been cast.
THEOREM CountingCorrect == Spec => []CountCorrect
<1>1. IInv => CountCorrect
  BY DEF IInv
<1> QED
  BY <1>1, Invariance, PTL

\* A vote runs only while one is missing.
THEOREM SomebodyIsMissing == Spec => []SomebodyMissing
<1>1. IInv => SomebodyMissing
  BY DEF IInv
<1> QED
  BY <1>1, Invariance, PTL

\* Only members of the channel with voice, none of them excluded, are voters.
THEOREM VotesCorrect == Spec => []VotersPresent
<1>1. IInv => VotersPresent
  BY DEF IInv
<1> QED
  BY <1>1, Invariance, PTL

\* Every recorded vote is one of the options.
THEOREM VotesAreOptions == Spec => []VotesInRange
<1>1. IInv => VotesInRange
  BY DEF IInv
<1> QED
  BY <1>1, Invariance, PTL

\* A running vote has a deadline ahead.
THEOREM DeadlineArmed == Spec => []DeadlineAhead
<1>1. IInv => DeadlineAhead
  BY DEF IInv
<1> QED
  BY <1>1, Invariance, PTL

\* No vote inherits anything from the one before.
THEOREM ResetCorrect == Spec => []CleanSlate
<1>1. IInv => CleanSlate
  BY DEF IInv
<1> QED
  BY <1>1, Invariance, PTL

(***************************************************************************)
(* VoteBot implements SecretVote.                                          *)
(***************************************************************************)
\* The ballots of a vote with these m_Votes.
BallotsOf(box, done, choice) == [v \in box |-> IF v \in done THEN choice[v] ELSE NoVote]

\* The results the code adds up, where a missing vote is an option 0 nobody has
\* changed, are the tally of the ballots.
LEMMA ResultsAreTally ==
    ASSUME NEW box \in SUBSET Clients, NEW done \in SUBSET box,
           NEW choice \in [Clients -> Options],
           \A v \in box \ done : choice[v] = 0
    PROVE  [o \in Options |-> Cardinality({v \in box : choice[v] = o})]
              = Promise!Tally(BallotsOf(box, done, choice))
<1> DEFINE b == BallotsOf(box, done, choice)
<1>2. ASSUME NEW o \in Options
      PROVE  {v \in box : choice[v] = o} = {v \in DOMAIN b : Promise!Counted(b, v) = o}
  <2>1. DOMAIN b = box
    BY DEF BallotsOf
  <2>2. ASSUME NEW v \in box
        PROVE  Promise!Counted(b, v) = choice[v]
    <3>1. choice[v] # NoVote
      BY BoundsAssumption DEF Options
    <3>2. b[v] = IF v \in done THEN choice[v] ELSE NoVote
      BY DEF BallotsOf
    <3> QED
      BY <3>1, <3>2 DEF Promise!Counted, Promise!Abstention
  <2> QED
    BY <2>1, <2>2
<1>3. \A o \in Options : Cardinality({v \in box : choice[v] = o})
                          = Cardinality({v \in DOMAIN b : Promise!Counted(b, v) = o})
  BY <1>2
<1>4. Promise!Tally(b) =
        [o \in Options |-> Cardinality({v \in DOMAIN b : Promise!Counted(b, v) = o})]
  <2>1. \A S : Promise!Cardinality(S) = Cardinality(S)
    BY DEF Promise!Cardinality, Cardinality
  <2> QED
    BY <2>1, Zenon DEF Promise!Tally, Promise!Options, Options
<1> HIDE DEF b
<1>5. [o \in Options |-> Cardinality({v \in box : choice[v] = o})]
        = [o \in Options |-> Cardinality({v \in DOMAIN b : Promise!Counted(b, v) = o})]
  BY <1>3, Zenon
<1>6. [o \in Options |-> Cardinality({v \in box : choice[v] = o})] = Promise!Tally(b)
  BY <1>4, <1>5, Zenon
<1> QED
  BY <1>6 DEF b

\* A reset of a running vote with these ballots is the end the promise knows.
LEMMA ResetConcludes ==
    ASSUME started,
           NEW box \in SUBSET Clients, NEW done \in SUBSET box,
           NEW choice \in [Clients -> Options],
           \A v \in box \ done : choice[v] = 0,
           Announce(box, choice), Reset
    PROVE  Promise!Conclude(BallotsOf(box, done, choice))
<1>1. phase' = "idle"
  BY DEF phase, Reset, Clear
<1>2. ballots' = Promise!NoBallots
  BY DEF ballots, Reset, Clear, Promise!NoBallots
<1>3. results' = Promise!Tally(BallotsOf(box, done, choice))
  <2>1. results' = [o \in Options |-> Cardinality({v \in box : choice[v] = o})]
    BY DEF Announce
  <2>2. [o \in Options |-> Cardinality({v \in box : choice[v] = o})]
           = Promise!Tally(BallotsOf(box, done, choice))
    BY ResultsAreTally, Zenon
  <2> QED
    BY <2>1, <2>2
<1> QED
  BY <1>1, <1>2, <1>3 DEF Promise!Conclude

\* _CheckVotes goes on with the vote or ends it exactly when the promise does.
LEMMA CheckVotesProceeds ==
    ASSUME started,
           NEW box \in SUBSET Clients, NEW done \in SUBSET box,
           NEW choice \in [Clients -> Options],
           \A v \in box \ done : choice[v] = 0,
           CheckVotes(box, done, choice, Cardinality(done))
    PROVE  Promise!Proceed(BallotsOf(box, done, choice))
<1> DEFINE b == BallotsOf(box, done, choice)
<1>1. Promise!Complete(b) <=> done = box
  <2>1. \A v \in box : choice[v] # NoVote
    BY BoundsAssumption DEF Options
  <2> QED
    BY <2>1 DEF Promise!Complete, BallotsOf
<1>2. CASE done = box
  <2>1. Announce(box, choice) /\ Reset
    BY <1>2 DEF CheckVotes
  <2>2. Promise!Conclude(b)
    BY <2>1, ResetConcludes
  <2> QED
    BY <1>1, <1>2, <2>2 DEF Promise!Proceed
<1>3. CASE done # box
  <2>1. /\ voters' = box /\ voted' = done /\ option' = choice
        /\ UNCHANGED <<started, results>>
    BY <1>3, AllVotesIn DEF CheckVotes
  <2>2. phase' = "open" /\ ballots' = b
    BY <2>1 DEF phase, ballots, BallotsOf
  <2> QED
    BY <1>1, <1>3, <2>1, <2>2 DEF Promise!Proceed
<1> QED
  BY <1>2, <1>3

\* A cleared vote has no ballots.
LEMMA NobodyVotes ==
    ASSUME voters = {}
    PROVE  ballots = Promise!NoBallots
BY DEF ballots, Promise!NoBallots

LEMMA InitPromise == Init => Promise!Init
<1> SUFFICES ASSUME Init PROVE Promise!Init
  OBVIOUS
<1> QED
  BY NobodyVotes DEF Init, Promise!Init, phase, Promise!Options, Options

\* What leaves all that the promise speaks about is a stuttering step.
LEMMA StutterPromise ==
    ASSUME UNCHANGED <<started, voters, voted, option, results>>,
           (admin' = NoAdmin) <=> (admin = NoAdmin)
    PROVE  UNCHANGED Promise!vars
BY DEF Promise!vars, phase, ballots

\* A reset without results is a vote that is cancelled, or nothing to see.
LEMMA ResetCancels ==
    ASSUME IInv, Reset, UNCHANGED results
    PROVE  [Promise!Next]_(Promise!vars)
<1>1. phase' = "idle" /\ ballots' = Promise!NoBallots
  BY DEF phase, ballots, Promise!NoBallots, Reset, Clear
<1>2. CASE phase = "idle"
  <2>1. ballots = Promise!NoBallots
    BY <1>2, NobodyVotes DEF phase, IInv, CleanSlate
  <2> QED
    BY <1>1, <1>2, <2>1 DEF Promise!vars
<1>3. CASE phase # "idle"
  BY <1>1, <1>3 DEF Promise!Next, Promise!Cancel
<1> QED
  BY <1>2, <1>3

\* Casting a vote is casting a ballot.
LEMMA CastPromise ==
    ASSUME IInv, NEW c \in Clients, NEW o \in Options, CastVote(c, o)
    PROVE  Promise!Next
<1> DEFINE done == voted \cup {c}  choice == [option EXCEPT ![c] = o]
<1>1. started /\ c \in voters /\ voters \in SUBSET Clients
  BY DEF CastVote, IInv, TypeOK
<1>2. /\ done \in SUBSET voters /\ choice \in [Clients -> Options]
      /\ \A v \in voters \ done : choice[v] = 0
  BY <1>1 DEF IInv, TypeOK, VotesInRange
<1>3. Cardinality(done) = IF c \in voted THEN count ELSE count + 1
  BY SetsOfClients, FS_AddElement DEF IInv, TypeOK, CountCorrect
<1>4. CheckVotes(voters, done, choice, Cardinality(done))
  BY <1>3 DEF CastVote
<1>5. BallotsOf(voters, done, choice) = [ballots EXCEPT ![c] = o]
  BY <1>1 DEF BallotsOf, ballots, IInv, TypeOK
<1> HIDE DEF done, choice
<1>6. Promise!Proceed(BallotsOf(voters, done, choice))
  BY <1>1, <1>2, <1>4, CheckVotesProceeds
<1>7. phase = "open" /\ c \in DOMAIN ballots
  BY <1>1 DEF phase, ballots
<1>8. Promise!Cast(c, o)
  BY <1>5, <1>6, <1>7 DEF Promise!Cast
<1> QED
  BY <1>8 DEF Promise!Next, Promise!Options, Options

\* Leaving the channel during a vote is withdrawing the ballot.
LEMMA LeavePromise ==
    ASSUME IInv, NEW c \in Clients, Leave(c)
    PROVE  [Promise!Next]_(Promise!vars)
<1> DEFINE box == voters \ {c}  done == voted \ {c}  choice == [option EXCEPT ![c] = 0]
<1>1. CASE Leaves(c)
  <2>1. started /\ c \in voters
    BY <1>1 DEF Leaves
  <2>2. /\ box \in SUBSET Clients /\ done \in SUBSET box /\ choice \in [Clients -> Options]
        /\ \A v \in box \ done : choice[v] = 0
    BY BoundsAssumption DEF IInv, TypeOK, VotesInRange, Options
  <2>3. Cardinality(done) = IF c \in voted THEN count - 1 ELSE count
    <3>1. CASE c \in voted
      BY <3>1, SetsOfClients, FS_RemoveElement DEF IInv, TypeOK, CountCorrect
    <3>2. CASE c \notin voted
      <4>1. done = voted
        BY <3>2
      <4> QED
        BY <3>2, <4>1 DEF IInv, CountCorrect
    <3> QED
      BY <3>1, <3>2
  <2>4. CheckVotes(box, done, choice, Cardinality(done))
    BY <1>1, <2>3 DEF Leave
  <2>5. BallotsOf(box, done, choice) = [w \in DOMAIN ballots \ {c} |-> ballots[w]]
    BY <2>1 DEF BallotsOf, ballots, IInv, TypeOK
  <2> HIDE DEF box, done, choice
  <2>6. Promise!Proceed(BallotsOf(box, done, choice))
    BY <2>1, <2>2, <2>4, CheckVotesProceeds
  <2>7. phase = "open" /\ c \in DOMAIN ballots
    BY <2>1 DEF phase, ballots
  <2>8. Promise!Withdraw(c)
    BY <2>5, <2>6, <2>7 DEF Promise!Withdraw
  <2> QED
    BY <2>8 DEF Promise!Next
<1>2. CASE ~Leaves(c)
  BY <1>2, StutterPromise DEF Leave, preparation, ballotBox
<1> QED
  BY <1>1, <1>2

\* START opens a vote, admits those who have come since, or finds nobody to ask.
LEMMA StartPromise ==
    ASSUME IInv, NEW c \in Clients, ReceiveCommand_START(c)
    PROVE  [Promise!Next]_(Promise!vars)
<1> DEFINE asked == voters \cup Eligible
<1>1. asked \in SUBSET Clients
  BY DEF IInv, TypeOK, Eligible
<1>2. CASE asked = {}
  BY <1>2, ResetCancels DEF ReceiveCommand_START
<1>3. CASE asked # {}
  <2>1. /\ voters' = asked /\ started' /\ UNCHANGED <<admin, voted, option, results>>
    BY <1>3 DEF ReceiveCommand_START, preparation
  <2>2. phase' = "open" /\ ballots' = [v \in asked |-> IF v \in voted THEN option[v] ELSE NoVote]
    BY <2>1 DEF phase, ballots
  <2>3. CASE started
    <3>1. DOMAIN ballots = voters /\ voted \subseteq voters
      BY DEF ballots, IInv, TypeOK
    <3>2. ballots' = [v \in asked |-> IF v \in DOMAIN ballots THEN ballots[v] ELSE NoVote]
      BY <2>2, <3>1 DEF ballots
    <3>3. Promise!Admit(asked)
      BY <2>1, <2>2, <2>3, <3>1, <3>2 DEF Promise!Admit, phase
    <3> QED
      BY <1>1, <3>3 DEF Promise!Next
  <2>4. CASE ~started
    <3>1. voted = {} /\ admin # NoAdmin
      BY <2>4 DEF IInv, TypeOK, CleanSlate, ReceiveCommand_START, Prepared
    <3>2. ballots' = [v \in asked |-> NoVote]
      BY <2>2, <3>1
    <3>3. Promise!Open(asked)
      BY <1>3, <2>1, <2>2, <2>4, <3>1, <3>2 DEF Promise!Open, phase
    <3> QED
      BY <1>1, <3>3 DEF Promise!Next
  <2> QED
    BY <2>3, <2>4
<1> QED
  BY <1>2, <1>3

\* NEW takes the lock, or begins the preparation again.
LEMMA NewPromise ==
    ASSUME IInv, NEW c \in Clients, ReceiveCommand_NEW(c)
    PROVE  [Promise!Next]_(Promise!vars)
<1>1. /\ ~started /\ ~started' /\ admin' # NoAdmin /\ UNCHANGED results
      /\ voters = {} /\ voters' = {}
  BY ClientsAssumption DEF ReceiveCommand_NEW, Clear, IInv, CleanSlate
<1>2. UNCHANGED ballots
  BY <1>1 DEF ballots
<1>3. CASE admin = NoAdmin
  BY <1>1, <1>2, <1>3 DEF Promise!Next, Promise!Prepare, phase
<1>4. CASE admin # NoAdmin
  BY <1>1, <1>2, <1>4 DEF Promise!vars, phase
<1> QED
  BY <1>3, <1>4

\* The deadline ends the running vote; a stale one resets what is prepared.
LEMMA DeadlinePromise ==
    ASSUME IInv, VoteDeadline
    PROVE  [Promise!Next]_(Promise!vars)
<1>1. Announce(voters, option) /\ Reset
  BY DEF VoteDeadline, CheckVotes
<1>2. CASE started
  <2>1. /\ voters \in SUBSET Clients /\ voted \in SUBSET voters
        /\ option \in [Clients -> Options]
        /\ \A v \in voters \ voted : option[v] = 0
    BY DEF IInv, TypeOK, VotesInRange
  <2>2. BallotsOf(voters, voted, option) = ballots
    BY DEF BallotsOf, ballots
  <2>3. Promise!Conclude(BallotsOf(voters, voted, option))
    BY <1>1, <1>2, <2>1, ResetConcludes
  <2> QED
    BY <1>2, <2>2, <2>3 DEF Promise!Next, Promise!TimeUp, phase
<1>3. CASE ~started
  BY <1>1, <1>3, ResetCancels DEF Announce
<1> QED
  BY <1>2, <1>3

LEMMA StepPromise == IInv /\ [Next]_vars => [Promise!Next]_(Promise!vars)
<1> SUFFICES ASSUME IInv, [Next]_vars PROVE [Promise!Next]_(Promise!vars)
  OBVIOUS
<1>1. CASE UNCHANGED vars
  BY <1>1, StutterPromise DEF vars, preparation, ballotBox
<1>2. ASSUME NEW c \in Clients, Join(c) \/ EnterQuestion(c) \/ EnterOption(c)
                                 \/ ReceiveCommand_EXCLUDE(c)
                                 \/ \E name \in Clients : EnterExcluded(c, name)
      PROVE  [Promise!Next]_(Promise!vars)
  BY <1>2, StutterPromise DEF Join, EnterQuestion, EnterOption, ReceiveCommand_EXCLUDE,
     EnterExcluded, preparation, ballotBox
<1>3. ASSUME NEW c \in Clients, NEW o \in Numbers, ReceiveVote(c, o)
      PROVE  [Promise!Next]_(Promise!vars)
  BY <1>3, CastPromise, OptionOfNumber DEF ReceiveVote, IInv
<1>4. ASSUME NEW c \in Clients, ReceiveEmptyVote(c)
      PROVE  [Promise!Next]_(Promise!vars)
  BY <1>4, CastPromise, OptionOfNumber DEF ReceiveEmptyVote, IInv
<1>5. ASSUME NEW c \in Clients, ReceiveCommand_CANCEL(c)
      PROVE  [Promise!Next]_(Promise!vars)
  BY <1>5, ResetCancels DEF ReceiveCommand_CANCEL
<1>6. CASE TimerExpires
  BY <1>6, StutterPromise DEF TimerExpires, preparation, ballotBox
<1> QED
  BY <1>1, <1>2, <1>3, <1>4, <1>5, <1>6, LeavePromise, StartPromise, NewPromise, DeadlinePromise
     DEF Next

\* The bot opens, counts and closes votes only as SecretVote allows: every
\* counter, reset and deadline of the code comes down to its six actions.
THEOREM Refinement == Spec => KeepsPromise
BY InitPromise, StepPromise, Invariance, PTL DEF Spec, KeepsPromise, Promise!Spec

(***************************************************************************)
(* Every vote ends.  A running vote waits for its timer until the handler  *)
(* is due, and then for the handler, which counts it whatever is missing.  *)
(***************************************************************************)
Waiting == started /\ ~due
Late    == started /\ due

LEMMA StepWaiting ==
    /\ IInv /\ Waiting /\ DeadlineCanRun => ENABLED <<TimerExpires>>_vars
    /\ Waiting /\ <<TimerExpires>>_vars => Late'
BY DEF IInv, DeadlineAhead, Waiting, Late, DeadlineCanRun, TimerExpires

LEMMA StepLate ==
    /\ Late /\ DeadlineCanRun => ENABLED <<VoteDeadline>>_vars
    /\ Late /\ [Next]_vars => Late' \/ ~started'
    /\ Late /\ <<VoteDeadline>>_vars => ~started'
<1>1. Late /\ DeadlineCanRun => ENABLED <<VoteDeadline>>_vars
  BY DEF Late, DeadlineCanRun
<1>2. ASSUME VoteDeadline PROVE ~started'
  BY <1>2 DEF VoteDeadline, CheckVotes, Reset, Clear
<1>3. ASSUME Late, [Next]_vars, ~VoteDeadline PROVE due'
  BY <1>3 DEF Late, vars, Next, Join, Leave, ReceiveCommand_CANCEL, ReceiveCommand_NEW,
     EnterQuestion, EnterOption, ReceiveCommand_EXCLUDE, EnterExcluded, ReceiveCommand_START,
     ReceiveVote, ReceiveEmptyVote, CastVote, TimerExpires
<1>4. Late' \/ ~started' <=> due' \/ ~started'
  BY DEF Late
<1> QED
  BY <1>1, <1>2, <1>3, <1>4

\* No vote runs for ever, whoever joins, leaves, votes or repeats START meanwhile,
\* and even if nobody votes.
THEOREM VotesTerminate == FairSpec /\ []DeadlineCanRun => VoteEnds
<1>1. started => Waiting \/ Late
  BY DEF Waiting, Late
<1> QED
  BY <1>1, Invariance, StepWaiting, StepLate, PTL DEF FairSpec, Spec, VoteEnds

================================================================================
