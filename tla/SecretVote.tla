------------------------------ MODULE SecretVote -------------------------------
(***************************************************************************)
(* What a vote bot promises its channel, without commands, counters and    *)
(* timers: while a vote is open everybody in the electorate has one ballot *)
(* of their own and may change it; a vote that is not cancelled ends when  *)
(* no ballot is missing or when the time is up; and the results count the  *)
(* ballots of those who have not left, a missing one as abstention.        *)
(***************************************************************************)
EXTENDS Naturals, FiniteSets

CONSTANTS Clients,      \* everybody who may take part in a vote
          MaxOptions,   \* bound: the options of a vote, abstention included
          NoVote        \* the ballot of a voter who has not voted yet

Options    == 0..(MaxOptions - 1)
Abstention == 0

VARIABLES phase,        \* "idle", "preparing" or "open"
          ballots,      \* the ballot of every member of the electorate
          results       \* how often each option was chosen in the last vote

vars == <<phase, ballots, results>>

NoBallots == [v \in {} |-> NoVote]

Counted(b, v) == IF b[v] = NoVote THEN Abstention ELSE b[v]
Tally(b)      == [o \in Options |-> Cardinality({v \in DOMAIN b : Counted(b, v) = o})]
Complete(b)   == \A v \in DOMAIN b : b[v] # NoVote

Init ==
    /\ phase = "idle"
    /\ ballots = NoBallots
    /\ results = [o \in Options |-> 0]

\* The vote is over and b are the ballots that count.
Conclude(b) ==
    /\ phase' = "idle"
    /\ ballots' = NoBallots
    /\ results' = Tally(b)

\* The ballots have changed to b: the vote is over exactly if none is missing.
Proceed(b) ==
    IF Complete(b)
      THEN Conclude(b)
      ELSE /\ phase' = "open"
           /\ ballots' = b
           /\ UNCHANGED results

Prepare ==
    /\ phase = "idle"
    /\ phase' = "preparing"
    /\ UNCHANGED <<ballots, results>>

Open(voters) ==
    /\ phase = "preparing"
    /\ voters # {}
    /\ phase' = "open"
    /\ ballots' = [v \in voters |-> NoVote]
    /\ UNCHANGED results

\* A vote that is started again admits more voters and keeps all ballots.
Admit(voters) ==
    /\ phase = "open"
    /\ DOMAIN ballots \subseteq voters
    /\ ballots' = [v \in voters |-> IF v \in DOMAIN ballots THEN ballots[v] ELSE NoVote]
    /\ UNCHANGED <<phase, results>>

Cast(v, o) ==
    /\ phase = "open"
    /\ v \in DOMAIN ballots
    /\ Proceed([ballots EXCEPT ![v] = o])

Withdraw(v) ==
    /\ phase = "open"
    /\ v \in DOMAIN ballots
    /\ Proceed([w \in DOMAIN ballots \ {v} |-> ballots[w]])

TimeUp ==
    /\ phase = "open"
    /\ Conclude(ballots)

Cancel ==
    /\ phase # "idle"
    /\ phase' = "idle"
    /\ ballots' = NoBallots
    /\ UNCHANGED results

Next ==
    \/ Prepare
    \/ \E voters \in SUBSET Clients : Open(voters) \/ Admit(voters)
    \/ \E v \in Clients, o \in Options : Cast(v, o)
    \/ \E v \in Clients : Withdraw(v)
    \/ TimeUp
    \/ Cancel

Spec == Init /\ [][Next]_vars

================================================================================
