\* Three voters and an observer, three options, one repeated START, under the
\* fairness of the event loop.
SPECIFICATION FairSpec

CONSTANTS
    ann = ann
    bob = bob
    eve = eve
    guest = guest
    Clients      <- MCClients
    AdminUsers   <- MCAdminUsers
    AllowedUsers <- MCAllowedUsers
    NoAdmin       = NoAdmin
    NoVote        = NoVote
    MaxOptions    = 3
    MaxRestarts   = 1

INVARIANTS
    TypeOK
    CountCorrect
    SomebodyMissing
    VotersPresent
    VotesInRange
    DeadlineAhead
    CleanSlate

PROPERTIES
    KeepsPromise
    VoteEnds
