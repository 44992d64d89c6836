\* Checks DeadlineEndsItsVote, which the code does not keep.
SPECIFICATION Spec

CONSTANTS
    ann = ann
    bob = bob
    eve = eve
    guest = guest
    Clients      <- MCClients
    AdminUsers   <- MCAdminUsers
    AllowedUsers <- MCAllowedUsers
    NoAdmin       = NoAdmin
    NoVote        = NoVote
    MaxOptions    = 3
    MaxRestarts   = 1

PROPERTIES
    DeadlineEndsItsVote
