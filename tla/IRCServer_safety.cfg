\* Two connections, every message and every timer, two preset nicknames (one in two
\* spellings) next to a free one, an observer channel next to a closed one
\* whose name is 0.
SPECIFICATION Spec

CONSTANTS
    NetworkClients   = {c1, c2}
    VirtualClients   = {nickserv}
    NoClient         = NoClient
    Nicknames        = {"Ann", "ann", "Eve", "bob"}
    NoNickname       = ""
    Lowercased      <- MCLowercased
    VirtualNickname <- MCVirtualNickname
    Users           <- MCUsers
    Channels         = {"open", "0"}
    AllowedUsers    <- MCAllowedUsers
    ObserverChannels <- MCObserverChannels
    Zero             = "0"
    MaxChannelList   = 2

SYMMETRY ClientSymmetry

INVARIANTS
    TypeOK
    RegistrySound
    RegistryComplete
    MembersAlive
    MembersAuthorised
    NoUndefinedBehaviour
    DeadlineAhead

PROPERTIES
    KeepsChat

\* Every connection may have been used up, or the process may have crashed.
CHECK_DEADLOCK FALSE
