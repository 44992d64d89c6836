\* One connection; checks IdentifyDeadlineArmed, which the code does not keep.
SPECIFICATION Spec

CONSTANTS
    NetworkClients   = {c1}
    VirtualClients   = {nickserv}
    NoClient         = NoClient
    Nicknames        = {"Ann"}
    NoNickname       = ""
    Lowercased      <- MCLowercased
    VirtualNickname <- MCVirtualNickname
    Users           <- MCUsers
    Channels         = {"open"}
    AllowedUsers    <- MCAllowedUsers
    ObserverChannels <- MCObserverChannels
    Zero             = "0"
    MaxChannelList   = 2

INVARIANTS
    IdentifyDeadlineArmed

\* Every connection may have been used up, or the process may have crashed.
CHECK_DEADLOCK FALSE
