\* Two connections under the fairness of the event loop; channels, which the
\* liveness properties do not speak of, are left out.
SPECIFICATION FairSpec

CONSTANTS
    NetworkClients   = {c1, c2}
    VirtualClients   = {nickserv}
    NoClient         = NoClient
    Nicknames        = {"Ann"}
    NoNickname       = ""
    Lowercased      <- MCLowercased
    VirtualNickname <- MCVirtualNickname
    Users           <- MCUsers
    Channels         = {}
    AllowedUsers    <- MCAllowedUsers
    ObserverChannels <- MCObserverChannels
    Zero             = "0"
    MaxChannelList   = 1

PROPERTIES
    NicknameReclaimed
    ShutIsReleased

\* Every connection may have been used up, or the process may have crashed.
CHECK_DEADLOCK FALSE
