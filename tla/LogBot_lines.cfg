\* Two connections, a preset nickname next to a free one, two logged
\* channels, one of them "0".  The empty nickname lets a client stray.
SPECIFICATION SysSpec

CONSTANTS
    NetworkClients   = {c1, c2}
    VirtualClients   = {logbot}
    NoClient         = NoClient
    Nicknames        = {"Ann", "bob"}
    NoNickname       = ""
    Lowercased      <- MCLowercased
    VirtualNickname <- MCVirtualNickname
    Users            = {"ann"}
    Channels         = {"0", "open"}
    LoggedChannels   = {"0", "open"}
    AllowedUsers    <- MCAllowedUsers
    ObserverChannels = {"open"}
    Zero             = "0"
    MaxChannelList   = 2

SYMMETRY ClientSymmetry

INVARIANTS
    LogTypeOK
    LogTellsMembers
    LogConsistent
    SenderFound

\* Every connection may have been used up, or the process may have crashed.
CHECK_DEADLOCK FALSE
