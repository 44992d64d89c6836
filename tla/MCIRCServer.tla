----------------------------- MODULE MCIRCServer -------------------------------
(***************************************************************************)
(* Instances of IRCServer for TLC.  "Ann", "ann" and "Eve" spell two preset *)
(* nicknames, "bob" is a free one, and NickServ holds a name of its own.   *)
(***************************************************************************)
EXTENDS IRCServer, TLC

MCLowercased ==
    [n \in Names |-> CASE n = "Ann" -> "ann" [] n = "Eve" -> "eve" [] OTHER -> n]

MCVirtualNickname == [v \in VirtualClients |-> "nickserv"]

MCUsers == {"ann", "eve"}

\* Everybody may observe "open"; only ann has voice, and "0" is for her, where
\* JOIN 0 leads back to.
MCAllowedUsers == [ch \in Channels |-> {"ann"}]

MCObserverChannels == Channels \ {"0"}

ClientSymmetry == Permutations(NetworkClients)

================================================================================
