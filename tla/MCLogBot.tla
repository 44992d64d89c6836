------------------------------- MODULE MCLogBot --------------------------------
(***************************************************************************)
(* An instance of LogBot for TLC.  A preset nickname next to a free one,   *)
(* an observer channel, and a channel with the name "0".                   *)
(***************************************************************************)
EXTENDS LogBot, TLC

MCLowercased == [n \in Names |-> IF n = "Ann" THEN "ann" ELSE n]

MCVirtualNickname == [v \in VirtualClients |-> "logbot"]

MCAllowedUsers == [ch \in Channels |-> {"ann"}]

ClientSymmetry == Permutations(NetworkClients)

================================================================================
