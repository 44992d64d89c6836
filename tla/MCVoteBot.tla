------------------------------- MODULE MCVoteBot -------------------------------
(***************************************************************************)
(* An instance of VoteBot for TLC: three clients with voice, so that one   *)
(* of them can leave or vote again while two votes are missing, and an     *)
(* observer without.  Two may administer votes, one of them the observer.  *)
(***************************************************************************)
EXTENDS VoteBot

CONSTANTS ann, bob, eve, guest

MCClients      == {ann, bob, eve, guest}
MCAdminUsers   == {ann, guest}
MCAllowedUsers == {ann, bob, eve}

================================================================================
