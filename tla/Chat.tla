--------------------------------- MODULE Chat ----------------------------------
(***************************************************************************)
(* What the server promises everybody on it, without connections, timers,  *)
(* a registry and two sides of a membership: a nickname has one owner, who *)
(* keeps it from the moment somebody relies on it; the nicknames of the    *)
(* bots are nobody's; and in a channel is who may be there, with voice if  *)
(* the nickname deserves it, until the client leaves it or quits.          *)
(*                                                                         *)
(* This is what a bot in a channel can take for granted: its members come  *)
(* and go one at a time, each under one nickname from entering to leaving. *)
(***************************************************************************)
CONSTANTS
    Clients,            \* everybody who may ever connect
    Names, NoNickname,  \* the nicknames, and the one of who has none
    Lowercased,         \* nicknames are the same if this is
    BotNames,           \* the lowercased nicknames of the bots
    Users,              \* the lowercased nicknames with a password
    Channels,
    AllowedUsers,       \* for every channel, the nicknames with voice
    ObserverChannels    \* the channels open to everybody else

VARIABLES
    name,               \* the nickname of every client
    registered,         \* the clients that may send commands
    trusted,            \* the clients that have identified
    status              \* of every client in every channel

vars == <<name, registered, trusted, status>>

Init ==
    /\ name = [c \in Clients |-> NoNickname]
    /\ registered = {}
    /\ trusted = {}
    /\ status = [c \in Clients |-> [ch \in Channels |-> "Absent"]]

Free(c, n) ==
    /\ Lowercased[n] \notin BotNames
    /\ \A d \in Clients \ {c} : name[d] # NoNickname => Lowercased[name[d]] # Lowercased[n]

Alone(c)        == \A ch \in Channels : status[c][ch] = "Absent"
Deserves(c, ch) == Lowercased[name[c]] \in AllowedUsers[ch]
Genuine(c)      == Lowercased[name[c]] \in Users => c \in trusted

\* A nickname is taken or exchanged only by a client nobody knows yet; for one
\* that has said the rest already it is the end of the registration.
Rename(c, n) ==
    /\ n # NoNickname
    /\ Free(c, n)
    /\ c \notin trusted
    /\ Alone(c)
    /\ name' = [name EXCEPT ![c] = n]
    /\ registered' \in {registered, registered \cup {c}}
    /\ UNCHANGED <<trusted, status>>

Register(c) ==
    /\ name[c] # NoNickname
    /\ registered' = registered \cup {c}
    /\ UNCHANGED <<name, trusted, status>>

Identify(c) ==
    /\ c \in registered
    /\ Lowercased[name[c]] \in Users
    /\ trusted' = trusted \cup {c}
    /\ UNCHANGED <<name, registered, status>>

\* What a client may be in a channel it enters.
Role(c, ch) == IF Deserves(c, ch) THEN "Voice" ELSE "NoStatus"

Admits(c, ch) == Genuine(c) /\ (Deserves(c, ch) \/ ch \in ObserverChannels)

\* A client leaves some channels and enters others.
Move(c) ==
    /\ c \in registered
    /\ \E row \in [Channels -> {"Absent", "NoStatus", "Voice"}] :
          /\ \A ch \in Channels :
                \/ row[ch] \in {status[c][ch], "Absent"}
                \/ row[ch] = Role(c, ch) /\ Admits(c, ch)
          /\ status' = [status EXCEPT ![c] = row]
    /\ UNCHANGED <<name, registered, trusted>>

\* Nothing is left of a client that quits.
Quit(c) ==
    /\ name' = [name EXCEPT ![c] = NoNickname]
    /\ registered' = registered \ {c}
    /\ trusted' = trusted \ {c}
    /\ status' = [status EXCEPT ![c] = [ch \in Channels |-> "Absent"]]

Next ==
    \E c \in Clients :
        \/ \E n \in Names : Rename(c, n)
        \/ Register(c)
        \/ Identify(c)
        \/ Move(c)
        \/ Quit(c)

================================================================================
