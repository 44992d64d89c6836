----------------------------- MODULE ServerProcess -----------------------------
(***************************************************************************)
(* The life of the server's processes on one machine: the start with the   *)
(* check for another instance, the listening socket, the event loop seen   *)
(* from outside, the shutdown and the end of main (main.cpp, the run_*     *)
(* files, and Init, _AddAcceptor, _HandleNewConnection and Shutdown of     *)
(* CIRCServer).                                                            *)
(*                                                                         *)
(* Another instance is kept out by a pid file under Posix, which outlives  *)
(* its process, and by a named mutex under Windows, which does not.        *)
(*                                                                         *)
(* ShutdownServer is a signal handler under Posix and runs on a thread of  *)
(* its own under Windows.  It is called at any moment, the event loop in   *)
(* the middle of a handler included, and destroys what the handlers use.   *)
(***************************************************************************)
EXTENDS Naturals

CONSTANTS
    Processes,      \* the processes that are started, again and again
    Nobody,         \* there is no pid file, nobody has the port
    Stale           \* the pid file of a process that ended without removing it

ASSUME ProcessesAssumption == {Nobody, Stale} \cap Processes = {} /\ Nobody # Stale

VARIABLES
    platform,       \* the system of the build
    phase,          \* how far each process has come, see Phases
    pidFile,        \* whose pid is in the pid file
    mutex,          \* who has a handle of the named mutex
    deletePidFile,  \* DeletePidFile
    port,           \* who listens on the configured port
    acceptor,       \* the acceptor and its asynchronous accept, see Acceptors
    clients,        \* the network clients: "none", "open" or "shut"
    vote,           \* a VoteBot waits for the deadline of its vote
    stopped,        \* history: ShutdownServer has destroyed the acceptor
    acceptError,    \* history: an accept has failed
    undefined,      \* history: the process has run into undefined behaviour
    raced           \* history: a pid file has been created over another one

resources == <<pidFile, mutex, port>>
loop      == <<acceptor, clients, vote>>
history   == <<stopped, acceptError, undefined, raced>>
vars      == <<platform, phase, resources, deletePidFile, loop, history>>

\* "start": main up to the configuration; "config": it is read; "checked": there
\* was no pid file; "guarded": the pid file or the mutex is made; "bots":
\* CIRCServer::Init is done; "running": in the event loop; "hung": in a deadlock;
\* "ending": back in main; "exiting": main has returned.
Starting == {"start", "config", "checked"}
Guarded  == {"guarded", "bots", "running", "hung"}
Phases   == {"off", "ending", "exiting"} \cup Starting \cup Guarded

\* "waiting": for a connection; "accepted", "failed", "aborted": the completion is
\* queued with a connection, an error, or the error of a closed acceptor;
\* "dangling": it is queued with a connection and the acceptor is freed; "idle":
\* open, with no accept; "closed": no acceptor.
Acceptors == {"closed", "idle", "waiting", "accepted", "failed", "aborted", "dangling"}

TypeOK ==
    /\ platform      \in {"Posix", "Windows"}
    /\ phase         \in [Processes -> Phases]
    /\ pidFile       \in Processes \cup {Nobody, Stale}
    /\ mutex         \subseteq Processes
    /\ deletePidFile \in [Processes -> BOOLEAN]
    /\ port          \in Processes \cup {Nobody}
    /\ acceptor      \in [Processes -> Acceptors]
    /\ clients       \in [Processes -> {"none", "open", "shut"}]
    /\ vote          \in [Processes -> BOOLEAN]
    /\ stopped       \in [Processes -> BOOLEAN]
    /\ acceptError   \in [Processes -> BOOLEAN]
    /\ undefined     \in [Processes -> BOOLEAN]
    /\ raced         \in BOOLEAN

Init ==
    /\ platform      \in {"Posix", "Windows"}
    /\ phase         = [p \in Processes |-> "off"]
    /\ pidFile       = Nobody
    /\ mutex         = {}
    /\ deletePidFile = [p \in Processes |-> FALSE]
    /\ port          = Nobody
    /\ acceptor      = [p \in Processes |-> "closed"]
    /\ clients       = [p \in Processes |-> "none"]
    /\ vote          = [p \in Processes |-> FALSE]
    /\ stopped       = [p \in Processes |-> FALSE]
    /\ acceptError   = [p \in Processes |-> FALSE]
    /\ undefined     = [p \in Processes |-> FALSE]
    /\ raced         = FALSE

Moves(p, from, to) ==
    /\ phase[p] = from
    /\ phase' = [phase EXCEPT ![p] = to]
    /\ UNCHANGED platform

(***************************************************************************)
(* The start: InitializeServer.                                            *)
(***************************************************************************)
\* main, RunInConsole, RunAsPosixDaemon with its fork, or RunAsNTService.
Start(p) ==
    /\ Moves(p, "off", "start")
    /\ deletePidFile' = [deletePidFile EXCEPT ![p] = FALSE]
    /\ acceptor'      = [acceptor EXCEPT ![p] = "closed"]
    /\ clients'       = [clients EXCEPT ![p] = "none"]
    /\ vote'          = [vote EXCEPT ![p] = FALSE]
    /\ stopped'       = [stopped EXCEPT ![p] = FALSE]
    /\ acceptError'   = [acceptError EXCEPT ![p] = FALSE]
    /\ undefined'     = [undefined EXCEPT ![p] = FALSE]
    /\ UNCHANGED <<resources, raced>>

\* ReadConfigFiles; from here on all sanity checks have passed.
ReadConfigFiles(p) ==
    /\ Moves(p, "start", "config")
    /\ UNCHANGED <<resources, deletePidFile, loop, history>>

\* The pid file cannot be opened for reading.
CheckPidFile(p) ==
    /\ platform = "Posix"
    /\ pidFile = Nobody
    /\ Moves(p, "config", "checked")
    /\ UNCHANGED <<resources, deletePidFile, loop, history>>

\* The pid file is created, or written over if another instance has made one
\* since the check.
CreateEmptyPidFile(p) ==            \* mutant: the pid is never written
    /\ Moves(p, "checked", "guarded")
    /\ pidFile' = ""
    /\ deletePidFile' = [deletePidFile EXCEPT ![p] = TRUE]
    /\ UNCHANGED <<mutex, port, loop, history>>

CreatePidFileOnly(p) ==             \* mutant: DeletePidFile is not set
    /\ Moves(p, "checked", "guarded")
    /\ pidFile' = p
    /\ raced' = (raced \/ pidFile # Nobody)
    /\ UNCHANGED <<deletePidFile, mutex, port, loop, stopped, acceptError, undefined>>

CreatePidFile(p) ==
    /\ Moves(p, "checked", "guarded")
    /\ pidFile' = p
    /\ deletePidFile' = [deletePidFile EXCEPT ![p] = TRUE]
    /\ raced' = (raced \/ pidFile # Nobody)
    /\ UNCHANGED <<mutex, port, loop, stopped, acceptError, undefined>>

\* CreateMutexA: it has a handle then, whether the mutex was there already or not,
\* unless it is denied access to the mutex of another.
CreateMutexClosed(p) ==             \* mutant: the handle is closed again
    /\ platform = "Windows"
    /\ Moves(p, "config", IF mutex = {} THEN "guarded" ELSE "ending")
    /\ UNCHANGED <<resources, deletePidFile, loop, history>>

CreateMutex(p) ==
    /\ platform = "Windows"
    /\ Moves(p, "config", IF mutex = {} THEN "guarded" ELSE "ending")
    /\ \/ mutex' = mutex \cup {p}
       \/ mutex # {} /\ UNCHANGED mutex
    /\ UNCHANGED <<pidFile, port, deletePidFile, loop, history>>

\* "The process is already running!"
AlreadyRunning(p) ==
    /\ platform = "Posix"
    /\ pidFile # Nobody
    /\ Moves(p, "config", "ending")
    /\ UNCHANGED <<resources, deletePidFile, loop, history>>

\* CIRCServer::Init with _AddAcceptor: the port is bound and the first accept is
\* waiting.  If another instance listens there, only Throw is left.
InitServerAnyway(p) ==              \* mutant: the error of listen is ignored
    /\ Moves(p, "guarded", "bots")
    /\ port' = IF port = Nobody THEN p ELSE port
    /\ acceptor' = [acceptor EXCEPT ![p] = "waiting"]
    /\ UNCHANGED <<pidFile, mutex, deletePidFile, clients, vote, history>>

InitServer(p) ==
    /\ port = Nobody
    /\ Moves(p, "guarded", "bots")
    /\ port' = p
    /\ acceptor' = [acceptor EXCEPT ![p] = "waiting"]
    /\ UNCHANGED <<pidFile, mutex, deletePidFile, clients, vote, history>>

\* AddVirtualClient for NickServ, LogBot and the VoteBots, then RunServerEventLoop.
AddVirtualClients(p) ==
    /\ Moves(p, "bots", "running")
    /\ UNCHANGED <<resources, deletePidFile, loop, history>>

\* A file of the configuration cannot be read or has an invalid entry, the pid
\* file cannot be created, or the port is not free.
Throw(p) ==
    /\ \E from \in {"start", "checked", "guarded", "bots"} : Moves(p, from, "ending")
    /\ UNCHANGED <<resources, deletePidFile, loop, history>>

(***************************************************************************)
(* The event loop.                                                         *)
(***************************************************************************)
\* The accept that waits completes.
AcceptCompletes(p) ==
    /\ phase[p] \in {"bots", "running"}
    /\ acceptor[p] = "waiting"
    /\ \E result \in {"accepted", "failed"} : acceptor' = [acceptor EXCEPT ![p] = result]
    /\ UNCHANGED <<platform, phase, resources, deletePidFile, clients, vote, history>>

\* What is left of a process after undefined behaviour: it goes on, or it waits
\* for itself for ever (or it crashes: that is Killed).
Undefined(p) ==
    /\ undefined' = [undefined EXCEPT ![p] = TRUE]
    /\ \/ UNCHANGED phase
       \/ phase' = [phase EXCEPT ![p] = "hung"]

\* _HandleNewConnection.  After an error there is no other accept.
HandleNewConnectionOnce(p) ==       \* mutant: the next accept is forgotten
    /\ phase[p] = "running"
    /\ acceptor[p] \in {"accepted", "failed", "aborted"}
    /\ acceptor' = [acceptor EXCEPT ![p] = IF @ = "aborted" THEN "closed" ELSE "idle"]
    /\ clients' = [clients EXCEPT ![p] = IF acceptor[p] = "accepted" THEN "open" ELSE @]
    /\ acceptError' = [acceptError EXCEPT ![p] = @ \/ acceptor[p] = "failed"]
    /\ UNCHANGED <<platform, phase, resources, deletePidFile, vote, stopped, undefined, raced>>

HandleNewConnection(p) ==
    /\ phase[p] = "running"
    /\ acceptor[p] \in {"accepted", "failed", "aborted"}
    /\ acceptor' = [acceptor EXCEPT ![p] = CASE @ = "accepted" -> "waiting"
                                             [] @ = "failed"   -> "idle"
                                             [] @ = "aborted"  -> "closed"]
    /\ clients' = [clients EXCEPT ![p] = IF acceptor[p] = "accepted" THEN "open" ELSE @]
    /\ acceptError' = [acceptError EXCEPT ![p] = @ \/ acceptor[p] = "failed"]
    /\ UNCHANGED <<platform, phase, resources, deletePidFile, vote, stopped, undefined, raced>>

\* _HandleNewConnection with an acceptor that is freed: the connection is
\* accepted, and the next accept is undefined.
AcceptOnFreedAcceptor(p) ==
    /\ phase[p] = "running"
    /\ acceptor[p] = "dangling"
    /\ acceptor' = [acceptor EXCEPT ![p] = "closed"]
    /\ clients' = [clients EXCEPT ![p] = "open"]
    /\ Undefined(p)
    /\ UNCHANGED <<platform, resources, deletePidFile, vote, stopped, acceptError, raced>>

\* The last client has disconnected; or, after a shutdown, the last completion
\* that was held for the clients has been handled.
ClientsGone(p) ==
    /\ phase[p] = "running"
    /\ clients[p] # "none"
    /\ clients' = [clients EXCEPT ![p] = "none"]
    /\ UNCHANGED <<platform, phase, resources, deletePidFile, acceptor, vote, history>>

\* A line that was queued before a shutdown is handled after it, and goes to the
\* members of a channel, which are freed and still listed there.
LineAfterShutdown(p) ==
    /\ phase[p] = "running"
    /\ clients[p] = "shut"
    /\ Undefined(p)
    /\ UNCHANGED <<platform, resources, deletePidFile, loop, stopped, acceptError, raced>>

StartVote(p) ==
    /\ phase[p] = "running"
    /\ clients[p] = "open"
    /\ ~vote[p]
    /\ vote' = [vote EXCEPT ![p] = TRUE]
    /\ UNCHANGED <<platform, phase, resources, deletePidFile, acceptor, clients, history>>

\* The vote ends, at the latest with its deadline.  Its result goes to the
\* members of the channel; after a shutdown those still listed are freed.
EndVote(p) ==
    /\ phase[p] = "running"
    /\ vote[p]
    /\ vote' = [vote EXCEPT ![p] = FALSE]
    /\ UNCHANGED <<phase, undefined>> \/ (stopped[p] /\ Undefined(p))
    /\ UNCHANGED <<platform, resources, deletePidFile, acceptor, clients, stopped, acceptError, raced>>

\* IOService::run returns when nothing is left to wait for.
LoopEnds(p) ==
    /\ acceptor[p] \in {"closed", "idle"}
    /\ clients[p] = "none"
    /\ ~vote[p]
    /\ Moves(p, "running", "ending")
    /\ UNCHANGED <<resources, deletePidFile, loop, history>>

(***************************************************************************)
(* The shutdown and the end of main.                                       *)
(***************************************************************************)
\* CIRCServer::Shutdown destroys the acceptors and shuts the clients.
DestroyAcceptorOnly(p) ==           \* mutant: CNetworkClient::Shutdown is not called
    /\ acceptor' = [acceptor EXCEPT ![p] = CASE @ = "waiting"  -> "aborted"
                                             [] @ = "idle"     -> "closed"
                                             [] @ = "accepted" -> "dangling"
                                             [] OTHER          -> @]
    /\ port' = IF port = p THEN Nobody ELSE port
    /\ stopped' = [stopped EXCEPT ![p] = TRUE]
    /\ UNCHANGED clients

Shutdown(p) ==
    /\ acceptor' = [acceptor EXCEPT ![p] = CASE @ = "waiting"  -> "aborted"
                                             [] @ = "idle"     -> "closed"
                                             [] @ = "accepted" -> "dangling"
                                             [] OTHER          -> @]
    /\ clients' = [clients EXCEPT ![p] = IF @ = "open" THEN "shut" ELSE @]
    /\ port' = IF port = p THEN Nobody ELSE port
    /\ stopped' = [stopped EXCEPT ![p] = TRUE]

\* ShutdownServer while the event loop waits.  Before there is an acceptor it
\* does nothing at all, and the server starts all the same.
ShutdownServer(p) ==
    /\ phase[p] \in {"bots", "running"}
    /\ Shutdown(p)
    /\ UNCHANGED <<platform, phase, pidFile, mutex, deletePidFile, vote, acceptError, undefined, raced>>

\* ShutdownServer in the middle of a handler of the event loop.
ShutdownServerInHandler(p) ==
    /\ phase[p] = "running"
    /\ acceptor[p] \in {"accepted", "failed", "aborted", "dangling"} \/ clients[p] # "none" \/ vote[p]
    /\ Shutdown(p)
    /\ Undefined(p)
    /\ UNCHANGED <<platform, pidFile, mutex, deletePidFile, vote, acceptError, raced>>

\* The end of main: the pid file is removed if this process has created it.
EndMainAlways(p) ==                 \* mutant: no DeletePidFile
    /\ Moves(p, "ending", "exiting")
    /\ pidFile' = Nobody
    /\ UNCHANGED <<mutex, port, deletePidFile, loop, history>>

EndMain(p) ==
    /\ Moves(p, "ending", "exiting")
    /\ pidFile' = IF deletePidFile[p] THEN Nobody ELSE pidFile
    /\ UNCHANGED <<mutex, port, deletePidFile, loop, history>>

\* The system takes back what belongs to a process: its port and its handle of
\* the mutex, but no file.
Released(p) ==
    /\ port' = IF port = p THEN Nobody ELSE port
    /\ mutex' = mutex \ {p}
    /\ pidFile' = IF pidFile = p THEN Stale ELSE pidFile

Exit(p) ==
    /\ Moves(p, "exiting", "off")
    /\ Released(p)
    /\ UNCHANGED <<deletePidFile, loop, history>>

\* A crash, a failed assertion, a SIGKILL, or the machine has gone down.
Killed(p) ==
    /\ \E from \in Phases \ {"off"} : Moves(p, from, "off")
    /\ Released(p)
    /\ UNCHANGED <<deletePidFile, loop, history>>

\* The administrator removes the pid file of a process that is gone.
RemoveStalePidFile ==
    /\ pidFile = Stale
    /\ pidFile' = Nobody
    /\ UNCHANGED <<platform, phase, mutex, port, deletePidFile, loop, history>>

(***************************************************************************)
(* The specification.                                                      *)
(***************************************************************************)
Initialize(p) ==
    \/ ReadConfigFiles(p) \/ CheckPidFile(p) \/ CreatePidFile(p) \/ CreateMutex(p)
    \/ AlreadyRunning(p) \/ InitServer(p) \/ AddVirtualClients(p) \/ Throw(p)

Handle(p) ==
    \/ HandleNewConnection(p) \/ AcceptOnFreedAcceptor(p) \/ EndVote(p) \/ LoopEnds(p)

Step(p) ==
    \/ Start(p) \/ Initialize(p)
    \/ AcceptCompletes(p) \/ Handle(p) \/ ClientsGone(p) \/ LineAfterShutdown(p) \/ StartVote(p)
    \/ ShutdownServer(p) \/ ShutdownServerInHandler(p)
    \/ EndMain(p) \/ Exit(p) \/ Killed(p)

Next == RemoveStalePidFile \/ \E p \in Processes : Step(p)

Spec == Init /\ [][Next]_vars

\* A process makes progress, and the completions of clients that are shut come
\* in.  Nothing is assumed of clients that are connected, or of signals.
FairTo(p) ==
    /\ WF_vars(Initialize(p))
    /\ WF_vars(HandleNewConnection(p) \/ AcceptOnFreedAcceptor(p))
    /\ WF_vars(EndVote(p))
    /\ WF_vars(clients[p] = "shut" /\ ClientsGone(p))
    /\ WF_vars(LoopEnds(p))
    /\ WF_vars(EndMain(p))
    /\ WF_vars(Exit(p))

Fairness == \A p \in Processes : FairTo(p)

FairSpec == Spec /\ Fairness

(***************************************************************************)
(* Properties.                                                             *)
(***************************************************************************)
Instance(p) == phase[p] \in Guarded \/ (phase[p] = "ending" /\ deletePidFile[p])

\* From its creation to the end of main, the pid file names the process that has
\* created it, so there is only one -- unless two instances have been between
\* the check and the creation of the file together.
PidFileHeld ==
    platform = "Posix" => \A p \in Processes : Instance(p) => pidFile = p \/ raced

\* The mutex lets one instance through, without exception.
MutexExcludes ==
    platform = "Windows" => \A p, q \in Processes : Instance(p) /\ Instance(q) => p = q

\* No second instance is let through, on either system.
InstanceGuarded == PidFileHeld /\ MutexExcludes

\* However a process ends but by a crash, it leaves no pid file behind: while one
\* with its pid exists, it is still between the creation and the end of main.
PidFileRemoved == \A p \in Processes : pidFile = p => Instance(p)

Serving(p) == phase[p] = "running" /\ ~stopped[p] /\ ~acceptError[p]

\* A server in its event loop listens until it is shut down or an accept fails;
\* so the port keeps a second server out even when the pid file has not.
ServerListens ==
    \A p \in Processes : Serving(p) => port = p /\ acceptor[p] \in {"waiting", "accepted", "failed"}

\* A server never ends of its own accord: the event loop has something to wait
\* for until ShutdownServer is called or an accept fails.
RunsUntilStopped ==
    [][\A p \in Processes :
          phase[p] = "running" /\ phase'[p] = "ending" => stopped[p] \/ acceptError[p]]_vars

\* What a process has to do next is never out of its reach.
EndCanCome ==
    \A p \in Processes :
        /\ phase[p] = "bots"    => ENABLED <<Initialize(p)>>_vars
        /\ phase[p] = "running" =>
              /\ acceptor[p] \in {"failed", "aborted", "dangling"} =>
                    ENABLED <<HandleNewConnection(p) \/ AcceptOnFreedAcceptor(p)>>_vars
              /\ clients[p] = "shut" => ENABLED <<clients[p] = "shut" /\ ClientsGone(p)>>_vars
              /\ vote[p] => ENABLED <<EndVote(p)>>_vars
              /\ acceptor[p] \in {"closed", "idle"} /\ clients[p] = "none" /\ ~vote[p] =>
                    ENABLED <<LoopEnds(p)>>_vars
        /\ phase[p] = "ending"  => ENABLED <<EndMain(p)>>_vars
        /\ phase[p] = "exiting" => ENABLED <<Exit(p)>>_vars

\* A shutdown ends the process, whatever clients and votes it had -- unless it
\* has hit a handler or a completion that was queued already.  (It ends it after
\* the deadline of the last vote.)
ShutdownEnds ==
    /\ []EndCanCome
    /\ \A p \in Processes : stopped[p] ~> phase[p] = "off" \/ undefined[p]

================================================================================
