-------------------------- MODULE ServerProcess_proofs -------------------------
(***************************************************************************)
(* The safety properties of ServerProcess, and that a process which is     *)
(* told to stop does, proved for every set of processes.                   *)
(***************************************************************************)
EXTENDS ServerProcess, TLAPS

(***************************************************************************)
(* The inductive invariant.  The flag that tells main to remove the pid    *)
(* file is set exactly while there is one to remove; a process that has    *)
(* passed the check of the mutex has a handle of it; a server listens from *)
(* the end of its Init on.                                                 *)
(***************************************************************************)
FlagRight ==
    \A p \in Processes :
        /\ phase[p] \in Starting => ~deletePidFile[p]
        /\ platform = "Posix" /\ phase[p] \in Guarded => deletePidFile[p]
        /\ platform = "Windows" => ~deletePidFile[p]

SystemsApart ==
    /\ platform = "Windows" => pidFile = Nobody
    /\ \A p \in Processes : phase[p] = "checked" => platform = "Posix"

HasHandle == platform = "Windows" => \A p \in Processes : phase[p] \in Guarded => p \in mutex

Listening(p) == phase[p] \in {"bots", "running"} /\ ~stopped[p] /\ ~acceptError[p]

ListensFromInit ==
    \A p \in Processes : Listening(p) => port = p /\ acceptor[p] \in {"waiting", "accepted", "failed"}

IInv ==
    /\ TypeOK
    /\ FlagRight
    /\ SystemsApart
    /\ HasHandle
    /\ PidFileHeld
    /\ MutexExcludes
    /\ PidFileRemoved
    /\ ListensFromInit

(***************************************************************************)
(* The kinds of steps: those that make and take the pid file and the       *)
(* mutex, and those that leave them alone.                                 *)
(***************************************************************************)
\* Nothing but the phase changes, and not from one side of the check to the other.
Advance(p) == ReadConfigFiles(p) \/ CheckPidFile(p) \/ AlreadyRunning(p) \/ AddVirtualClients(p)
                 \/ Throw(p) \/ LoopEnds(p)

\* The event loop and the shutdown.
Loop(p) ==
    \/ AcceptCompletes(p) \/ HandleNewConnection(p) \/ AcceptOnFreedAcceptor(p) \/ ClientsGone(p)
    \/ LineAfterShutdown(p) \/ StartVote(p) \/ EndVote(p)
    \/ ShutdownServer(p) \/ ShutdownServerInHandler(p)

LEMMA StepKinds ==
    ASSUME NEW p \in Processes, Step(p)
    PROVE  \/ Start(p) \/ Advance(p) \/ CreatePidFile(p) \/ CreateMutex(p) \/ InitServer(p)
           \/ Loop(p) \/ EndMain(p) \/ Exit(p) \/ Killed(p)
BY DEF Step, Initialize, Handle, Advance, Loop

LEMMA LoopFrame ==
    ASSUME TypeOK, NEW p \in Processes, Loop(p)
    PROVE  /\ phase[p] \in {"bots", "running"}
           /\ phase' \in [Processes -> Phases]
           /\ phase'[p] \in {phase[p], "hung"}
           /\ \A q \in Processes \ {p} : phase'[q] = phase[q]
           /\ UNCHANGED <<platform, pidFile, mutex, deletePidFile, raced>>
<1> USE DEF TypeOK, Undefined, Phases, Guarded, Starting, resources, history, loop
<1>1. CASE AcceptCompletes(p) \/ HandleNewConnection(p) \/ ClientsGone(p) \/ StartVote(p)
  BY <1>1 DEF AcceptCompletes, HandleNewConnection, ClientsGone, StartVote
<1>2. CASE AcceptOnFreedAcceptor(p) \/ LineAfterShutdown(p) \/ EndVote(p)
  BY <1>2 DEF AcceptOnFreedAcceptor, LineAfterShutdown, EndVote
<1>3. CASE ShutdownServer(p) \/ ShutdownServerInHandler(p)
  BY <1>3 DEF ShutdownServer, ShutdownServerInHandler
<1> QED
  BY <1>1, <1>2, <1>3 DEF Loop

LEMMA TypeStep ==
    ASSUME TypeOK, NEW p \in Processes, Step(p)
    PROVE  TypeOK'
<1> USE DEF TypeOK, resources, history, loop, Moves
<1>1. CASE Start(p)
  BY <1>1 DEF Start, Phases, Starting, Acceptors
<1>2. CASE Advance(p)
  BY <1>2 DEF Advance, ReadConfigFiles, CheckPidFile, AlreadyRunning, AddVirtualClients, Throw, LoopEnds,
     Phases, Starting, Guarded
<1>3. CASE CreatePidFile(p)
  <2>1. raced' \in BOOLEAN
    BY <1>3, Zenon DEF CreatePidFile
  <2> QED
    BY <1>3, <2>1 DEF CreatePidFile, Phases, Guarded
<1>4. CASE CreateMutex(p)
  BY <1>4 DEF CreateMutex, Phases, Guarded
<1>5. CASE InitServer(p)
  BY <1>5 DEF InitServer, Phases, Guarded, Acceptors
<1>6. CASE Loop(p)
  <2>1. phase' \in [Processes -> Phases] /\ UNCHANGED <<platform, pidFile, mutex, deletePidFile, raced>>
    BY <1>6, LoopFrame
  <2>2. CASE AcceptCompletes(p) \/ ClientsGone(p) \/ StartVote(p)
    BY <2>1, <2>2 DEF AcceptCompletes, ClientsGone, StartVote, Acceptors
  <2>3. CASE HandleNewConnection(p)
    <3>1. acceptor' \in [Processes -> Acceptors] /\ clients' \in [Processes -> {"none", "open", "shut"}]
      BY <2>3 DEF HandleNewConnection, Acceptors
    <3>2. acceptError' \in [Processes -> BOOLEAN]
      BY <2>3 DEF HandleNewConnection
    <3> QED
      BY <2>1, <2>3, <3>1, <3>2 DEF HandleNewConnection
  <2>4. CASE AcceptOnFreedAcceptor(p) \/ LineAfterShutdown(p) \/ EndVote(p)
    BY <2>1, <2>4 DEF AcceptOnFreedAcceptor, LineAfterShutdown, EndVote, Undefined, Acceptors
  <2>5. CASE ShutdownServer(p) \/ ShutdownServerInHandler(p)
    <3>1. Shutdown(p) /\ UNCHANGED <<vote, acceptError>>
      BY <2>5 DEF ShutdownServer, ShutdownServerInHandler
    <3>2. undefined' \in [Processes -> BOOLEAN]
      BY <2>5 DEF ShutdownServer, ShutdownServerInHandler, Undefined
    <3>3. acceptor' \in [Processes -> Acceptors]
      BY <3>1 DEF Shutdown, Acceptors
    <3>4. /\ clients' \in [Processes -> {"none", "open", "shut"}]
          /\ port' \in Processes \cup {Nobody}
          /\ stopped' \in [Processes -> BOOLEAN]
      BY <3>1 DEF Shutdown
    <3> QED
      BY <2>1, <3>1, <3>2, <3>3, <3>4
  <2> QED
    BY <1>6, <2>2, <2>3, <2>4, <2>5 DEF Loop
<1>7. CASE EndMain(p)
  BY <1>7 DEF EndMain, Phases
<1>8. CASE Exit(p) \/ Killed(p)
  BY <1>8 DEF Exit, Killed, Released, Phases
<1> QED
  BY StepKinds, <1>1, <1>2, <1>3, <1>4, <1>5, <1>6, <1>7, <1>8

\* The pid file and the mutex.
LEMMA InstanceStep ==
    ASSUME IInv, NEW p \in Processes, Step(p)
    PROVE  /\ FlagRight' /\ SystemsApart' /\ HasHandle'
           /\ PidFileHeld' /\ MutexExcludes' /\ PidFileRemoved'
<1> USE ProcessesAssumption
        DEF IInv, TypeOK, FlagRight, SystemsApart, HasHandle, PidFileHeld, MutexExcludes, PidFileRemoved, Instance,
            resources, history, loop, Moves, Phases, Starting, Guarded
<1>1. CASE Start(p)
  BY <1>1 DEF Start
<1>2. CASE Advance(p)
  BY <1>2 DEF Advance, ReadConfigFiles, CheckPidFile, AlreadyRunning, AddVirtualClients, Throw, LoopEnds
<1>3. CASE CreatePidFile(p)
  BY <1>3 DEF CreatePidFile
<1>4. CASE CreateMutex(p)
  BY <1>4 DEF CreateMutex
<1>5. CASE InitServer(p)
  BY <1>5 DEF InitServer
<1>6. CASE Loop(p)
  BY <1>6, LoopFrame
<1>7. CASE EndMain(p)
  BY <1>7 DEF EndMain
<1>8. CASE Exit(p) \/ Killed(p)
  BY <1>8 DEF Exit, Killed, Released
<1> QED
  BY StepKinds, <1>1, <1>2, <1>3, <1>4, <1>5, <1>6, <1>7, <1>8

\* The port.
LEMMA ListensStep ==
    ASSUME IInv, NEW p \in Processes, Step(p)
    PROVE  ListensFromInit'
<1> USE ProcessesAssumption
        DEF IInv, TypeOK, ListensFromInit, Listening, resources, history, loop, Moves
<1>1. CASE Start(p)
  BY <1>1 DEF Start
<1>2. CASE Advance(p)
  BY <1>2 DEF Advance, ReadConfigFiles, CheckPidFile, AlreadyRunning, AddVirtualClients, Throw, LoopEnds
<1>3. CASE CreatePidFile(p) \/ CreateMutex(p)
  BY <1>3 DEF CreatePidFile, CreateMutex
<1>4. CASE InitServer(p)
  BY <1>4 DEF InitServer
<1>5. CASE Loop(p)
  <2>1. CASE AcceptCompletes(p)
    BY <2>1 DEF AcceptCompletes
  <2>2. CASE HandleNewConnection(p)
    BY <2>2 DEF HandleNewConnection
  <2>3. CASE AcceptOnFreedAcceptor(p)
    BY <2>3 DEF AcceptOnFreedAcceptor, Undefined
  <2>4. CASE ClientsGone(p) \/ StartVote(p)
    BY <2>4 DEF ClientsGone, StartVote
  <2>5. CASE LineAfterShutdown(p) \/ EndVote(p)
    BY <2>5 DEF LineAfterShutdown, EndVote, Undefined
  <2>6. CASE ShutdownServer(p) \/ ShutdownServerInHandler(p)
    BY <2>6 DEF ShutdownServer, ShutdownServerInHandler, Shutdown, Undefined
  <2> QED
    BY <1>5, <2>1, <2>2, <2>3, <2>4, <2>5, <2>6 DEF Loop
<1>6. CASE EndMain(p)
  BY <1>6 DEF EndMain
<1>7. CASE Exit(p) \/ Killed(p)
  BY <1>7 DEF Exit, Killed, Released
<1> QED
  BY StepKinds, <1>1, <1>2, <1>3, <1>4, <1>5, <1>6, <1>7

LEMMA InitIInv == Init => IInv
<1> SUFFICES ASSUME Init PROVE IInv
  OBVIOUS
<1> USE ProcessesAssumption DEF Init
<1>1. TypeOK
  BY DEF TypeOK, Phases, Starting, Guarded, Acceptors
<1>2. FlagRight /\ SystemsApart /\ HasHandle
  BY DEF FlagRight, SystemsApart, HasHandle, Starting, Guarded
<1>3. PidFileHeld /\ MutexExcludes /\ PidFileRemoved
  BY DEF PidFileHeld, MutexExcludes, PidFileRemoved, Instance, Guarded
<1>4. ListensFromInit
  BY DEF ListensFromInit, Listening
<1> QED
  BY <1>1, <1>2, <1>3, <1>4 DEF IInv

LEMMA IInvStep ==
    ASSUME IInv, [Next]_vars
    PROVE  IInv'
<1>1. CASE UNCHANGED vars
  BY <1>1 DEF vars, resources, loop, history, IInv, TypeOK, FlagRight, SystemsApart, HasHandle, PidFileHeld,
     MutexExcludes, PidFileRemoved, Instance, ListensFromInit, Listening
<1>2. CASE RemoveStalePidFile
  BY <1>2, ProcessesAssumption DEF RemoveStalePidFile, loop, history, IInv, TypeOK, FlagRight, SystemsApart,
     HasHandle, PidFileHeld, MutexExcludes, PidFileRemoved, Instance, ListensFromInit, Listening
<1>3. CASE \E p \in Processes : Step(p)
  BY <1>3, TypeStep, InstanceStep, ListensStep DEF IInv
<1> QED
  BY <1>1, <1>2, <1>3 DEF Next

\* The inductive invariant holds in every reachable state.
THEOREM Invariance == Spec => []IInv
BY InitIInv, IInvStep, PTL DEF Spec

\* The variables keep their types.
THEOREM TypeCorrect == Spec => []TypeOK
<1>1. IInv => TypeOK
  BY DEF IInv
<1> QED
  BY <1>1, Invariance, PTL

\* The pid file names the instance there is, unless two instances raced to create
\* it; under Windows there is never more than one.
THEOREM InstanceAlone == Spec => []InstanceGuarded
<1>1. IInv => InstanceGuarded
  BY DEF IInv, InstanceGuarded
<1> QED
  BY <1>1, Invariance, PTL

\* Every end of a process but a crash removes its pid file.
THEOREM PidFileCleanedUp == Spec => []PidFileRemoved
<1>1. IInv => PidFileRemoved
  BY DEF IInv
<1> QED
  BY <1>1, Invariance, PTL

\* A server in its event loop listens, until it is stopped or an accept fails.
THEOREM ListensWhileServing == Spec => []ServerListens
<1>1. IInv => ServerListens
  BY DEF IInv, ListensFromInit, Listening, ServerListens, Serving
<1> QED
  BY <1>1, Invariance, PTL

\* The event loop only ends after ShutdownServer or an accept that failed.
THEOREM EndsForAReason == Spec => RunsUntilStopped
<1> DEFINE Reason == \A p \in Processes :
                        phase[p] = "running" /\ phase'[p] = "ending" => stopped[p] \/ acceptError[p]
<1>1. ASSUME IInv, [Next]_vars
      PROVE  [Reason]_vars
  <2> SUFFICES ASSUME NEW p \in Processes, NEW q \in Processes, Step(q),
                      phase[p] = "running", phase'[p] = "ending"
               PROVE  stopped[p] \/ acceptError[p]
    BY <1>1 DEF Next, RemoveStalePidFile
  <2> USE <1>1 DEF IInv, TypeOK, Moves
  <2>1. LoopEnds(p)
    <3>1. CASE Start(q) \/ CreatePidFile(q) \/ CreateMutex(q) \/ InitServer(q)
      BY <3>1 DEF Start, CreatePidFile, CreateMutex, InitServer
    <3>2. CASE Advance(q)
      BY <3>2 DEF Advance, ReadConfigFiles, CheckPidFile, AlreadyRunning, AddVirtualClients, Throw, LoopEnds
    <3>3. CASE Loop(q)
      BY <3>3, LoopFrame
    <3>4. CASE EndMain(q) \/ Exit(q) \/ Killed(q)
      BY <3>4 DEF EndMain, Exit, Killed
    <3> QED
      BY StepKinds, <3>1, <3>2, <3>3, <3>4
  <2> QED
    BY <2>1 DEF LoopEnds, ListensFromInit, Listening
<1> QED
  BY <1>1, Invariance, PTL DEF Spec, RunsUntilStopped

(***************************************************************************)
(* A shutdown ends the process.  Once it is stopped it accepts and starts  *)
(* nothing more, so what its event loop still waits for only gets less.    *)
(***************************************************************************)
Stopped(p) == stopped[p] /\ ~undefined[p] /\ phase[p] # "off"
Ended(p)   == phase[p] = "off" \/ undefined[p]
Quiet      == {"closed", "idle"}

NothingComes ==
    \A p \in Processes :
        Stopped(p) => /\ phase[p] \in {"bots", "running", "ending", "exiting"}
                      /\ acceptor[p] \in Quiet \cup {"failed", "aborted", "dangling"}
                      /\ clients[p] \in {"none", "shut"}

\* The order in which a stopped process comes to its end.
InBots(p)     == Stopped(p) /\ phase[p] = "bots"
InLoop(p)     == Stopped(p) /\ phase[p] = "running"
NoAccept(p)   == InLoop(p) /\ acceptor[p] \in Quiet
NoClients(p)  == NoAccept(p) /\ clients[p] = "none"
LoopIsOver(p) == NoClients(p) /\ ~vote[p]
InMain(p)     == Stopped(p) /\ phase[p] = "ending"
Returned(p)   == Stopped(p) /\ phase[p] = "exiting"

LEMMA OtherProcess ==
    ASSUME TypeOK, NEW p \in Processes, NEW q \in Processes \ {p}, Step(q)
    PROVE  /\ phase'[p] = phase[p] /\ acceptor'[p] = acceptor[p] /\ clients'[p] = clients[p]
           /\ vote'[p] = vote[p] /\ stopped'[p] = stopped[p] /\ undefined'[p] = undefined[p]
<1> USE DEF TypeOK, resources, history, loop, Moves
<1>1. CASE Start(q) \/ Advance(q)
  BY <1>1 DEF Start, Advance, ReadConfigFiles, CheckPidFile, AlreadyRunning, AddVirtualClients, Throw, LoopEnds
<1>2. CASE CreatePidFile(q) \/ CreateMutex(q) \/ InitServer(q)
  BY <1>2 DEF CreatePidFile, CreateMutex, InitServer
<1>3. CASE Loop(q)
  <2>1. CASE AcceptCompletes(q) \/ HandleNewConnection(q) \/ ClientsGone(q) \/ StartVote(q)
    BY <2>1 DEF AcceptCompletes, HandleNewConnection, ClientsGone, StartVote
  <2>2. CASE AcceptOnFreedAcceptor(q) \/ LineAfterShutdown(q) \/ EndVote(q)
    BY <2>2 DEF AcceptOnFreedAcceptor, LineAfterShutdown, EndVote, Undefined
  <2>3. CASE ShutdownServer(q) \/ ShutdownServerInHandler(q)
    BY <2>3 DEF ShutdownServer, ShutdownServerInHandler, Shutdown, Undefined
  <2> QED
    BY <1>3, <2>1, <2>2, <2>3 DEF Loop
<1>4. CASE EndMain(q) \/ Exit(q) \/ Killed(q)
  BY <1>4 DEF EndMain, Exit, Killed
<1> QED
  BY StepKinds, <1>1, <1>2, <1>3, <1>4

\* Whatever a step does, a stopped process only gets nearer to its end.
Nearer(p) ==
    /\ Stopped(p)'
    /\ \/ phase'[p] = phase[p]
       \/ phase[p] = "bots"    /\ phase'[p] \in {"running", "ending"}
       \/ phase[p] = "running" /\ phase'[p] = "ending"
       \/ phase[p] = "ending"  /\ phase'[p] = "exiting"
    /\ acceptor'[p] \in IF acceptor[p] \in Quiet THEN Quiet
                                              ELSE Quiet \cup {acceptor[p]}
    /\ clients'[p] \in {clients[p], "none"}
    /\ vote'[p] => vote[p]

LEMMA StoppedStep ==
    ASSUME TypeOK, NothingComes, NEW p \in Processes, Stopped(p), [Next]_vars
    PROVE  Ended(p)' \/ Nearer(p)
<1> USE DEF TypeOK, Stopped, Ended, Nearer, Quiet, resources, history, loop
<1>0. /\ phase[p] \in {"bots", "running", "ending", "exiting"}
      /\ acceptor[p] \in Quiet \cup {"failed", "aborted", "dangling"}
      /\ clients[p] \in {"none", "shut"}
  BY DEF NothingComes
<1>1. CASE UNCHANGED vars \/ RemoveStalePidFile
  BY <1>1 DEF vars, RemoveStalePidFile
<1>2. ASSUME NEW q \in Processes \ {p}, Step(q)
      PROVE  Nearer(p)
  BY <1>2, OtherProcess
<1>3. ASSUME Step(p)
      PROVE  Ended(p)' \/ Nearer(p)
  <2> USE <1>0 DEF Moves
  <2>1. CASE Start(p) \/ Advance(p)
    BY <2>1 DEF Start, Advance, ReadConfigFiles, CheckPidFile, AlreadyRunning, AddVirtualClients, Throw,
       LoopEnds
  <2>2. CASE CreatePidFile(p) \/ CreateMutex(p) \/ InitServer(p)
    BY <2>2 DEF CreatePidFile, CreateMutex, InitServer
  <2>3. CASE Loop(p)
    <3>1. CASE AcceptCompletes(p) \/ ClientsGone(p) \/ StartVote(p)
      BY <3>1 DEF AcceptCompletes, ClientsGone, StartVote
    <3>2. CASE HandleNewConnection(p)
      BY <3>2 DEF HandleNewConnection
    <3>3. CASE AcceptOnFreedAcceptor(p) \/ LineAfterShutdown(p)
      BY <3>3 DEF AcceptOnFreedAcceptor, LineAfterShutdown, Undefined
    <3>4. CASE EndVote(p)
      BY <3>4 DEF EndVote, Undefined
    <3>5. CASE ShutdownServer(p)
      BY <3>5 DEF ShutdownServer, Shutdown
    <3>6. CASE ShutdownServerInHandler(p)
      BY <3>6 DEF ShutdownServerInHandler, Shutdown, Undefined
    <3> QED
      BY <2>3, <3>1, <3>2, <3>3, <3>4, <3>5, <3>6 DEF Loop
  <2>4. CASE EndMain(p) \/ Exit(p) \/ Killed(p)
    BY <2>4 DEF EndMain, Exit, Killed, Phases, Starting, Guarded
  <2> QED
    BY <1>3, StepKinds, <2>1, <2>2, <2>3, <2>4
<1> QED
  BY <1>1, <1>2, <1>3 DEF Next

\* The shutdown itself leaves nothing that could come.
LEMMA NothingComesStep ==
    ASSUME TypeOK, NothingComes, [Next]_vars
    PROVE  NothingComes'
<1> SUFFICES ASSUME NEW p \in Processes, Stopped(p)'
             PROVE  /\ phase'[p] \in {"bots", "running", "ending", "exiting"}
                    /\ acceptor'[p] \in Quiet \cup {"failed", "aborted", "dangling"}
                    /\ clients'[p] \in {"none", "shut"}
  BY DEF NothingComes
<1>1. CASE Stopped(p)
  BY <1>1, StoppedStep DEF NothingComes, Nearer, Ended, Stopped, Quiet
<1>2. CASE ~Stopped(p)
  <2> USE <1>2 DEF TypeOK, Stopped, resources, history, loop, Moves
  <2>1. Step(p)
    BY OtherProcess DEF Next, vars, RemoveStalePidFile
  <2>2. ShutdownServer(p) \/ ShutdownServerInHandler(p)
    <3>1. CASE Start(p) \/ Advance(p) \/ CreatePidFile(p) \/ CreateMutex(p) \/ InitServer(p)
      BY <3>1 DEF Start, Advance, ReadConfigFiles, CheckPidFile, AlreadyRunning, AddVirtualClients, Throw,
         LoopEnds, CreatePidFile, CreateMutex, InitServer
    <3>2. CASE AcceptCompletes(p) \/ HandleNewConnection(p) \/ ClientsGone(p) \/ StartVote(p)
      BY <3>2 DEF AcceptCompletes, HandleNewConnection, ClientsGone, StartVote
    <3>3. CASE AcceptOnFreedAcceptor(p) \/ LineAfterShutdown(p) \/ EndVote(p)
      BY <3>3 DEF AcceptOnFreedAcceptor, LineAfterShutdown, EndVote, Undefined
    <3>4. CASE EndMain(p) \/ Exit(p) \/ Killed(p)
      BY <3>4 DEF EndMain, Exit, Killed
    <3> QED
      BY <2>1, StepKinds, <3>1, <3>2, <3>3, <3>4 DEF Loop
  <2>3. phase[p] \in {"bots", "running"} /\ phase'[p] \in {phase[p], "hung"} /\ Shutdown(p)
    BY <2>2 DEF ShutdownServer, ShutdownServerInHandler, Undefined
  <2>4. phase'[p] # "hung"
    BY <2>2, <2>3 DEF ShutdownServer, ShutdownServerInHandler, Undefined
  <2> QED
    BY <2>3, <2>4 DEF Shutdown, Acceptors, Quiet
<1> QED
  BY <1>1, <1>2

\* From each of these states the process gets to a later one, or has ended.
LEMMA PhasesOfStopped ==
    ASSUME TypeOK, NothingComes, NEW p \in Processes, [Next]_vars
    PROVE  /\ InBots(p)     => Ended(p)' \/ InMain(p)' \/ InLoop(p)' \/ InBots(p)'
           /\ InLoop(p)     => Ended(p)' \/ InMain(p)' \/ InLoop(p)'
           /\ NoAccept(p)   => Ended(p)' \/ InMain(p)' \/ NoAccept(p)'
           /\ NoClients(p)  => Ended(p)' \/ InMain(p)' \/ NoClients(p)'
           /\ LoopIsOver(p) => Ended(p)' \/ InMain(p)' \/ LoopIsOver(p)'
           /\ InMain(p)     => Ended(p)' \/ Returned(p)' \/ InMain(p)'
           /\ Returned(p)   => Ended(p)' \/ Returned(p)'
<1>1. CASE ~Stopped(p)
  BY <1>1 DEF InBots, InLoop, NoAccept, NoClients, LoopIsOver, InMain, Returned
<1>2. CASE Stopped(p) /\ Ended(p)'
  BY <1>2
<1>3. CASE Stopped(p) /\ Nearer(p)
  BY <1>3 DEF Nearer, InBots, InLoop, NoAccept, NoClients, LoopIsOver, InMain, Returned
<1> QED
  BY <1>1, <1>2, <1>3, StoppedStep

\* The steps that take it there.
LEMMA StepsOfStopped ==
    ASSUME TypeOK, NothingComes, NEW p \in Processes
    PROVE  /\ InBots(p) /\ <<Initialize(p)>>_vars => Ended(p)' \/ InMain(p)' \/ InLoop(p)'
           /\ InLoop(p) /\ <<HandleNewConnection(p) \/ AcceptOnFreedAcceptor(p)>>_vars
                 => Ended(p)' \/ InMain(p)' \/ NoAccept(p)'
           /\ NoAccept(p) /\ <<clients[p] = "shut" /\ ClientsGone(p)>>_vars => NoClients(p)'
           /\ NoClients(p) /\ <<EndVote(p)>>_vars => Ended(p)' \/ LoopIsOver(p)'
           /\ LoopIsOver(p) /\ <<LoopEnds(p)>>_vars => InMain(p)'
           /\ InMain(p) /\ <<EndMain(p)>>_vars => Returned(p)'
           /\ Returned(p) /\ <<Exit(p)>>_vars => Ended(p)'
<1> USE DEF TypeOK, NothingComes, Stopped, Ended, Moves, resources, history, loop, Quiet, InLoop
<1>1. InBots(p) /\ Initialize(p) => InMain(p)' \/ InLoop(p)'
  BY DEF Initialize, InBots, InMain, ReadConfigFiles, CheckPidFile, CreatePidFile, CreateMutex,
     AlreadyRunning, InitServer, AddVirtualClients, Throw
<1>2. InLoop(p) /\ (HandleNewConnection(p) \/ AcceptOnFreedAcceptor(p)) => Ended(p)' \/ NoAccept(p)'
  BY DEF HandleNewConnection, AcceptOnFreedAcceptor, Undefined, NoAccept
<1>3. NoAccept(p) /\ ClientsGone(p) => NoClients(p)'
  BY DEF ClientsGone, NoAccept, NoClients
<1>4. NoClients(p) /\ EndVote(p) => Ended(p)' \/ LoopIsOver(p)'
  BY DEF EndVote, Undefined, NoAccept, NoClients, LoopIsOver
<1>5. LoopIsOver(p) /\ LoopEnds(p) => InMain(p)'
  BY DEF LoopEnds, NoAccept, NoClients, LoopIsOver, InMain
<1>6. InMain(p) /\ EndMain(p) => Returned(p)'
  BY DEF EndMain, InMain, Returned
<1>7. Exit(p) => Ended(p)'
  BY DEF Exit
<1> QED
  BY <1>1, <1>2, <1>3, <1>4, <1>5, <1>6, <1>7

\* A process that is told to stop ends, unless that hits a handler or a
\* connection that has just been accepted: neither its clients nor a vote nor an
\* accept that has failed keep its event loop running for ever.
THEOREM ShutdownTerminates == FairSpec /\ []EndCanCome => ShutdownEnds
<1> SUFFICES ASSUME NEW p \in Processes
             PROVE  FairSpec /\ []EndCanCome => (stopped[p] ~> phase[p] = "off" \/ undefined[p])
  BY DEF ShutdownEnds
<1>1. Init => NothingComes
  BY DEF Init, NothingComes, Stopped
<1>2. IInv => TypeOK
  BY DEF IInv
<1>3. TypeOK /\ NothingComes /\ [Next]_vars => NothingComes'
  BY NothingComesStep
<1>4. TypeOK /\ NothingComes /\ [Next]_vars =>
         /\ InBots(p)     => Ended(p)' \/ InMain(p)' \/ InLoop(p)' \/ InBots(p)'
         /\ InLoop(p)     => Ended(p)' \/ InMain(p)' \/ InLoop(p)'
         /\ NoAccept(p)   => Ended(p)' \/ InMain(p)' \/ NoAccept(p)'
         /\ NoClients(p)  => Ended(p)' \/ InMain(p)' \/ NoClients(p)'
         /\ LoopIsOver(p) => Ended(p)' \/ InMain(p)' \/ LoopIsOver(p)'
         /\ InMain(p)     => Ended(p)' \/ Returned(p)' \/ InMain(p)'
         /\ Returned(p)   => Ended(p)' \/ Returned(p)'
  BY PhasesOfStopped
<1>5. TypeOK /\ NothingComes =>
         /\ InBots(p) /\ <<Initialize(p)>>_vars => Ended(p)' \/ InMain(p)' \/ InLoop(p)'
         /\ InLoop(p) /\ <<HandleNewConnection(p) \/ AcceptOnFreedAcceptor(p)>>_vars
               => Ended(p)' \/ InMain(p)' \/ NoAccept(p)'
         /\ NoAccept(p) /\ <<clients[p] = "shut" /\ ClientsGone(p)>>_vars => NoClients(p)'
         /\ NoClients(p) /\ <<EndVote(p)>>_vars => Ended(p)' \/ LoopIsOver(p)'
         /\ LoopIsOver(p) /\ <<LoopEnds(p)>>_vars => InMain(p)'
         /\ InMain(p) /\ <<EndMain(p)>>_vars => Returned(p)'
         /\ Returned(p) /\ <<Exit(p)>>_vars => Ended(p)'
  BY StepsOfStopped
<1>6. NothingComes => (stopped[p] => Ended(p) \/ InBots(p) \/ InLoop(p) \/ InMain(p) \/ Returned(p))
  BY DEF NothingComes, Stopped, Ended, InBots, InLoop, InMain, Returned
<1>7. NothingComes /\ EndCanCome =>
         /\ InBots(p) => ENABLED <<Initialize(p)>>_vars
         /\ InLoop(p) => NoAccept(p) \/ ENABLED <<HandleNewConnection(p) \/ AcceptOnFreedAcceptor(p)>>_vars
         /\ NoAccept(p) => NoClients(p) \/ ENABLED <<clients[p] = "shut" /\ ClientsGone(p)>>_vars
         /\ NoClients(p) => LoopIsOver(p) \/ ENABLED <<EndVote(p)>>_vars
         /\ LoopIsOver(p) => ENABLED <<LoopEnds(p)>>_vars
         /\ InMain(p) => ENABLED <<EndMain(p)>>_vars
         /\ Returned(p) => ENABLED <<Exit(p)>>_vars
  BY DEF NothingComes, EndCanCome, InBots, InLoop, NoAccept, NoClients, LoopIsOver, InMain, Returned,
     Stopped, Quiet
<1>8. Ended(p) => phase[p] = "off" \/ undefined[p]
  BY DEF Ended
<1>9. Fairness => FairTo(p)
  BY DEF Fairness
<1>10. /\ FairSpec /\ []EndCanCome => (InBots(p) ~> Ended(p) \/ InMain(p) \/ InLoop(p))
       /\ FairSpec /\ []EndCanCome => (InLoop(p) ~> Ended(p) \/ InMain(p) \/ NoAccept(p))
  BY <1>1, <1>2, <1>3, <1>4, <1>5, <1>7, <1>9, Invariance, PTL DEF FairSpec, Spec, FairTo
<1>11. /\ FairSpec /\ []EndCanCome => (NoAccept(p) ~> Ended(p) \/ InMain(p) \/ NoClients(p))
       /\ FairSpec /\ []EndCanCome => (NoClients(p) ~> Ended(p) \/ InMain(p) \/ LoopIsOver(p))
       /\ FairSpec /\ []EndCanCome => (LoopIsOver(p) ~> Ended(p) \/ InMain(p))
  BY <1>1, <1>2, <1>3, <1>4, <1>5, <1>7, <1>9, Invariance, PTL DEF FairSpec, Spec, FairTo
<1>12. /\ FairSpec /\ []EndCanCome => (InMain(p) ~> Ended(p) \/ Returned(p))
       /\ FairSpec /\ []EndCanCome => (Returned(p) ~> Ended(p))
  BY <1>1, <1>2, <1>3, <1>4, <1>5, <1>7, <1>9, Invariance, PTL DEF FairSpec, Spec, FairTo
<1>13. FairSpec => []NothingComes
  BY <1>1, <1>2, <1>3, Invariance, PTL DEF FairSpec, Spec
<1> QED
  BY <1>6, <1>8, <1>10, <1>11, <1>12, <1>13, PTL

================================================================================
