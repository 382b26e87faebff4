------------------------------ MODULE Server ------------------------------
(***************************************************************************)
(* The server for graphical clients: the game thread, the one worker       *)
(* thread of HSSocketManager and the SIGIO handler, at the grain of the    *)
(* mutexes they take (HSServer.cpp, HSClientConnection.cpp,                *)
(* HSSocketPosix.cpp, HSSocketManagerPosix.cpp).                           *)
(*                                                                         *)
(* What a thread has still to do is a sequence of operations, script: a    *)
(* function of the code is the sequence of the operations it performs, and *)
(* calling it puts them in front.  The signal handler does the same to the *)
(* thread it interrupts.                                                   *)
(***************************************************************************)
EXTENDS Naturals, FiniteSets, Sequences, SequencesExt

CONSTANTS
  Clients,      (* clients, and the sockets that are accepted for them     *)
  Listener,     (* mListeningSocket                                        *)
  Nobody,       (* the holder of a free mutex                              *)
  Interrupts,   (* where the signal handler may run: in a thread that      *)
                (* is not inside PostActivity ("outside") or "anywhere"    *)
  Loud,         (* clients that send data, in this instance                *)
  TaskBound,    (* bound: no event or command begins with more tasks open  *)
  SignalBound   (* bound: signals queued for a socket                      *)

Sockets == Clients \cup {Listener}
Threads == {"game", "worker"}

ASSUME ServerAssumption ==
  /\ IsFiniteSet(Clients) /\ Listener \notin Clients
  /\ Nobody \notin Threads
  /\ Interrupts \in {"outside", "anywhere"}
  /\ Loud \subseteq Clients
  /\ TaskBound \in Nat \ {0} /\ SignalBound \in Nat \ {0}

VARIABLES
  sock,         (* the state of each accepted socket and its connection    *)
  connections,  (* mClientConnections                                      *)
  active,       (* mActiveSockets                                          *)
  tasks,        (* mSocketTasks                                            *)
  signals,      (* SIGIO signals queued for each socket                    *)
  signalled,    (* mActivityCondvar has been signalled                     *)
  closing,      (* Stop has been called                                    *)
  shuttingDown, (* mShuttingDown                                           *)
  holder,       (* the thread that holds each mutex                        *)
  script        (* what each thread has still to do                        *)

socketVars == <<sock, connections, active>>
taskVars == <<tasks, signals, signalled>>
stopVars == <<closing, shuttingDown>>
vars == <<socketVars, taskVars, stopVars, holder, script>>

(* A socket whose peer has reset the connection, that has data to be       *)
(* received, that wants to receive it (mWantRead), whose mSendBuffer is    *)
(* not empty, whose connection knows a ship (mShip).                       *)
SocketStates ==
  [phase : {"away", "knocking", "connected", "gone"},
   reset : BOOLEAN, unread : BOOLEAN, wantRead : BOOLEAN, unsent : BOOLEAN,
   crewed : BOOLEAN]

-----------------------------------------------------------------------------
(* The mutexes: mConnectionMutex, mActivityMutex, each mSendBufferMutex.   *)
Connection == <<"connection">>
Activity == <<"activity">>
SendBuffer(c) == <<"send", c>>
Mutexes == {Connection, Activity} \cup {SendBuffer(c) : c \in Clients}

Lock(m) == <<"lock", m>>
Unlock(m) == <<"unlock", m>>

(* HSSocketManagerPriv::PostActivity, and SigIOAction, which returns when  *)
(* it has called it.                                                       *)
PostActivity(s) == <<Lock(Activity), <<"push", s>>, Unlock(Activity)>>
UnlockAndReturn == <<"unlock", Activity, "return">>
SigIOAction(s) == <<Lock(Activity), <<"push", s>>, UnlockAndReturn>>

(* HSSocketPosix::Send, which does nothing to a closed socket, and what it *)
(* does to a connected one.                                                *)
Send(c) == <<<<"send", c>>>>

SendConnected(c) ==
  <<Lock(SendBuffer(c)), <<"append", c>>, Unlock(SendBuffer(c))>> \o PostActivity(c)

(* HSSocketPosix::Read of a connected socket. *)
Read(c) == <<<<"want", c>>>> \o PostActivity(c)

(* ~HSSocketPosix. *)
DeleteSocket(s) == <<Lock(Activity), <<"erase", s>>, Unlock(Activity)>>

(* HSServer::ConnectionAccepted: the constructor of HSClientConnection     *)
(* welcomes the client and starts to read, then the connection is listed.  *)
ConnectionAccepted(c) ==
  Send(c) \o Read(c) \o <<Lock(Connection), <<"enlist", c>>, Unlock(Connection)>>

(* Mutant: the list is changed without its mutex. *)
DisconnectedUnlocked(c) ==
  <<<<"erase", c>>, <<"delist", c>>>> \o DeleteSocket(c)

(* Mutant: mActiveSockets is locked until the connection is gone. *)
DisconnectedActivityFirst(c) ==
  <<Lock(Activity), <<"erase", c>>, Lock(Connection), <<"delist", c>>, Unlock(Connection),
    Unlock(Activity)>>

(* HSSocketPosix::Disconnected, which ends in HSServer::ClientDisconnected. *)
Disconnected(c) ==
  <<<<"erase", c>>, Lock(Connection), <<"delist", c>>>>
    \o DeleteSocket(c) \o <<Unlock(Connection)>>

(* Mutant: mWantRead is reset after the data has been handled. *)
DataReadResetLate(c, answered) ==
  <<<<"receive", c>>>> \o (IF answered THEN Send(c) ELSE <<>>) \o Read(c)
    \o <<<<"sate", c>>>>

(* PollinReceived of a connected socket: HSClientConnection::DataRead      *)
(* answers some packets and asks for more data.                            *)
DataRead(c, answered) ==
  <<<<"receive", c>>, <<"sate", c>>>>
    \o (IF answered THEN Send(c) ELSE <<>>) \o Read(c)

(* PolloutReceived of a connected socket. *)
PolloutReceived(c) ==
  <<Lock(SendBuffer(c)), <<"transmit", c>>, Unlock(SendBuffer(c))>>

(* HSServer::UpdateClients and ConsoleUpdate. *)
UpdateClients == <<Lock(Connection), <<"update">>, Unlock(Connection)>>
ConsoleUpdate(c) == <<Lock(Connection), <<"console", c>>, Unlock(Connection)>>

(* HSServer::Stop.  The connections stay locked while the manager is       *)
(* deleted, which waits for the worker.                                    *)
Stop ==
  DeleteSocket(Listener)
    \o <<Lock(Connection), <<"clear">>,
         Lock(Activity), <<"shutdown">>, Unlock(Activity), <<"join">>,
         Unlock(Connection)>>

-----------------------------------------------------------------------------
Doing(t, kind) == script[t] # <<>> /\ script[t][1][1] = kind
Subject(t) == script[t][1][2]

(* The next operation of a thread is replaced by those it consists of.  A  *)
(* mutex that is to be released at once is released in the same step.      *)
Then(t, ops) ==
  LET rest == ops \o Tail(script[t])
      releases == rest # <<>> /\ rest[1][1] = "unlock" IN
  /\ script' = [script EXCEPT ![t] = IF releases THEN Tail(rest) ELSE rest]
  /\ holder' = IF releases THEN [holder EXCEPT ![rest[1][2]] = Nobody] ELSE holder

Continue(t) == Then(t, <<>>)

Acquire(t) ==
  /\ Doing(t, "lock") /\ holder[Subject(t)] = Nobody
  /\ holder' = [holder EXCEPT ![Subject(t)] = t]
  /\ script' = [script EXCEPT ![t] = Tail(@)]
  /\ UNCHANGED <<socketVars, taskVars, stopVars>>

Release(t) ==
  /\ Doing(t, "unlock")
  /\ holder' = [holder EXCEPT ![Subject(t)] = Nobody]
  /\ script' = [script EXCEPT ![t] = Tail(@)]
  /\ UNCHANGED <<socketVars, taskVars, stopVars>>

Push(t) ==
  /\ Doing(t, "push")
  /\ tasks' = Append(tasks, Subject(t)) /\ signalled' = TRUE
  /\ Continue(t)
  /\ UNCHANGED <<socketVars, signals, stopVars>>

(* What is done to one socket and its connection.  A login that finds a    *)
(* console manned by the user gives the connection its ship.               *)
Touch(t) ==
  /\ \/ Doing(t, "append") /\ sock' = [sock EXCEPT ![Subject(t)].unsent = TRUE]
     \/ Doing(t, "transmit") /\ sock' = [sock EXCEPT ![Subject(t)].unsent = FALSE]
     \/ Doing(t, "want") /\ sock' = [sock EXCEPT ![Subject(t)].wantRead = TRUE]
     \/ Doing(t, "sate") /\ sock' = [sock EXCEPT ![Subject(t)].wantRead = FALSE]
     \/ /\ Doing(t, "receive")
        /\ \E ship \in {TRUE, sock[Subject(t)].crewed} :
             sock' = [sock EXCEPT ![Subject(t)].unread = FALSE, ![Subject(t)].crewed = ship]
  /\ Continue(t)
  /\ UNCHANGED <<connections, active, taskVars, stopVars>>

SendToSocket(t) ==
  /\ Doing(t, "send")
  /\ Then(t, IF Subject(t) \in active THEN SendConnected(Subject(t)) ELSE <<>>)
  /\ UNCHANGED <<socketVars, taskVars, stopVars>>

(* A socket is connected as long as it is one of mActiveSockets. *)
Erase(t) ==
  /\ Doing(t, "erase")
  /\ active' = active \ {Subject(t)}
  /\ Continue(t)
  /\ UNCHANGED <<sock, connections, taskVars, stopVars>>

Enlist(t) ==
  /\ Doing(t, "enlist")
  /\ connections' = connections \cup {Subject(t)}
  /\ Continue(t)
  /\ UNCHANGED <<sock, active, taskVars, stopVars>>

Delist(t) ==
  /\ Doing(t, "delist")
  /\ connections' = connections \ {Subject(t)}
  /\ sock' = [sock EXCEPT ![Subject(t)].phase = "gone"]
  /\ Continue(t)
  /\ UNCHANGED <<active, taskVars, stopVars>>

-----------------------------------------------------------------------------
(* HSWorkerThread::Run: the task in hand, and then another one. *)
Run == <<Lock(Activity), <<"pick">>>>

(* Mutant: the worker waits without asking whether there is a task. *)
MayWaitAlways == TRUE

MayWait == tasks = <<>>

(* The mutex is released by the wait, and has to be taken again. *)
Wait ==
  /\ Doing("worker", "pick") /\ MayWait /\ ~shuttingDown
  /\ signalled' = FALSE
  /\ Then("worker", <<Unlock(Activity), <<"wait">>, Lock(Activity), <<"take">>>>)
  /\ UNCHANGED <<socketVars, tasks, signals, stopVars>>

Wake ==
  /\ Doing("worker", "wait") /\ signalled
  /\ Continue("worker")
  /\ UNCHANGED <<socketVars, taskVars, stopVars>>

Task(s) ==
  IF s \in active THEN <<Unlock(Activity), <<"poll", s>>>> ELSE <<Unlock(Activity)>>

(* The first of the tasks; a worker that has waited looks for no other     *)
(* reason to have been woken than a task or the end of the server.         *)
Take ==
  /\ Doing("worker", "pick") \/ Doing("worker", "take")
  /\ tasks # <<>> /\ ~shuttingDown
  /\ tasks' = Tail(tasks)
  /\ Then("worker", Task(Head(tasks)) \o Run)
  /\ UNCHANGED <<socketVars, signals, signalled, stopVars>>

(* The thread leaves its loop with the mutex locked. *)
End ==
  /\ Doing("worker", "pick") \/ Doing("worker", "take")
  /\ shuttingDown
  /\ Then("worker", <<<<"ended">>>>)
  /\ UNCHANGED <<socketVars, taskVars, stopVars>>

(* What poll reports of a socket that has been closed by Stop, of the      *)
(* listening socket and of a connection.                                   *)
PollClosed ==
  /\ Doing("worker", "poll") /\ Subject("worker") \notin active
  /\ Continue("worker")
  /\ UNCHANGED <<socketVars, taskVars, stopVars>>

Accept(c) ==
  /\ sock[c].phase = "knocking"
  /\ sock' = [sock EXCEPT ![c].phase = "connected"]
  /\ active' = active \cup {c}
  /\ Then("worker", ConnectionAccepted(c))
  /\ UNCHANGED <<connections, taskVars, stopVars>>

PollListener ==
  /\ Doing("worker", "poll") /\ Subject("worker") = Listener /\ Listener \in active
  /\ \/ \E c \in Clients : Accept(c)
     \/ /\ \A c \in Clients : sock[c].phase # "knocking"
        /\ Continue("worker")
        /\ UNCHANGED <<socketVars, taskVars, stopVars>>

PollConnected(c) ==
  /\ Doing("worker", "poll") /\ Subject("worker") = c /\ c \in active
  /\ \/ sock[c].reset /\ Then("worker", Disconnected(c))
     \/ /\ ~sock[c].reset
        /\ IF sock[c].unread /\ sock[c].wantRead
           THEN \E answered \in BOOLEAN :
                  Then("worker", DataRead(c, answered) \o PolloutReceived(c))
           ELSE Then("worker", PolloutReceived(c))
  /\ UNCHANGED <<socketVars, taskVars, stopVars>>

-----------------------------------------------------------------------------
(* The game thread: HSCycle, the commands that change who mans a console,  *)
(* and HSShutdown.                                                         *)
Begin(ops) ==
  /\ script["game"] = <<>> /\ ~closing
  /\ script' = [script EXCEPT !["game"] = ops]

GameCalls ==
  /\ Len(tasks) < TaskBound
  /\ Begin(UpdateClients) \/ \E c \in Clients : Begin(ConsoleUpdate(c))
  /\ UNCHANGED <<socketVars, taskVars, stopVars, holder>>

GameStops ==
  /\ Begin(Stop) /\ closing' = TRUE
  /\ UNCHANGED <<socketVars, taskVars, shuttingDown, holder>>

(* HSClientConnection::UpdateClient of every connection that has a ship. *)
Update ==
  /\ Doing("game", "update")
  /\ \E order \in SetToSeqs({c \in connections : sock[c].crewed}) :
       Then("game", [i \in DOMAIN order |-> <<"send", order[i]>>])
  /\ UNCHANGED <<socketVars, taskVars, stopVars>>

(* HSClientConnection::ConsoleUpdate. *)
Console ==
  /\ Doing("game", "console")
  /\ LET c == Subject("game") IN
     IF c \in connections
     THEN /\ \E ship \in BOOLEAN : sock' = [sock EXCEPT ![c].crewed = ship]
          /\ Then("game", Send(c))
     ELSE Continue("game") /\ UNCHANGED sock
  /\ UNCHANGED <<connections, active, taskVars, stopVars>>

(* The loop that deletes the connections, one at a time. *)
Clear ==
  /\ Doing("game", "clear")
  /\ \/ /\ connections = {}
        /\ Continue("game") /\ UNCHANGED <<sock, connections>>
     \/ \E c \in connections :
          /\ Then("game", DeleteSocket(c) \o <<<<"clear">>>>)
          /\ sock' = [sock EXCEPT ![c].phase = "gone"]
          /\ connections' = connections \ {c}
  /\ UNCHANGED <<active, taskVars, stopVars>>

Shutdown ==
  /\ Doing("game", "shutdown")
  /\ shuttingDown' = TRUE /\ signalled' = TRUE
  /\ Continue("game")
  /\ UNCHANGED <<socketVars, tasks, signals, closing>>

Join ==
  /\ Doing("game", "join") /\ Doing("worker", "ended")
  /\ Continue("game")
  /\ UNCHANGED <<socketVars, taskVars, stopVars>>

-----------------------------------------------------------------------------
(* The signal is masked until its handler returns, and not posted for a    *)
(* socket that is not known any more.                                      *)
Interruptible(t) ==
  /\ ~Contains(script[t], UnlockAndReturn)
  /\ ~Doing(t, "ended")
  /\ Interrupts = "outside" => holder[Activity] # t

Interrupt(t, s) ==
  /\ Interruptible(t)
  /\ signals[s] > 0
  /\ signals' = [signals EXCEPT ![s] = @ - 1]
  /\ script' = IF s \in active
               THEN [script EXCEPT ![t] = SigIOAction(s) \o @]
               ELSE script
  /\ UNCHANGED <<socketVars, tasks, signalled, stopVars, holder>>

(* The kernel: a client connects, sends, or resets the connection.         *)
Raise(s) ==
  /\ Len(tasks) < TaskBound /\ signals[s] < SignalBound
  /\ signals' = IF s \in active THEN [signals EXCEPT ![s] = @ + 1] ELSE signals
  /\ UNCHANGED <<connections, active, tasks, signalled, stopVars, holder, script>>

Connects(c) ==
  /\ sock[c].phase = "away" /\ Listener \in active
  /\ sock' = [sock EXCEPT ![c].phase = "knocking"]
  /\ Raise(Listener)

Sends(c) ==
  /\ c \in Loud /\ sock[c].phase \in {"knocking", "connected"}
  /\ ~sock[c].reset /\ ~sock[c].unread
  /\ sock' = [sock EXCEPT ![c].unread = TRUE]
  /\ Raise(c)

Resets(c) ==
  /\ sock[c].phase \in {"knocking", "connected"} /\ ~sock[c].reset
  /\ sock' = [sock EXCEPT ![c].reset = TRUE]
  /\ Raise(c)

-----------------------------------------------------------------------------
Init ==
  /\ sock = [c \in Clients |->
               [phase |-> "away", reset |-> FALSE, unread |-> FALSE,
                wantRead |-> FALSE, unsent |-> FALSE, crewed |-> FALSE]]
  /\ connections = {} /\ active = {Listener}
  /\ tasks = <<>> /\ signals = [s \in Sockets |-> 0] /\ signalled = FALSE
  /\ closing = FALSE /\ shuttingDown = FALSE
  /\ holder = [m \in Mutexes |-> Nobody]
  /\ script = [t \in Threads |-> IF t = "worker" THEN Run ELSE <<>>]

Runs(t) == 
  \/ Acquire(t) \/ Release(t) \/ Push(t) \/ Touch(t) \/ Erase(t)
  \/ SendToSocket(t) \/ Enlist(t) \/ Delist(t)

Worker ==
  \/ Runs("worker") \/ Wait \/ Wake \/ Take \/ End
  \/ PollClosed \/ PollListener \/ \E c \in Clients : PollConnected(c)

Game == Runs("game") \/ Update \/ Console \/ Clear \/ Shutdown \/ Join

Handler(s) == \E t \in Threads : Interrupt(t, s)

Next ==
  \/ Worker \/ Game \/ \E s \in Sockets : Handler(s)
  \/ GameCalls \/ GameStops
  \/ \E c \in Clients : Connects(c) \/ Sends(c) \/ Resets(c)

(* A thread that can go on does so, and gets a mutex that is free again    *)
(* and again: the game holds each for moments once a second.  Each signal  *)
(* that is queued is delivered.                                            *)
Spec ==
  /\ Init /\ [][Next]_vars
  /\ SF_vars(Worker) /\ SF_vars(Game) /\ \A s \in Sockets : SF_vars(Handler(s))
-----------------------------------------------------------------------------
TypeOK ==
  /\ sock \in [Clients -> SocketStates]
  /\ connections \subseteq Clients /\ active \subseteq Sockets
  /\ tasks \in Seq(Sockets) /\ signals \in [Sockets -> 0..SignalBound]
  /\ signalled \in BOOLEAN /\ closing \in BOOLEAN /\ shuttingDown \in BOOLEAN
  /\ holder \in [Mutexes -> Threads \cup {Nobody}]
  /\ \A t \in Threads : \A i \in DOMAIN script[t] : script[t][i][1] = "unlock" =>
       \/ holder[script[t][i][2]] = t
       \/ \E j \in 1..(i - 1) : script[t][j] = Lock(script[t][i][2])

Waits(t, u) == Doing(t, "lock") /\ holder[Subject(t)] = u

(* The game and the worker never wait for each other's mutexes, whatever   *)
(* they are interrupted in (every nesting of mConnectionMutex,             *)
(* mActivityMutex and the send buffers).                                   *)
NoCircularWait == ~(Waits("game", "worker") /\ Waits("worker", "game"))

(* The game sends to a connection only while it exists, although the       *)
(* worker deletes connections at any time (HSServer::UpdateClients,        *)
(* ClientDisconnected).                                                    *)
GameUsesConnections ==
  \A c \in Clients :
    (Doing("game", "send") \/ Doing("game", "append")) /\ Subject("game") = c
      => c \in connections

(* Data that arrives is read, before, during and after the handling of     *)
(* earlier data, and what is sent leaves the buffer, as long as the        *)
(* connection and the server last.                                        *)
DataGetsThrough ==
  \A c \in Clients :
    /\ sock[c].unread ~> ~sock[c].unread \/ sock[c].reset \/ closing
    /\ sock[c].unsent ~> ~sock[c].unsent \/ sock[c].reset \/ closing

(* Every client is let in, and every connection that breaks is removed     *)
(* from the list.                                                          *)
ClientsComeAndGo ==
  \A c \in Clients :
    /\ sock[c].phase = "knocking" ~> sock[c].phase # "knocking" \/ closing
    /\ sock[c].reset ~> sock[c].phase = "gone" \/ closing

(* HSMutex.h:56 says of Lock that "it can be called multiple times from    *)
(* the thread owning it": a thread never waits for its own mutex.          *)
NoSelfWait == \A t \in Threads : ~Waits(t, t)

(* HSServer.h:30 "Stop the server.": a server that is stopped gets there,  *)
(* and the game goes on to shut down.                                      *)
StopReturns == closing ~> script["game"] = <<>>
=============================================================================
