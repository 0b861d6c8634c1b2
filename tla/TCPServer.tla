----------------------------- MODULE TCPServer -----------------------------
(***************************************************************************)
(* net/engine/tcp_server, tcp_acceptor, reactor_thread_pool and            *)
(* reactor_thread over base/threading/thread: a server's life from its     *)
(* constructor to its destructor.  The main thread listens, starts one     *)
(* thread with a message loop per reactor, accepts connections on its own  *)
(* loop, hands each to the next reactor's loop (to its own if the pool is  *)
(* empty), and at the end stops and joins the threads one after another.   *)
(*                                                                         *)
(* A loop is its queue of tasks here; MessagePump has the loop itself and  *)
(* IOHandler what a connection does between its creation and its end.      *)
(* Nobody but Stop makes a reactor's loop quit (thread.cc:19).             *)
(***************************************************************************)
EXTENDS Integers, Sequences, FiniteSets

CONSTANTS
  PoolSize,   (* reactor_pool_size                                          *)
  Conns,      (* the connections clients make                               *)
  MaxFail,    (* bound on accept() calls that fail                          *)
  QUIT        (* the task ThreadQuitHelper                                  *)

ASSUME ServerAssumption == PoolSize \in Nat /\ MaxFail \in Nat /\ QUIT \notin Conns

Reactors == 0 .. PoolSize - 1
Main == -1                   (* message_loop_, the loop that accepts        *)

VARIABLES
  pc,            (* the main thread: before Create ("new"), in Pool::Start  *)
                 (* ("spawn", "wait"), in Pool::Shutdown ("stop", "join"),  *)
                 (* in its loop ("loop"), after ~TCPServer ("gone")         *)
  i,             (* the reactor Start or Shutdown has come to               *)
  ending,        (* Shutdown was called by ~TCPServer and not by Start      *)
  result,        (* what Create answered: "none", "true" or "false"         *)
  watched,       (* the listening socket is open and watched for reading    *)
  pooled,        (* reactor_pool_ holds its threads; else it is empty       *)
  next_reactor,  (* next_reactor_                                           *)
  thread,        (* each thread: none, spawned, ready, looping, leaving,    *)
                 (* exited                                                  *)
  message_loop,  (* message_loop[r]: the thread's message_loop_ is set      *)
  started,       (* started[r]: the Thread's started_                       *)
  queue,         (* queue[r]: the tasks of the reactor's loop               *)
  quit,          (* quit[r]: QuitWhenIdle was called on the loop            *)
  conn,          (* each connection: none, backlog, posted (OnCreated is in *)
                 (* a queue), open (announced), closed, lost                *)
  at,            (* at[c]: the loop of an accepted connection               *)
  fails,         (* failed accepts so far                                   *)
  load,          (* history: how many connections a reactor was handed      *)
  late           (* history: connections with an upcall after ~TCPServer    *)

mainVars == <<pc, i, ending, result, watched, pooled, next_reactor, started, fails>>
threadVars == <<thread, message_loop, queue, quit>>
connVars == <<conn, at, load, late>>
vars == <<mainVars, threadVars, connVars>>

Init ==
  /\ pc = "new" /\ i = 0 /\ ending = FALSE /\ result = "none"
  /\ watched = FALSE /\ pooled = (PoolSize > 0) /\ next_reactor = 0
  /\ thread = [r \in Reactors |-> "none"]
  /\ message_loop = [r \in Reactors |-> FALSE]
  /\ started = [r \in Reactors |-> FALSE]
  /\ queue = [r \in Reactors |-> <<>>]
  /\ quit = [r \in Reactors |-> FALSE]
  /\ conn = [c \in Conns |-> "none"]
  /\ at = [c \in Conns |-> Main]
  /\ fails = 0
  /\ load = [r \in Reactors |-> 0]
  /\ late = {}

-----------------------------------------------------------------------------
(* The main thread. *)

\* The address cannot be bound: nothing was created, Create may be tried again.
CreateRefused ==
  /\ pc = "new"
  /\ result' = "false"
  /\ UNCHANGED <<pc, i, ending, watched, pooled, next_reactor, started, fails>>
  /\ UNCHANGED <<threadVars, connVars>>

Create ==
  /\ pc = "new"
  /\ watched' = TRUE
  /\ pc' = IF pooled THEN "spawn" ELSE "loop"
  /\ result' = IF pooled THEN result ELSE "true"
  /\ UNCHANGED <<i, ending, pooled, next_reactor, started, fails, threadVars, connVars>>

\* StartWithOptions: the thread exists, Start waits for its event.
Spawn ==
  /\ pc = "spawn"
  /\ thread' = [thread EXCEPT ![i] = "spawned"]
  /\ pc' = "wait"
  /\ UNCHANGED <<i, ending, result, watched, pooled, next_reactor, started, fails,
                 message_loop, queue, quit, connVars>>

\* One thread cannot be created: Start shuts the whole pool down.
SpawnFails ==
  /\ pc = "spawn"
  /\ pc' = "stop" /\ i' = 0
  /\ UNCHANGED <<ending, result, watched, pooled, next_reactor, started, fails>>
  /\ UNCHANGED <<threadVars, connVars>>

\* startup_data.event: signalled once message_loop_ is set and Init has run.
Signalled(r) == thread[r] \in {"looping", "leaving", "exited"}

Started ==
  /\ pc = "wait" /\ Signalled(i)
  /\ started' = [started EXCEPT ![i] = TRUE]
  /\ IF i + 1 < PoolSize
       THEN pc' = "spawn" /\ i' = i + 1 /\ UNCHANGED result
       ELSE pc' = "loop" /\ result' = "true" /\ UNCHANGED i
  /\ UNCHANGED <<ending, watched, pooled, next_reactor, fails, threadVars, connVars>>

\* ~TCPServer; the loop, if it was running, is between two tasks or has returned.
Destroy ==
  /\ pc \in {"new", "loop"}
  /\ pc' = "stop" /\ i' = 0 /\ ending' = TRUE
  /\ UNCHANGED <<result, watched, pooled, next_reactor, started, fails>>
  /\ UNCHANGED <<threadVars, connVars>>

Size == IF pooled THEN PoolSize ELSE 0

\* Stop of a thread that did not start does nothing.
StopNotStarted ==
  /\ pc = "stop" /\ i < Size /\ ~started[i]
  /\ i' = i + 1
  /\ UNCHANGED <<pc, ending, result, watched, pooled, next_reactor, started, fails>>
  /\ UNCHANGED <<threadVars, connVars>>

FaultyStopSoon ==
  /\ pc = "stop" /\ i < Size /\ started[i]
  /\ pc' = "join"
  /\ UNCHANGED <<i, ending, result, watched, pooled, next_reactor, started, fails>>
  /\ UNCHANGED <<threadVars, connVars>>

StopSoon ==
  /\ pc = "stop" /\ i < Size /\ started[i]
  /\ queue' = IF message_loop[i] THEN [queue EXCEPT ![i] = Append(@, QUIT)] ELSE queue
  /\ pc' = "join"
  /\ UNCHANGED <<i, ending, result, watched, pooled, next_reactor, started, fails,
                 thread, message_loop, quit, connVars>>

FaultyJoined(r) == TRUE

Joined(r) == thread[r] = "exited"

Join ==
  /\ pc = "join" /\ Joined(i)
  /\ started' = [started EXCEPT ![i] = FALSE]
  /\ pc' = "stop" /\ i' = i + 1
  /\ UNCHANGED <<ending, result, watched, pooled, next_reactor, fails, threadVars, connVars>>

\* The vector is cleared.  In the destructor acc_ goes next: the listening
\* socket is closed and the clients still in the backlog are turned away.
ShutdownEnds ==
  /\ pc = "stop" /\ i >= Size
  /\ pooled' = FALSE
  /\ pc' = IF ending THEN "gone" ELSE "loop"
  /\ result' = IF ending THEN result ELSE "false"
  /\ watched' = (watched /\ ~ending)
  /\ conn' = IF ending
               THEN [c \in Conns |-> IF conn[c] = "backlog" THEN "closed" ELSE conn[c]]
               ELSE conn
  /\ UNCHANGED <<i, ending, next_reactor, started, fails, threadVars, at, load, late>>

-----------------------------------------------------------------------------
(* Accepting, on the main thread's loop. *)

\* The watch is persistent and level triggered: what stays in the backlog
\* makes the socket ready again.
Readable(c) == pc = "loop" /\ watched /\ conn[c] = "backlog"

FaultyAcceptFails ==
  /\ \E c \in Conns : Readable(c)
  /\ fails < MaxFail
  /\ fails' = fails + 1
  /\ watched' = FALSE
  /\ UNCHANGED <<pc, i, ending, result, pooled, next_reactor, started, threadVars, connVars>>

\* accept() fails, for want of descriptors say; the client stays where it is.
AcceptFails ==
  /\ \E c \in Conns : Readable(c)
  /\ fails < MaxFail
  /\ fails' = fails + 1
  /\ UNCHANGED <<pc, i, ending, result, watched, pooled, next_reactor, started>>
  /\ UNCHANGED <<threadVars, connVars>>

\* OnCreateConnection with no reactor: IOHandler::Create runs OnCreated inline.
AcceptHere(c) ==
  /\ Readable(c) /\ ~pooled
  /\ conn' = [conn EXCEPT ![c] = "open"]
  /\ at' = [at EXCEPT ![c] = Main]
  /\ UNCHANGED <<mainVars, threadVars, load, late>>

FaultyNext == IF next_reactor >= PoolSize - 1 THEN 0 ELSE next_reactor

\* GetNextMessageLoop
NextReactor == IF next_reactor = PoolSize THEN 0 ELSE next_reactor

\* A loop that is not there would be a null pointer: the connection is lost.
AcceptForPool(c) ==
  /\ Readable(c) /\ pooled
  /\ next_reactor' = NextReactor + 1
  /\ at' = [at EXCEPT ![c] = NextReactor]
  /\ load' = [load EXCEPT ![NextReactor] = @ + 1]
  /\ IF message_loop[NextReactor]
       THEN /\ queue' = [queue EXCEPT ![NextReactor] = Append(@, c)]
            /\ conn' = [conn EXCEPT ![c] = "posted"]
       ELSE /\ conn' = [conn EXCEPT ![c] = "lost"]
            /\ UNCHANGED queue
  /\ UNCHANGED <<pc, i, ending, result, watched, pooled, started, fails>>
  /\ UNCHANGED <<thread, message_loop, quit, late>>

-----------------------------------------------------------------------------
(* A reactor's thread: ThreadMain. *)

ThreadInit(r) ==
  /\ thread[r] = "spawned"
  /\ thread' = [thread EXCEPT ![r] = "ready"]
  /\ message_loop' = [message_loop EXCEPT ![r] = TRUE]
  /\ UNCHANGED <<mainVars, queue, quit, connVars>>

ThreadSignal(r) ==
  /\ thread[r] = "ready"
  /\ thread' = [thread EXCEPT ![r] = "looping"]
  /\ UNCHANGED <<mainVars, message_loop, queue, quit, connVars>>

\* The loop runs its next task: OnCreated of a connection, or ThreadQuitHelper.
RunTask(r) ==
  /\ thread[r] = "looping" /\ queue[r] # <<>>
  /\ queue' = [queue EXCEPT ![r] = Tail(@)]
  /\ IF Head(queue[r]) = QUIT
       THEN quit' = [quit EXCEPT ![r] = TRUE] /\ UNCHANGED conn
       ELSE conn' = [conn EXCEPT ![Head(queue[r])] = "open"] /\ UNCHANGED quit
  /\ UNCHANGED <<mainVars, thread, message_loop, at, load, late>>

FaultyMayQuit(r) == \E k \in 1 .. Len(queue[r]) : queue[r][k] = QUIT

\* QuitWhenIdle: not while there is a task to run.
MayQuit(r) == quit[r] /\ queue[r] = <<>>

Leave(r) ==
  /\ thread[r] = "looping" /\ MayQuit(r)
  /\ thread' = [thread EXCEPT ![r] = "leaving"]
  /\ UNCHANGED <<mainVars, message_loop, queue, quit, connVars>>

\* message_loop_ is cleared and the loop deleted, with the tasks it still has.
ThreadExit(r) ==
  /\ thread[r] = "leaving"
  /\ thread' = [thread EXCEPT ![r] = "exited"]
  /\ message_loop' = [message_loop EXCEPT ![r] = FALSE]
  /\ queue' = [queue EXCEPT ![r] = <<>>]
  /\ conn' = [c \in Conns |-> IF conn[c] = "posted" /\ at[c] = r THEN "lost" ELSE conn[c]]
  /\ UNCHANGED <<mainVars, quit, at, load, late>>

-----------------------------------------------------------------------------
(* Clients, and the connections on their loops. *)

Connect(c) ==
  /\ conn[c] = "none" /\ watched
  /\ conn' = [conn EXCEPT ![c] = "backlog"]
  /\ UNCHANGED <<mainVars, threadVars, at, load, late>>

\* The loop of an open connection is running: the main thread's also is, if
\* the program goes on with it, after the server was deleted.
LoopRuns(c) == IF at[c] = Main THEN pc \in {"loop", "gone"} ELSE thread[at[c]] = "looping"

\* OnDataReceived, or OnConnectionClosed at the end, forwarded by the server.
Upcall(c, end) ==
  /\ conn[c] = "open" /\ LoopRuns(c)
  /\ late' = IF pc = "gone" THEN late \cup {c} ELSE late
  /\ conn' = IF end THEN [conn EXCEPT ![c] = "closed"] ELSE conn
  /\ UNCHANGED <<mainVars, threadVars, at, load>>

MainStep ==
  \/ CreateRefused \/ Create \/ Spawn \/ SpawnFails \/ Started
  \/ StopNotStarted \/ StopSoon \/ Join \/ ShutdownEnds
  \/ Destroy

Accept == AcceptFails \/ \E c \in Conns : AcceptHere(c) \/ AcceptForPool(c)

ThreadStep(r) == ThreadInit(r) \/ ThreadSignal(r) \/ RunTask(r) \/ Leave(r) \/ ThreadExit(r)

Next ==
  \/ MainStep
  \/ Accept
  \/ \E r \in Reactors : ThreadStep(r)
  \/ \E c \in Conns : Connect(c)
  \/ \E c \in Conns, end \in BOOLEAN : Upcall(c, end)

Spec == Init /\ [][Next]_vars

(***************************************************************************)
(* Threads are scheduled, loops run what they have, and the main thread    *)
(* goes on once it is in Create or in the destructor.  Nothing makes the   *)
(* program call either, nor clients connect or end.                        *)
(***************************************************************************)
InPool == Spawn \/ SpawnFails \/ Started \/ StopNotStarted \/ StopSoon \/ Join \/ ShutdownEnds

FairSpec == /\ Spec
            /\ WF_vars(InPool)
            /\ WF_vars(Accept)
            /\ \A r \in Reactors : WF_vars(ThreadStep(r))

-----------------------------------------------------------------------------
TypeOK ==
  /\ pc \in {"new", "spawn", "wait", "loop", "stop", "join", "gone"}
  /\ i \in 0 .. PoolSize
  /\ ending \in BOOLEAN /\ watched \in BOOLEAN /\ pooled \in BOOLEAN
  /\ result \in {"none", "true", "false"}
  /\ next_reactor \in 0 .. PoolSize
  /\ thread \in [Reactors -> {"none", "spawned", "ready", "looping", "leaving", "exited"}]
  /\ message_loop \in [Reactors -> BOOLEAN]
  /\ started \in [Reactors -> BOOLEAN]
  /\ queue \in [Reactors -> Seq(Conns \cup {QUIT})]
  /\ quit \in [Reactors -> BOOLEAN]
  /\ conn \in [Conns -> {"none", "backlog", "posted", "open", "closed", "lost"}]
  /\ at \in [Conns -> Reactors \cup {Main}]
  /\ fails \in 0 .. MaxFail
  /\ load \in [Reactors -> Nat]
  /\ late \in SUBSET Conns

(***************************************************************************)
(* No accepted connection is lost: it is handed to a loop that is there,   *)
(* and its OnCreated runs even if the server is deleted right after,       *)
(* because Stop's task queues behind it and the loop quits only when idle. *)
(***************************************************************************)
EveryAcceptedIsAnnounced ==
  /\ \A c \in Conns : conn[c] # "lost"
  /\ pc = "gone" => \A c \in Conns : conn[c] \in {"none", "open", "closed"}

\* GetNextMessageLoop shares the connections out evenly.
Balanced == \A r, s \in Reactors : load[r] <= load[s] + 1

(***************************************************************************)
(* Once the pool is empty, because Start failed half-way or the server was *)
(* deleted, no reactor's thread runs; and upcalls reach a deleted server   *)
(* only from connections on the main thread's loop, which nothing closes.  *)
(***************************************************************************)
NoThreadOutlivesPool ==
  /\ ~pooled => \A r \in Reactors : thread[r] \in {"none", "exited"}
  /\ \A c \in late : at[c] = Main

\* Shutdown, from the destructor or from a failed Start, comes to its end.
ShutdownReturns == pc = "stop" ~> pc \in {"loop", "gone"}

\* A client in the backlog is served, or the server is deleted.
BacklogIsServed ==
  \A c \in Conns : conn[c] = "backlog" ~> conn[c] \in {"open", "closed"}
=============================================================================
