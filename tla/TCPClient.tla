------------------------------- MODULE TCPClient -------------------------------
(***************************************************************************)
(* net/engine/tcp_client.{h,cc} and tcp_connector.{h,cc}: one TCPClient,   *)
(* its TCPConnector and the IOHandlers made for it, all run by one message *)
(* loop, and an application that calls Connect and DisConnect from any     *)
(* thread.  Connect and DisConnect read connect_state_ under its lock and  *)
(* post a task, which changes nothing they read: each is one step.  A task *)
(* and a callback of the pump are one step each; everything they call on   *)
(* the way (OnNewConnection, IOHandler::Create and OnCreated, which run    *)
(* inline because the client's loop is the current one) belongs to it.     *)
(* Descriptors are the kernel's small numbers and are reused once closed.  *)
(*                                                                         *)
(* The definitions named Faulty... are plausible mistakes in the code;     *)
(* each stands before the definition it would replace.                     *)
(***************************************************************************)
EXTENDS Integers, Sequences, FiniteSets

CONSTANTS
  Fd,           (* descriptors the process may have                         *)
  NULL,         (* kInvalidSocket, no IOHandler                             *)
  MaxTasks,     (* bound on the queue and on the pending timers             *)
  MaxCalls,     (* bound on the application's Connect and DisConnect calls  *)
  MaxFails,     (* bound on connects that fail after EINPROGRESS            *)
  Careful,      (* does the application call only while nothing is pending? *)
  MayRefuse     (* may the delegate's OnNewConnection return non-zero?      *)

ASSUME TCPClientAssumption ==
  /\ NULL \notin Fd
  /\ MaxTasks \in Nat /\ MaxCalls \in Nat /\ MaxFails \in Nat
  /\ Careful \in BOOLEAN /\ MayRefuse \in BOOLEAN

VARIABLES
  connect_state,  (* "Invalid", "Connecting" or "Connected"                 *)
  connector,      (* connector_                                             *)
  io_handler,     (* the descriptor of the IOHandler io_handler_ points to  *)
  watched,        (* the descriptor watcher_ is armed for                   *)
  handlers,       (* descriptors of the IOHandlers the loop serves          *)
  sock,           (* sock[s]: "free", "pending" (connect in progress),      *)
                  (* "open", or "failed" (connect failed, not yet closed)   *)
  tasks,          (* the loop's queue                                       *)
  delayed,        (* ReConnect tasks posted with a delay                    *)
  calls,          (* application calls so far                               *)
  fails,          (* connects that failed asynchronously so far             *)
  quiet,          (* every call that returned true is over: the delegate    *)
                  (* was told of a closed connection since                  *)
  alive           (* the client was not yet deleted                         *)

vars == <<connect_state, connector, io_handler, watched, handlers, sock, tasks,
          delayed, calls, fails, quiet, alive>>

Init ==
  /\ connect_state = "Invalid"
  /\ connector = NULL
  /\ io_handler = NULL
  /\ watched = NULL
  /\ handlers = {}
  /\ sock = [s \in Fd |-> "free"]
  /\ tasks = <<>>
  /\ delayed = 0
  /\ calls = 0
  /\ fails = 0
  /\ quiet = TRUE
  /\ alive = TRUE

(* Nothing the application asked for is still under way.                   *)
Settled == tasks = <<>> /\ delayed = 0 /\ connect_state # "Connecting"

AppCall ==
  /\ alive
  /\ calls < MaxCalls
  /\ calls' = calls + 1
  /\ Careful => Settled

Post(task) == Len(tasks) < MaxTasks /\ tasks' = Append(tasks, task)

-----------------------------------------------------------------------------
FaultyConnectUnguarded ==
  /\ AppCall
  /\ Post("ReConnect") /\ quiet' = FALSE
  /\ UNCHANGED <<connect_state, connector, io_handler, watched, handlers, sock,
                 delayed, fails, alive>>

(* Connect: refused unless the state is Invalid; the state changes only    *)
(* when the posted ReConnect runs.                                         *)
Connect ==
  /\ AppCall
  /\ IF connect_state = "Invalid" THEN Post("ReConnect") /\ quiet' = FALSE
                                  ELSE UNCHANGED <<tasks, quiet>>
  /\ UNCHANGED <<connect_state, connector, io_handler, watched, handlers, sock,
                 delayed, fails, alive>>

(* DisConnect: refused unless the state is Invalid.                        *)
DisConnect ==
  /\ AppCall
  /\ IF connect_state = "Invalid" THEN Post("DoClose") /\ quiet' = FALSE
                                  ELSE UNCHANGED <<tasks, quiet>>
  /\ UNCHANGED <<connect_state, connector, io_handler, watched, handlers, sock,
                 delayed, fails, alive>>

-----------------------------------------------------------------------------
(* TCPConnector::OnNewConnection(s).  The delegate makes an IOHandler,     *)
(* whose OnCreated runs inline; when the application accepts it, io_handler*)
(* is set and the state is Connected.                                      *)
Accepted(s) ==
  /\ sock' = [sock EXCEPT ![s] = "open"]
  /\ handlers' = handlers \cup {s}
  /\ connector' = s
  /\ io_handler' = s
  /\ connect_state' = "Connected"
  /\ UNCHANGED quiet

(* When the application refuses it, IOHandler::Close has run (the client's *)
(* OnConnectionClosed, DoClose(false), the socket closed) before           *)
(* OnCreateConnection stores the pointer and the state is set.             *)
Refused(s) ==
  /\ MayRefuse
  /\ sock' = [sock EXCEPT ![s] = "free"]
  /\ connector' = NULL
  /\ io_handler' = s
  /\ connect_state' = "Connected"
  /\ quiet' = TRUE
  /\ UNCHANGED handlers

OnNewConnection(s) == Accepted(s) \/ Refused(s)

(* OnConnecting: watcher_ is armed for s, unless it is armed for another   *)
(* descriptor: then it is disarmed and the call fails (only logged).       *)
FaultyOnConnectingNoWatch(s) == UNCHANGED watched

OnConnecting(s) == watched' = IF watched \in {NULL, s} THEN s ELSE NULL

FaultyReConnectGivesUp ==
  /\ connector' = NULL
  /\ UNCHANGED <<connect_state, io_handler, watched, handlers, sock, delayed, quiet>>

(* ReConnect: CreateTCPConnectedSocket fails at once (the socket, if any,  *)
(* is closed), connects at once, or is in progress.                        *)
ReConnectFails ==
  /\ connector' = NULL
  /\ delayed < MaxTasks
  /\ delayed' = delayed + 1
  /\ UNCHANGED <<connect_state, io_handler, watched, handlers, sock, quiet>>

ReConnectAtOnce(s) ==
  /\ sock[s] = "free"
  /\ OnNewConnection(s)
  /\ UNCHANGED <<watched, delayed>>

ReConnectPending(s) ==
  /\ sock[s] = "free"
  /\ sock' = [sock EXCEPT ![s] = "pending"]
  /\ connector' = s
  /\ connect_state' = "Connecting"
  /\ OnConnecting(s)
  /\ UNCHANGED <<io_handler, handlers, delayed, quiet>>

Reaches == \E s \in Fd : ReConnectAtOnce(s) \/ ReConnectPending(s)

ReConnect == ReConnectFails \/ Reaches

RunReConnect ==
  /\ alive
  /\ tasks # <<>> /\ Head(tasks) = "ReConnect"
  /\ tasks' = Tail(tasks)
  /\ ReConnect
  /\ UNCHANGED <<calls, fails, alive>>

(* A delayed ReConnect is due: the pump moves it to the queue's end.       *)
TimerDue ==
  /\ alive
  /\ delayed > 0
  /\ Post("ReConnect")
  /\ delayed' = delayed - 1
  /\ UNCHANGED <<connect_state, connector, io_handler, watched, handlers, sock,
                 calls, fails, quiet, alive>>

(* DoClose(true): connector_ is closed if OnDestroyConnection returns      *)
(* false, that is, if io_handler_ is still set.                            *)
DoCloseFromMe ==
  /\ sock' = IF io_handler # NULL /\ connector # NULL
             THEN [sock EXCEPT ![connector] = "free"] ELSE sock
  /\ connector' = NULL
  /\ connect_state' = "Invalid"

RunDoClose ==
  /\ alive
  /\ tasks # <<>> /\ Head(tasks) = "DoClose"
  /\ tasks' = Tail(tasks)
  /\ DoCloseFromMe
  /\ UNCHANGED <<io_handler, watched, handlers, delayed, calls, fails, quiet, alive>>

-----------------------------------------------------------------------------
(* Callbacks of the pump.                                                  *)

(* OnConnected, called for a write event while Connecting.  SO_ERROR is    *)
(* that of connector_, whatever descriptor the event is for.               *)
ConnectOk ==
  /\ alive
  /\ watched # NULL
  /\ connect_state = "Connecting"
  /\ connector # NULL
  /\ sock[connector] = "pending"
  /\ watched' = NULL
  /\ OnNewConnection(connector)
  /\ UNCHANGED <<tasks, delayed, calls, fails, alive>>

FaultyConnectErrorKeepsState ==
  /\ alive
  /\ watched # NULL
  /\ connect_state = "Connecting"
  /\ connector # NULL => sock[connector] = "pending" /\ fails < MaxFails
  /\ fails' = IF connector = NULL THEN fails ELSE fails + 1
  /\ watched' = NULL
  /\ delayed < MaxTasks
  /\ delayed' = delayed + 1
  /\ sock' = IF connector = NULL THEN sock ELSE [sock EXCEPT ![connector] = "failed"]
  /\ connector' = NULL
  /\ UNCHANGED <<connect_state, io_handler, handlers, tasks, calls, quiet, alive>>

(* The connect failed (or connector_ was lost to a second ReConnect, and   *)
(* getsockopt itself fails): a ReConnect is posted with a delay, then      *)
(* DoClose(true) runs, with io_handler_ NULL it closes nothing.            *)
ConnectError ==
  /\ alive
  /\ watched # NULL
  /\ connect_state = "Connecting"
  /\ connector # NULL => sock[connector] = "pending" /\ fails < MaxFails
  /\ fails' = IF connector = NULL THEN fails ELSE fails + 1
  /\ watched' = NULL
  /\ delayed < MaxTasks
  /\ delayed' = delayed + 1
  /\ sock' = IF connector = NULL THEN sock
             ELSE [sock EXCEPT ![connector] = IF io_handler # NULL THEN "free" ELSE "failed"]
  /\ connector' = NULL
  /\ connect_state' = "Invalid"
  /\ UNCHANGED <<io_handler, handlers, tasks, calls, quiet, alive>>

FaultyPeerClosesReconnects(s) ==
  /\ alive
  /\ s \in handlers
  /\ sock[s] = "open"
  /\ handlers' = handlers \ {s}
  /\ sock' = [sock EXCEPT ![s] = "free"]
  /\ io_handler' = NULL
  /\ connector' = NULL
  /\ connect_state' = "Invalid"
  /\ quiet' = TRUE
  /\ delayed < MaxTasks /\ delayed' = delayed + 1
  /\ UNCHANGED <<watched, tasks, calls, fails, alive>>

(* The IOHandler of s reads end of file or an error and closes: the        *)
(* client forgets io_handler_, whichever it was, and DoClose(false) runs.  *)
PeerCloses(s) ==
  /\ alive
  /\ s \in handlers
  /\ sock[s] = "open"
  /\ handlers' = handlers \ {s}
  /\ sock' = [sock EXCEPT ![s] = "free"]
  /\ io_handler' = NULL
  /\ connector' = NULL
  /\ connect_state' = "Invalid"
  /\ quiet' = TRUE
  /\ UNCHANGED <<watched, tasks, delayed, calls, fails, alive>>

(* The application deletes the client, on the loop's thread, when it has   *)
(* been told that the connection it asked for is closed.  ~TCPConnector    *)
(* runs DoClose(true), then the members go: watcher_, which stops          *)
(* watching, and io_handler_.                                              *)
Delete ==
  /\ alive /\ quiet
  /\ DoCloseFromMe
  /\ watched' = NULL
  /\ io_handler' = NULL
  /\ alive' = FALSE
  /\ UNCHANGED <<handlers, tasks, delayed, calls, fails, quiet>>

Next ==
  \/ Connect \/ DisConnect
  \/ RunReConnect \/ TimerDue \/ RunDoClose
  \/ ConnectOk \/ ConnectError
  \/ \E s \in Fd : PeerCloses(s)
  \/ Delete

Spec == Init /\ [][Next]_vars

(* The loop runs what is posted and due; a connect in progress comes to an *)
(* end, well or badly; and while there is a descriptor for it, not every   *)
(* attempt fails at once.                                                  *)
Fairness ==
  /\ WF_vars(RunReConnect) /\ WF_vars(RunDoClose) /\ WF_vars(TimerDue)
  /\ WF_vars(ConnectOk \/ ConnectError)
  /\ SF_vars(RunReConnect /\ connector' # NULL)

FairSpec == Spec /\ Fairness

-----------------------------------------------------------------------------
(* Every variable stays in its range.                                      *)
TypeOK ==
  /\ connect_state \in {"Invalid", "Connecting", "Connected"}
  /\ connector \in Fd \cup {NULL}
  /\ io_handler \in Fd \cup {NULL}
  /\ watched \in Fd \cup {NULL}
  /\ handlers \in SUBSET Fd
  /\ sock \in [Fd -> {"free", "pending", "open", "failed"}]
  /\ tasks \in Seq({"ReConnect", "DoClose"})
  /\ delayed \in Nat
  /\ calls \in 0 .. MaxCalls
  /\ fails \in 0 .. MaxFails
  /\ {quiet, alive} \subseteq BOOLEAN

(* At most one attempt exists at any time: queued, waiting for its timer,  *)
(* in progress or successful.                                              *)
Attempts ==
  Cardinality({i \in DOMAIN tasks : tasks[i] = "ReConnect"}) + delayed
    + (IF connect_state = "Invalid" THEN 0 ELSE 1)

OneAttempt == Attempts <= 1

(* In state Connected connector_ and io_handler_ are one open socket whose *)
(* IOHandler the loop serves, unless the delegate refused the connection   *)
(* (connector_ is then invalid); and in no other state is there a handler. *)
ConnectedMeansOpen ==
  /\ connect_state = "Connected" /\ connector # NULL =>
       io_handler = connector /\ handlers = {connector} /\ sock[connector] = "open"
  /\ connector = NULL \/ connect_state # "Connected" => handlers = {}
  /\ connect_state # "Connected" => io_handler = NULL

(* A connect in progress is watched, and nothing else is: its completion   *)
(* cannot be missed, nor be taken for that of another socket.              *)
PendingIsWatched ==
  /\ connect_state = "Connecting" =>
       connector # NULL /\ watched = connector /\ sock[connector] = "pending"
  /\ connect_state # "Connecting" => watched = NULL

(* connect_state_, which Connect and DisConnect go by on any thread, says  *)
(* what the sockets, the watcher and the handler on the loop's are.        *)
StateMatchesSocket == ConnectedMeansOpen /\ PendingIsWatched

(* The only sockets no part of the client knows are those whose connect    *)
(* failed: one in progress or open is connector_'s or an IOHandler's.      *)
NoStraySocket ==
  \A s \in Fd : sock[s] \in {"pending", "open"} => s = connector \/ s \in handlers

(* A wanted connection is made in the end, and offered to the delegate,    *)
(* unless every descriptor has been lost to a connect that failed after    *)
(* EINPROGRESS.  Each of these leaves its socket open for ever (DoClose    *)
(* closes nothing while io_handler_ is NULL); once they have used up the   *)
(* process's descriptors, socket() fails and the retries go on in vain.    *)
Exhausted == \A s \in Fd : sock[s] = "failed"

WantedIsConnected ==
  (tasks # <<>> /\ Head(tasks) = "ReConnect") ~> (connect_state = "Connected" \/ Exhausted)

(* A client deleted after the delegate was told of the closed connection   *)
(* is found by nothing: no task, no timer (all posted with                 *)
(* Unretained(this)), no watcher, and no IOHandler, which has a plain      *)
(* pointer to its delegate.                                                *)
NothingFindsDeleted ==
  ~alive => tasks = <<>> /\ delayed = 0 /\ watched = NULL /\ handlers = {}
=============================================================================
