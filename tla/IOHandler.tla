------------------------------- MODULE IOHandler -------------------------------
(***************************************************************************)
(* net/engine/io_handler.{h,cc}: the life of TCP connections served by one *)
(* message loop.  An IOHandler is made by the thread that accepted the     *)
(* socket (TCPServer::OnCreateConnection), registered by a task on its     *)
(* loop, read and written by that loop only, sent to by any thread that    *)
(* holds a reference (SendData posts SendInternal2 with Unretained(this)), *)
(* and freed by whoever drops the last reference.                          *)
(*                                                                         *)
(* One run of a task or of a file descriptor callback is one step: the     *)
(* other threads only post tasks, under the queue's lock, and count        *)
(* references atomically.  The delegate is the application's: what it      *)
(* returns, replies and keeps is chosen freely.  write_buf_ and read_buf_  *)
(* are byte sequences here; module IOBuffer is about their indices.  A     *)
(* callback that replies or keeps the pointer and then refuses leaves what *)
(* the same callback accepting, followed by an end of file, leaves.        *)
(*                                                                         *)
(* The definitions named Faulty... are plausible mistakes in the code;     *)
(* each stands before the definition it would replace.                     *)
(***************************************************************************)
EXTENDS Integers, Sequences, FiniteSets

CONSTANTS
  Conn,               (* the IOHandler objects, one per accepted socket     *)
  Thread,             (* application threads other than the loop's          *)
  Byte,               (* what is sent                                       *)
  Payload,            (* the byte sequences the application sends           *)
  Garbage,            (* what a read outside the caller's data yields       *)
  Wrap,               (* 2^32: uint32 arithmetic is modulo Wrap             *)
  MaxSends,           (* bound on the sends of a behaviour                  *)
  MaxTasks            (* bound on the loop's task queue                     *)

ASSUME IOHandlerAssumption ==
  /\ Payload \subseteq Seq(Byte)
  /\ Garbage \notin Byte
  /\ Wrap \in Nat
  /\ \A d \in Payload : Len(d) + 1 < Wrap
  /\ MaxSends \in Nat
  /\ MaxTasks \in Nat
  /\ IsFiniteSet(Thread)

VARIABLES
  obj,          (* obj[c]: "none", "live" or "freed"                        *)
  refs,         (* refs[c]: the reference count                             *)
  local,        (* connections whose acceptor still has its local pointer   *)
  holds,        (* holds[t]: connections thread t has a reference to        *)
  open,         (* connections whose socket_ is a valid descriptor          *)
  read_watch,   (* connections whose read_watcher_ is armed                 *)
  write_watch,  (* connections whose write_watcher_ is armed                *)
  writing,      (* connections whose write_wait_state_ is WAITING_WRITE     *)
  write_buf,    (* write_buf[c]: the readable bytes of write_buf_           *)
  tasks,        (* the loop's queue of posted tasks                         *)
  budget,       (* sends left                                               *)
  accepted,     (* history: accepted[c], the bytes given to SendInternal    *)
                (* while the socket was open, in that order                 *)
  wire,         (* history: wire[c], the bytes the kernel took              *)
  upcalls,      (* history: upcalls[c], the delegate's calls in order       *)
                (* (runs of OnDataReceived count once)                      *)
  spoilt,       (* history: connections on which DCHECK(remaining <=        *)
                (* data_len) of SendInternal failed with the socket open    *)
  careless,     (* history: <<t, c>>, thread t let go of c while a task it  *)
                (* had posted to c was queued                               *)
  dangling      (* history: <<t, c>>, a task t had posted ran on c freed;   *)
                (* what it makes of freed memory is not modelled            *)

socketVars == <<open, read_watch, write_watch, writing, write_buf>>
refVars    == <<obj, refs, local, holds>>
history    == <<accepted, wire, upcalls, spoilt>>
misuse     == <<careless, dangling>>
vars       == <<refVars, socketVars, tasks, budget, history, misuse>>

Task == [op : {"OnCreated"}, conn : Conn]
          \cup [op : {"SendInternal2"}, conn : Conn, by : Thread, data : Payload]

Init ==
  /\ obj = [c \in Conn |-> "none"]
  /\ refs = [c \in Conn |-> 0]
  /\ local = {}
  /\ holds = [t \in Thread |-> {}]
  /\ open = {}
  /\ read_watch = {} /\ write_watch = {} /\ writing = {}
  /\ write_buf = [c \in Conn |-> <<>>]
  /\ tasks = <<>>
  /\ budget = MaxSends
  /\ accepted = [c \in Conn |-> <<>>]
  /\ wire = [c \in Conn |-> <<>>]
  /\ upcalls = [c \in Conn |-> <<>>]
  /\ spoilt = {}
  /\ careless = {} /\ dangling = {}

-----------------------------------------------------------------------------
(* Reference counting.  Release of the last reference deletes the object,  *)
(* and the destructor closes a socket that is still open.                  *)

AddRefs(c, n) == refs' = [refs EXCEPT ![c] = @ + n]

FaultyReleaseEarly(c, n) ==
  /\ refs' = [refs EXCEPT ![c] = n]
  /\ obj' = [obj EXCEPT ![c] = IF n <= 1 THEN "freed" ELSE @]

ReleaseTo(c, n) ==
  /\ refs' = [refs EXCEPT ![c] = n]
  /\ obj' = [obj EXCEPT ![c] = IF n = 0 THEN "freed" ELSE @]

(* TCPServer::OnCreateConnection up to the end of IOHandler::Create: the   *)
(* local pointer and the reference Create takes for the engine.            *)
Create(c) ==
  /\ obj[c] = "none"
  /\ Len(tasks) < MaxTasks
  /\ obj' = [obj EXCEPT ![c] = "live"]
  /\ AddRefs(c, 2)
  /\ local' = local \cup {c}
  /\ open' = open \cup {c}
  /\ tasks' = Append(tasks, [op |-> "OnCreated", conn |-> c])
  /\ UNCHANGED <<holds, read_watch, write_watch, writing, write_buf, budget,
                 history, misuse>>

(* The acceptor returns and its local IOHandlerPtr goes out of scope,      *)
(* before or after the loop ran OnCreated.                                 *)
DropLocal(c) ==
  /\ c \in local
  /\ local' = local \ {c}
  /\ ReleaseTo(c, refs[c] - 1)
  /\ open' = IF refs[c] = 1 THEN open \ {c} ELSE open
  /\ UNCHANGED <<holds, read_watch, write_watch, writing, write_buf, tasks,
                 budget, history, misuse>>

(* A thread lets go of its IOHandlerPtr.  Nothing makes it wait for what   *)
(* it has posted with Unretained(this): "careless" records that it did not. *)
Awaited(t, c) ==
  \E i \in DOMAIN tasks :
    tasks[i].op = "SendInternal2" /\ tasks[i].conn = c /\ tasks[i].by = t

DropRef(t, c) ==
  /\ c \in holds[t]
  /\ careless' = IF Awaited(t, c) THEN careless \cup {<<t, c>>} ELSE careless
  /\ holds' = [holds EXCEPT ![t] = @ \ {c}]
  /\ ReleaseTo(c, refs[c] - 1)
  /\ open' = IF refs[c] = 1 THEN open \ {c} ELSE open
  /\ UNCHANGED <<local, read_watch, write_watch, writing, write_buf, tasks,
                 budget, history, dangling>>

-----------------------------------------------------------------------------
(* The delegate's calls, as the application sees them.                     *)

Upcall(s, call) == IF s # <<>> /\ s[Len(s)] = call THEN s ELSE Append(s, call)

(* Threads in "to" keep the IOHandlerPtr they are given by a callback.     *)
HandOut(c, to) ==
  holds' = [t \in Thread |-> IF t \in to THEN holds[t] \cup {c} ELSE holds[t]]

Newcomers(c, to) == {t \in to : c \notin holds[t]}

FaultyCloseKeepsWatching(c, seen) ==
  /\ upcalls' = [upcalls EXCEPT ![c] = Append(seen, "closed")]
  /\ open' = open \ {c}
  /\ ReleaseTo(c, refs[c] - 1)
  /\ UNCHANGED <<local, holds, read_watch, write_watch, writing, write_buf,
                 accepted, wire, spoilt>>

(* Close: OnConnectionClosed, then both watchers stopped and the socket    *)
(* closed, then the engine's reference released.  write_wait_state_ and    *)
(* write_buf_ keep their values.                                           *)
Close(c, seen) ==
  /\ upcalls' = [upcalls EXCEPT ![c] = Append(seen, "closed")]
  /\ read_watch' = read_watch \ {c}
  /\ write_watch' = write_watch \ {c}
  /\ open' = open \ {c}
  /\ ReleaseTo(c, refs[c] - 1)
  /\ UNCHANGED <<local, holds, writing, write_buf, accepted, wire, spoilt>>

-----------------------------------------------------------------------------
(* SendInternal of "data" when send() returns n.  nwrote is a uint32, so   *)
(* -1 (EAGAIN of a full kernel buffer, or any error) becomes Wrap - 1, the *)
(* test nwrote >= 0 holds always, remaining becomes data_len + 1, and      *)
(* write_buf_ gets that many bytes from data + nwrote, outside the data.   *)
(* DCHECK(remaining <= data_len) is compiled out of a release build, which *)
(* goes on.                                                                *)

FaultyDirectAlways(c) == TRUE

Direct(c) == c \notin writing /\ write_buf[c] = <<>>

SendResults(c, data) ==
  IF ~ Direct(c) THEN {0}
  ELSE IF c \notin open THEN {-1}
  ELSE {-1} \cup (IF data = <<>> THEN {0} ELSE 1 .. Len(data))

Remaining(c, data, n) ==
  IF Direct(c) THEN (Len(data) - (n % Wrap)) % Wrap ELSE Len(data)

Unsent(c, data, n) ==
  IF n >= 0 THEN SubSeq(data, n + 1, Len(data))
  ELSE [i \in 1 .. Remaining(c, data, n) |-> Garbage]

SendInternal(c, data, n) ==
  /\ n \in SendResults(c, data)
  /\ accepted' = IF c \in open THEN [accepted EXCEPT ![c] = @ \o data] ELSE accepted
  /\ wire' = IF n > 0 THEN [wire EXCEPT ![c] = @ \o SubSeq(data, 1, n)] ELSE wire
  /\ spoilt' = IF c \in open /\ Remaining(c, data, n) > Len(data)
               THEN spoilt \cup {c} ELSE spoilt
  /\ IF Remaining(c, data, n) > 0
     THEN /\ write_buf' = [write_buf EXCEPT ![c] = @ \o Unsent(c, data, n)]
          /\ writing' = writing \cup {c}
          /\ write_watch' = IF c \in writing \/ c \notin open THEN write_watch
                            ELSE write_watch \cup {c}
     ELSE UNCHANGED <<write_buf, writing, write_watch>>

NoSend == UNCHANGED <<accepted, wire, spoilt, write_buf, writing, write_watch>>

(* What a callback of the delegate may send on its own connection.         *)
Reply(c) ==
  \/ NoSend /\ UNCHANGED budget
  \/ /\ budget > 0
     /\ budget' = budget - 1
     /\ \E d \in Payload : \E n \in SendResults(c, d) : SendInternal(c, d, n)

-----------------------------------------------------------------------------
(* Tasks of the loop, run in the order they were posted.                   *)

OnCreated(c) ==
  LET seen == Upcall(upcalls[c], "new")
  IN \/ \E to \in SUBSET Thread :              \* OnNewConnection returns 0
          /\ HandOut(c, to)
          /\ AddRefs(c, Cardinality(Newcomers(c, to)))
          /\ read_watch' = read_watch \cup {c}
          /\ upcalls' = [upcalls EXCEPT ![c] = seen]
          /\ Reply(c)
          /\ UNCHANGED <<obj, local, open, misuse>>
     \/ Close(c, seen) /\ UNCHANGED <<budget, misuse>>

RunOnCreated ==
  /\ tasks # <<>>
  /\ Head(tasks).op = "OnCreated"
  /\ tasks' = Tail(tasks)
  /\ OnCreated(Head(tasks).conn)

RunSendInternal2 ==
  /\ tasks # <<>>
  /\ Head(tasks).op = "SendInternal2"
  /\ tasks' = Tail(tasks)
  /\ LET c == Head(tasks).conn IN
       IF obj[c] = "freed"
       THEN /\ dangling' = dangling \cup {<<Head(tasks).by, c>>}
            /\ UNCHANGED <<refVars, socketVars, budget, history, careless>>
       ELSE /\ \E n \in SendResults(c, Head(tasks).data) :
                 SendInternal(c, Head(tasks).data, n)
            /\ UNCHANGED <<refVars, open, read_watch, budget, upcalls, misuse>>

(* SendData on a thread that is not the loop's.                            *)
SendData(t, c, data) ==
  /\ c \in holds[t]
  /\ budget > 0
  /\ Len(tasks) < MaxTasks
  /\ budget' = budget - 1
  /\ tasks' = Append(tasks, [op |-> "SendInternal2", conn |-> c, by |-> t, data |-> data])
  /\ UNCHANGED <<refVars, socketVars, history, misuse>>

-----------------------------------------------------------------------------
(* Callbacks of the message pump.                                          *)

(* OnFileCanReadWithoutBlocking: Read got bytes and OnDataReceived took    *)
(* them (it may reply and keep the pointer), or it returned non-zero, or   *)
(* Read got end of file or an error.                                       *)
ReadData(c) ==
  /\ c \in read_watch
  /\ \E to \in SUBSET Thread :
       /\ HandOut(c, to)
       /\ AddRefs(c, Cardinality(Newcomers(c, to)))
  /\ upcalls' = [upcalls EXCEPT ![c] = Upcall(@, "data")]
  /\ Reply(c)
  /\ UNCHANGED <<obj, local, open, read_watch, tasks, misuse>>

ReadClose(c) ==
  /\ c \in read_watch
  /\ \E seen \in {upcalls[c], Upcall(upcalls[c], "data")} : Close(c, seen)
  /\ UNCHANGED <<tasks, budget, misuse>>

Rest(c, n) == SubSeq(write_buf[c], n + 1, Len(write_buf[c]))

FaultyOnWrite(c, n, rest, stop) ==
  /\ c \in write_watch
  /\ c \in writing
  /\ n \in 0 .. Len(write_buf[c])
  /\ wire' = [wire EXCEPT ![c] = @ \o SubSeq(write_buf[c], 1, n)]
  /\ write_buf' = [write_buf EXCEPT ![c] = rest]
  /\ IF stop
     THEN write_watch' = write_watch \ {c} /\ writing' = writing \ {c}
     ELSE UNCHANGED <<write_watch, writing>>
  /\ UNCHANGED <<refVars, open, read_watch, tasks, budget, accepted, upcalls, spoilt, misuse>>

FaultyOnWriteKeepsWatching(c, n) == FaultyOnWrite(c, n, Rest(c, n), FALSE)

FaultyOnWriteStopsEarly(c, n) == FaultyOnWrite(c, n, Rest(c, n), n > 0)

(* OnFileCanWriteWithoutBlocking and OnWrite; n = 0 stands for any result  *)
(* of send() that is not positive, which is only logged.                   *)
OnWrite(c, n) ==
  /\ c \in write_watch
  /\ c \in writing
  /\ n \in 0 .. Len(write_buf[c])
  /\ wire' = [wire EXCEPT ![c] = @ \o SubSeq(write_buf[c], 1, n)]
  /\ write_buf' = [write_buf EXCEPT ![c] = SubSeq(@, n + 1, Len(@))]
  /\ IF n > 0 /\ n = Len(write_buf[c])
     THEN write_watch' = write_watch \ {c} /\ writing' = writing \ {c}
     ELSE UNCHANGED <<write_watch, writing>>
  /\ UNCHANGED <<refVars, open, read_watch, tasks, budget, accepted, upcalls, spoilt, misuse>>

RunTask == RunOnCreated \/ RunSendInternal2

Flush(c) == \E n \in 1 .. Len(write_buf[c]) : OnWrite(c, n)

Next ==
  \/ RunTask
  \/ \E c \in Conn : Create(c) \/ DropLocal(c)
  \/ \E c \in Conn : ReadData(c) \/ ReadClose(c)
  \/ \E c \in Conn : \E n \in 0 .. Len(write_buf[c]) : OnWrite(c, n)
  \/ \E t \in Thread, c \in Conn : DropRef(t, c)
  \/ \E t \in Thread, c \in Conn, d \in Payload : SendData(t, c, d)

Spec == Init /\ [][Next]_vars

(* The pump runs every posted task, and the peer of a connection keeps     *)
(* reading, so that a watched socket with unsent bytes is served.          *)
Fairness == WF_vars(RunTask) /\ \A c \in Conn : WF_vars(Flush(c))

FairSpec == Spec /\ Fairness

-----------------------------------------------------------------------------
(* Every variable stays in its range.                                      *)
TypeOK ==
  /\ obj \in [Conn -> {"none", "live", "freed"}]
  /\ refs \in [Conn -> Nat]
  /\ local \in SUBSET Conn
  /\ holds \in [Thread -> SUBSET Conn]
  /\ open \in SUBSET Conn
  /\ read_watch \in SUBSET Conn
  /\ write_watch \in SUBSET Conn
  /\ writing \in SUBSET Conn
  /\ write_buf \in [Conn -> Seq(Byte \cup {Garbage})]
  /\ tasks \in Seq(Task)
  /\ budget \in 0 .. MaxSends
  /\ accepted \in [Conn -> Seq(Byte)]
  /\ wire \in [Conn -> Seq(Byte \cup {Garbage})]
  /\ upcalls \in [Conn -> Seq({"new", "data", "closed"})]
  /\ spoilt \in SUBSET Conn
  /\ careless \in SUBSET (Thread \X Conn)
  /\ dangling \in SUBSET (Thread \X Conn)

(* DCHECK(remaining <= data_len) of SendInternal: what is left of the data *)
(* is a part of the data.                                                  *)
RemainingWithinData == spoilt = {}

(* Up to the first byte from outside the data, s is the beginning of a.    *)
Clean(s, a) ==
  \A i \in 1 .. Len(s) :
    (\A j \in 1 .. i : s[j] # Garbage) => i <= Len(a) /\ s[i] = a[i]

(* What the kernel took followed by what write_buf_ still has is exactly   *)
(* what was given to SendInternal, in that order, as long as the socket is *)
(* open and no direct send() of it failed: direct sends never overtake     *)
(* buffered bytes, and no byte is lost, repeated or made up between        *)
(* send(), write_buf_ and OnWrite.  The peer of a closed one has seen the  *)
(* beginning of that stream.  A failed send() puts bytes in that were      *)
(* never sent (RemainingWithinData), and this is all it does: what the     *)
(* peer reads before them is still the beginning of the stream.            *)
StreamIntegrity ==
  /\ \A c \in open \ spoilt : wire[c] \o write_buf[c] = accepted[c]
  /\ \A c \in Conn \ spoilt : /\ Len(wire[c]) <= Len(accepted[c])
                              /\ wire[c] = SubSeq(accepted[c], 1, Len(wire[c]))
  /\ \A c \in spoilt : Clean(wire[c], accepted[c])

(* The write watcher of an open connection is armed exactly while there is *)
(* something to write: bytes never wait unwatched, and the level-triggered *)
(* watcher never spins on an empty buffer.                                 *)
WatchedWhileUnsent ==
  \A c \in open : /\ c \in write_watch <=> write_buf[c] # <<>>
                  /\ c \in write_watch <=> c \in writing

(* The delegate of a connection hears OnNewConnection first and once, then *)
(* OnDataReceived, then OnConnectionClosed once, and nothing after it.     *)
UpcallOrder ==
  \A c \in Conn :
    upcalls[c] \in {<<>>, <<"new">>, <<"new", "data">>, <<"new", "closed">>,
                    <<"new", "data", "closed">>}

(* The reference count is the number of pointers there are: the engine's   *)
(* (from Create to Close), the acceptor's and those of the threads; so the *)
(* object is freed exactly once, by the last of them.                      *)
Engaged(c) == obj[c] = "live" /\ c \in open

RefsCountOwners ==
  \A c \in Conn :
    /\ refs[c] = (IF Engaged(c) THEN 1 ELSE 0) + (IF c \in local THEN 1 ELSE 0)
                   + Cardinality({t \in Thread : c \in holds[t]})
    /\ obj[c] = "live" <=> refs[c] > 0

(* The pump never calls back into a freed object or a closed socket.       *)
WatchersOnLiveOnly ==
  \A c \in read_watch \cup write_watch : obj[c] = "live" /\ c \in open

(* OnCreated finds its IOHandler alive, and a SendInternal2 posted with    *)
(* Unretained(this) finds it freed only if the thread that posted it let   *)
(* go of its own reference first: not through the engine's Close, the      *)
(* acceptor or another thread.                                             *)
TasksFindObject ==
  /\ \A i \in DOMAIN tasks : tasks[i].op = "OnCreated" => obj[tasks[i].conn] = "live"
  /\ dangling \subseteq careless

(* An IOHandler lives exactly as long as somebody may still use it: the    *)
(* threads that count references, the pump that calls back, and the posted *)
(* tasks of threads that keep their reference until those have run.        *)
ObjectLifetime == RefsCountOwners /\ WatchersOnLiveOnly /\ TasksFindObject

(* Bytes the kernel did not take at once are all taken later, unless the   *)
(* connection is closed.                                                   *)
UnsentIsFlushed ==
  \A c \in Conn : write_buf[c] # <<>> ~> (write_buf[c] = <<>> \/ c \notin open)
=============================================================================
