# zutils in TLA+

A verification project for the core of zutils, a C++ server library: the
message loop and its pump, timers, TCP connections, the server with its reactor
threads, the client that connects and reconnects, the buffers and packet codecs on
top of them, the database connection pool and the MySQL connection it lends. Every definition that stands for code is listed in
`PROJECT.json` under `map`, with the lines it models. This file explains what
the parts are, what is checked about them, and why the checks mean something.

Paths below are relative to `src/zutils/`.

## 1. The system and its parts

| Part | State it keeps | Operations | Talks to |
|---|---|---|---|
| message pump and loop (`net/message_loop/message_pump_libevent2.*`, `base/message_loop/*`, `base/pending_task.cc`) | incoming queue and its lock, work queue, delayed queue, wakeup pipe, `keep_running_`, `processed_io_events_`, `delayed_work_time_`, `recent_time_` | post, delayed post, run tasks, poll, wait, wake up, quit, destroy | every thread posts to it; it calls the watchers of descriptors |
| connection (`net/engine/io_handler.*`) | socket, two watchers, `write_wait_state_`, `read_buf_`, `write_buf_`, a reference count | Create, OnCreated, Read, SendData, SendInternal, OnWrite, Close, the destructor | made by server or client; calls the delegate; posts to its loop |
| server and acceptor (`net/engine/tcp_server.*`, `tcp_acceptor.*`) | listening socket, its watcher | Create, accept, hand a connection to a loop | reactor pool, connection |
| client and connector (`net/engine/tcp_client.*`, `tcp_connector.*`) | `connect_state_`, `connector_`, `io_handler_`, a watcher, the address | Connect, DisConnect, ReConnect (now or delayed), OnConnected, DoClose | loop, connection, socket helpers |
| network buffer (`net/base/io_buffer.*`) | a vector and two indices | Write, ReadFd, Retrieve, Prepend, Unwrite, Shrink, integer reads and writes | connection, codecs |
| packet codecs (`net/codec/*`) | none of their own: what is left of a packet stays in `read_buf_` | OnDataReceived, SendPacket, header layout and parsing | connection below, delegate above |
| HTTP codec (`net/http/*`) | the parser's context per connection | OnDataReceived | as the other codecs, plus a vendored parser |
| reactor threads and pool (`net/engine/reactor_thread*.cc`, `base/threading/thread.cc`) | threads, their loops, `started_`, the next index | Start, GetNextMessageLoop, Shutdown | loops, server |
| database connection pool (`db/conn_pool_manager.*`) | slots with a state, `conned_pointer_`, a lock | Initialize, GetFreeConnection, SetFreeConnection, Shutdown, the scoped handle | database drivers |
| MySQL driver (`db/mysql`) | the library's connection `my_`, a transaction on the server | Query, Execute, ExecuteInsertID, transactions, SafeQuery, BuildConnection | pool above, client library below |
| SQLite driver (`db/sqlite`) | the library's | Open, query | pool |
| timers (`base/timer/*`) | a timer and its task, each with a pointer to the other, the two run times | Start, Stop, Reset, the task's Run, both destructors | posts to the loop, calls the user's closure |
| timer manager (`base2/timer_manager.*`) | a map from id to timer | SetTimer, KillTimer, handle_timeout, Destroy | timers, its delegate |
| IOBuffer2 and byte streams (`base2/*`) | a buffer and a cursor | read and write | packet headers |
| message PDUs (`message_pdu/*`) | registered factories | serialise, parse | codecs |
| daemon, configuration, Lua engine, pcap utilities | | start-up, file parsing, bindings | |
| Chromium's base, gtest, libevent, tinyxml, ... | | vendored | |

What is hard here, part by part:

* **Loop.** Threads post while the loop is anywhere in its round; the poster
  decides by `was_empty` whether to write the wakeup pipe, the pipe may be
  full, the flag that a wakeup was seen is cleared in one place of the round,
  and delayed tasks wait in a second queue compared with a cached clock. Correct
  means: no post is ever forgotten, no task runs twice, early or out of order, a
  quit ends the loop, and destruction does not pull the pump from under a
  poster.
* **Connection.** Objects are made on one thread, served on another, sent to from
  a third, and freed by whoever drops the last reference; the kernel takes sends
  in parts. Correct means: the byte stream is what was given to it, in order;
  unsent bytes are watched; callbacks come in order; nothing is called after it
  is freed.
* **Client.** State is checked on the caller's thread and changed by a task; a
  connect completes later, or fails and is retried by a timer. Correct means: one
  attempt at a time, its completion cannot be missed, no socket is forgotten, a
  wanted connection is made in the end.
* **Buffer.** Index arithmetic with moves and resizes at exact boundaries.
  Correct means: it is a byte sequence, and its memory is bounded.
* **Codecs.** TCP cuts the stream anywhere. Correct means: whole packets, in
  order, and a connection that is closed only for a reason.
* **Server.** One thread starts others and waits for each, accepts, hands over
  connections by posting, and at the end stops and joins the others while their
  queues are full. Correct means: no accepted connection is dropped on the way, the
  load is shared, no thread outlives the pool, Shutdown returns.
* **Timers.** A timer that is stopped or set later leaves its task in the loop and
  may use it again; either object may go first. Correct means: no pointer dangles,
  and the closure runs once per Start, not early, never after Stop.
* **MySQL connection.** A lost connection is replaced, and the statement repeated,
  inside the call; the functions that do so call each other. Correct means: what a
  caller was told is true, and every call returns.
* **Pool.** Threads compete for slots, any `Open` may fail. Correct means:
  exclusive leases and no lost connection.

`PROJECT.json` lists each hazard at its line under `hazards`, with the properties
that would catch it, or a note on why none does.

## 2. Modules

```
ConnLease    <-- ConnPool                           abstract lease / pool
MySQLDatabase                                       a reconnecting connection and its server
                 ConnPool, MySQLDatabase <-- MCDatabase, DatabaseProofs
ByteDeque    <-- IOBuffer <-- IOBufferProofs        abstract deque / buffer / proofs
MessagePump  <-- MessagePumpProofs                  the loop every connection runs on
Alarm        <-- Timer, TimerManager                abstract alarm / its two implementations,
                   both over TimerObjects           which share the objects and the loop's tasks
                 Timer, TimerManager <-- TimerProofs
IOHandler    <-- MCIOHandler, IOHandlerProofs       connections
TCPServer    <-- TCPServerProofs                    server, acceptor, reactor pool, threads
TCPClient    <-- TCPClientProofs                    client and connector
Codec        <-- MCCodec, CodecProofs               the three packet codecs
```

`ConnLease`, `ByteDeque` and `Alarm` are abstract specifications: what the pool, the
buffer and a timer promise, without slots, indices or tasks.
`ConnPool!ImplementsLease` and `IOBuffer!ImplementsDeque` are refinements checked by
TLC and proved; `Timer!ImplementsAlarm` and `TimerManager!ImplementsAlarms` are
checked by TLC, with the fairness of `Alarm`, so that they also say that what is due
rings. That both implement `Alarm` without its fairness is proved as well.

In every module an action is a whole handler: what the code does between two
points at which another thread can interfere. Where a lock is held or everything
runs on the loop's thread, that is the whole function; where it is not, the
function is cut at the point that matters (`Push` and `Wake` of a post). The pool's
specification is `PoolSpec`, `PoolInit` and `PoolNext`, and its variables `poolVars`, because
`DatabaseProofs` and `MCDatabase` extend it together with `MySQLDatabase`.

Definitions called `Faulty...` are plausible mistakes in the code, a guard
dropped, an index off by one, a reset forgotten. They take no part in the
specification. Each stands before the definition it would replace; putting it in
that place makes TLC report the property `PROJECT.json` names with it under
`mutants`. They are there to show that each property can fail.

### ConnPool (db/conn_pool_manager)

`conn_pool` has the state of each slot, `conned_pointer` is `conned_pointer_`,
`opened` records which connections really are open, `db_conn[h]` is the pointer
in the handle (`ScopedPtr_DatabaseConnection`) `h`. `Initialize` may have any
subset of its eager opens fail; `Get` is the constructor and every accessor that
finds a NULL pointer; `Release` is `release()` and the destructor. `Shutdown`
takes no lock in the code and its comment makes the caller wait until all
connections are back, so it is enabled only then. The pool hands the driver's object on
as a pointer and shares no state with it; `MCDatabase` therefore gives TLC the behaviours
in which either the pool moves or the driver behind one connection does, and every
property is about one of them.

### IOHandler (net/engine/io_handler)

One loop, several connections, several application threads. Reference counts
are counted as the code does (`AddRefs`, `ReleaseTo`), with `local` the pointer in
`TCPServer::OnCreateConnection` and `holds` the pointers the application keeps. A
task or a descriptor callback is one step, for the loop is a single thread; other
threads only post and count references. `SendInternal` keeps its arithmetic:
`nwrote` is a `uint32`, so a failing `send` becomes `Wrap - 1` and `remaining`
becomes one more than the data. `accepted`, `wire` and `upcalls` are histories.
`send()` may fail at any time, on an open socket (EAGAIN of a full kernel buffer) as on a
closed one, and a thread may let go of its pointer at any time; nothing in the code rules
either out, and both are hazards. Three histories record when they strike. `spoilt` has
the connections on which a direct send failed with the socket open, so that `remaining` exceeded
the data and bytes from outside it (`Garbage`) went into `write_buf_`; that there are none is
`RemainingWithinData`, the DCHECK of the code, and the run `io_handler_eagain` shows it to
fail. `careless` has the threads that let go of a connection with a task of theirs still
queued, `dangling` those whose task then ran on a freed object.

The passing run's properties hold with both. `StreamIntegrity` says that wire and buffer
together are exactly what was given to `SendInternal` on every connection that is not spoilt, and
of a spoilt one that the peer reads the beginning of the stream up to the first byte
from outside the data. `ObjectLifetime` puts together that the count is the number of owners,
that only live objects are watched, that `OnCreated` finds its object, and that only
a thread that let go too early leaves a task that finds it freed.

### TCPClient (net/engine/tcp_client, tcp_connector)

`connect_state`, `connector`, `io_handler` and `watched` are the fields;
`sock` is the kernel's view of each descriptor, and descriptors are reused once
closed. `IOHandler::Create` runs `OnCreated` inline here because the client's loop is
the current one, so a refusal by the delegate closes the handler before
`OnCreateConnection` stores it; `Refused` is that path. `Careful` says whether the
application calls only while nothing is pending, `MayRefuse` whether its delegate may
refuse a connection. A socket whose connect failed stays "failed": the code
closes it only if there is a handler. Once that has happened to every descriptor
(`Exhausted`), `socket()` fails and the retries go on in vain, so `WantedIsConnected`
promises a connection unless it has. `Delete` is the destructor. It is enabled on the
loop's thread once the application was told that the connection it asked for is closed
(`quiet`); there is no other moment at which it could know that nothing is posted, for
a failed attempt tells the delegate nothing and its timer cannot be cancelled.

### TCPServer (net/engine/tcp_server, tcp_acceptor, reactor_thread_pool, base/threading/thread)

`pc` and `i` say where the main thread is in `Create`, `Pool::Start`, `Pool::Shutdown`
or its loop; `thread[r]` where a reactor's `ThreadMain` is. Start's wait for the
startup event, the new thread's setting of `message_loop_`, its signal and its loop are
steps of their own, and so are StopSoon and Join of each thread, so that accepting
cannot fall in between on the main thread but tasks of the reactors can. A loop is its
queue and the `QuitWhenIdle` flag; `MessagePump` has the rest of it. `AcceptForPool` is
the whole of `OnCreateConnection`, with a connection "lost" where the code would use a
loop that is not there, and `ThreadExit` loses what is still queued; that neither ever
happens is `EveryAcceptedIsAnnounced`. `load` and `late` are histories.

### TimerObjects, Timer, TimerManager (base/timer, base2/timer_manager)

`TimerObjects` has an operator for each member function of `base::Timer` and of
`BaseTimerTaskInternal`, from state to state, and the loop's steps: running a due task
and being destroyed. `Timer` makes actions of them for a user who constructs, starts,
resets, stops and deletes a timer as he likes; `TimerManager` composes them as its
functions do: `SetTimer` constructs and starts, a ring erases the map's entry and so
destructs the timer whose task is running. Both run user code last, so that calls
made from a callback are further steps. `TimeTicks()` is 0 and the clock starts at 1,
which is what the code's comparisons with a delay of zero rely on. Due tasks run in
any order. `bell` toggles at each ring, so that a ring is a visible step of `Alarm`
without a counter.

### MySQLDatabase (db/mysql)

`stack` is the call stack, a frame per `Execute` (with `SafeQuery` inlined; `Query` and
`ExecuteInsertID` differ in what they fetch) or `BuildConnection`; the server may
drop the connection between any two steps, and `QueryLost` loses it after the statement
was run and before the answer. `LibraryReconnects` is what `MYSQL_OPT_RECONNECT` makes
the client library do by itself. `db` and `pending` are the server's; `believes`,
`broken`, `durable`, `undone`, `resent` and `unsettled` record what users were told.
BuildConnection's option call on a null `my_` sets `crashed`.

### IOBuffer (net/base/io_buffer)

`size`, `cell`, `reader_index`, `writer_index`, cell by cell, `Blank` where nobody
wrote. `MakeSpace` grows or moves exactly as the code decides; `ReadFd` fills the
vector, then the stack buffer, then writes the rest. `call` is the operation of
the last step and its argument. `ByteDeque` has the same variable and an action for each
operation, so that refining it means that each call does to the readable bytes what that
operation, with that argument, is to do, and not merely something a deque could do. Integer operations are
`Write`, `Retrieve` and `Prepend` of their width, except
`ReadLittleEndianInt16`, an action of its own: it takes its two bytes and then retrieves
two more, so both modules say openly that it removes four.
`Retrieve`, `ReadLittleEndianInt16` (four bytes must be there), `Unwrite` and `Prepend` have the
code's DCHECKs as guards: the callers in the repository keep to them.

### MessagePump (net/message_loop, base/message_loop)

`pc` says where `MessagePumpLibevent2::Run` is; one step per call it makes, so a post
can fall between any two. `lock` is held from a poster's `Push` to its `Wake`, as
`AddToIncomingQueue` holds `incoming_queue_lock_`. `Dispatch` is one
`event_base_loop` with something ready: `OnWakeup` reads one byte and breaks out of
libevent's loop, so any subset of the other ready descriptors may be left. Tasks
are plain, or call `QuitNow` or `QuitWhenIdle`. In `PopDelayed` the code compares the
new task's closure, not the task, with the top of the queue; two tasks with
the same closure reschedule the pump too, and `again` allows for that. Nested
loops, observers and histograms are left out, and so are the 100 rounds
`~MessageLoop` gives up after: no bound here reaches them.

### Codec (net/codec)

`codec` says which of LengthHeader, ZNet and TeamTalk the behaviour is about. Bytes are
digits below `Radix` and length fields have two of them, so that every boundary
(the limit, one more, a negative length, less than a header) exists in a small
instance. `Read` takes any number of the bytes in flight; each turn of
`OnDataReceived`'s loop is a step (`BadHeader`, `Deliver`, `Incomplete`); the
delegate answers -1, 0 or 1. `LengthHeaderCodec` goes on to the next packet; ZNet
and TeamTalk return after one, so packets that came in one read wait for the next
read, and are lost if the connection closes instead. No text of the repository promises
otherwise, so `NothingLostAtClose` and `SentIsDelivered` are about LengthHeader. Its length
is an `int32`: `AsInt32` gives the field its sign, and of the foreign
lengths of the run one is over the limit and one is negative. ZNet reads the version and
compares it with nothing, so it takes any; that it should not is `VersionChecked`, which the
run `codec_version` shows to fail. LengthHeader is modelled with its default header length.

## 3. Passing runs

| Run | Bounds | What it shows |
|---|---|---|
| `database` | pool: 4 handles, 4 slots, 2 eager, any Open fails; driver: 2 writes, 2 transactions, 2 lost connections, any statement or connect may fail | `StatesTellTruth`: a slot is Busy exactly while held, and only opened slots are offered; refines `ConnLease`, that is, leases are exclusive. What users were told is true unless the connection was replaced within the transaction; a write is repeated only if its answer was lost; no transaction is left open for the next user; `my_` is null in a library call only if the connection was lost while being set up; calls return |
| `io_handler` | 1 connection, 2 threads, 3 sends of up to 2 bytes, each taken whole, in part or failing, 3 queued tasks, pointers dropped at any time | the stream the peer sees is intact and in order unless a direct send failed, and then up to where it failed; the write watch matches the backlog, callbacks in order, lifetimes (`ObjectLifetime`), unsent bytes are flushed |
| `tcp_server` | 3 reactors, 4 clients, 1 failing accept, any thread fails to start, destructor at any time | no accepted connection lost, even when the server is deleted right after; load within one; no thread outlives the pool and only the main loop's connections call a deleted server; Shutdown returns; who is in the backlog is served |
| `tcp_client` | 4 descriptors, 7 calls, 5 asynchronous failures, 2 tasks and timers, the delegate may refuse, destructor | one attempt; the state says what sockets, watcher and handler are; no stray socket; nothing finds a deleted client; a wanted connection is made unless every descriptor was lost to a failed attempt |
| `io_buffer` | 2 byte values, prepend room 1, initial size 2, calls of up to 2 bytes, 5 unread bytes | memory bounded; refines `ByteDeque` operation by operation, so only written bytes are read, in order, and as many as asked for |
| `message_pump` | 2 threads, 2 posts, delays 0 to 2, clock from 1 to 3, pipe of 1 byte, 2 descriptors that become ready twice | no lost wakeup; every task is somewhere and runs at most once, in turn and not early (`RunsOnceInTurn`); sleeps until the earliest task; the pump outlives posts; tasks run, quits return, ready descriptors are handled |
| `codec` | 3 packets, 4 bodies (one over every limit), foreign versions and length fields, every cut | packets whole, in order and within the limits; closed for a reason; what a LengthHeader peer sends is handed over, and nothing of it is lost when the connection closes without a refusal |
| `timer` | 1 timer (deleted and made again), 3 tasks at once, delays 0 to 2, clock to 4, loop destroyed at any time | `LinksAgree`: the pointers of timers and tasks agree and a reused task runs in time; refines `Alarm` with liveness |
| `timer_manager` | 2 ids, 2 timer objects, 3 tasks, delays 0 to 2, clock to 3, manager and loop destroyed at any time | the map owns every timer and none outlives the manager; refines `Alarm` per id with liveness |

Why these bounds are enough for the cases that matter:

* *database*: four slots over two eager ones let the pool grow twice, be full, and have a
  gap where an eager open failed, while another handle releases. Two faults lose a connection
  and then the one that replaces it, also while it is set up; the second write or
  transaction is a later user's. The proofs remove the bounds.
* *io_handler*: a direct send taken in part, a second one that must queue behind it,
  and a posted one that comes after a close all fit in three sends, and so do a failed one
  between two good ones; two threads and the acceptor's pointer give every order in which
  references can be dropped. Connections share only the loop's queue; the proofs are for any
  number of them.
* *tcp_server*: three reactors give a thread that failed to start with some before and
  some after it, and four clients make the round robin wrap.
* *tcp_client*: two calls and a timer are enough for two attempts to meet; five
  failures over four descriptors let sockets leak until none is left, and attempts go
  on after that.
* *io_buffer*: with sizes this small every operation hits every boundary: exactly
  full, exactly enough room after a move, one byte short. The proofs remove the bound.
* *message_pump*: two posts are one in each queue, or two delayed ones of which the later
  is due first; a second one that finds the queue not empty and skips the wakeup, or finds the
  pipe of one byte full; two descriptors let `OnWakeup` leave one ready and not the other.
  The safety properties are also proved, without the bounds.
* *codec*: three packets let a read end inside the first, between two, and after several;
  bodies contain digits that could pass for a header, and SendPacket, which checks no
  limit, may exceed it. The proofs remove the bounds.
* *timer*: three tasks are the live one and two abandoned ones; a delay shorter than,
  equal to and longer than the one before is each of Reset's cases.
* *timer_manager*: two ids with two objects reuse each other's objects.

Deadlock checking is off in all runs: each system may legitimately stop (the
application makes no more calls, the pool is shut down, the loop is gone), and the
bounds stop the rest. What must not stop is stated as liveness.

### Fairness

* `IOHandler`: the loop runs every posted task (that is `MessagePump!PostedRuns`), and
  a peer keeps reading, so that a watched socket becomes writable again (weak
  fairness of `Flush`). No thread need send.
* `TCPServer`: threads are scheduled, so that a reactor's loop and a main thread inside
  Start or Shutdown go on; the main loop serves its listening socket. Nobody is obliged
  to connect, to create the server or to delete it. Accepts fail finitely often.
* `TCPClient`: the loop runs what is posted and due; a connect in progress ends, one
  way or the other (the kernel's timeout); and the network does not fail every
  attempt at once for ever while there are descriptors (strong fairness of a ReConnect whose
  `connect` is answered or in progress). Failures after that are bounded by `MaxFails` only,
  which exceeds the number of descriptors they use up.
* `MessagePump`: the loop thread is scheduled, a thread that holds the queue's lock
  finishes its post, time passes. Nobody is obliged to post or to send.
* `Codec`: the loop serves a readable connection.
* `Timer`, `TimerManager`: the loop runs what is due, time passes.
* `MySQLDatabase`: the thread that made a call goes on with it. The connections the
  server drops are finitely many; with a server that drops every connection while it
  is set up, BuildConnection and Execute call each other without end.

## 4. Where code and text disagree

Three runs are expected to report a violation. `PROJECT.json` quotes the lines under
`findings`.

* `tcp_client_twice`: two calls made before the first posted task runs both pass the check of
  `connect_state_`, and the second task makes the client forget the socket of the first,
  though the declaration of `Connect` says that it is thread safe.
* `io_handler_eagain`: `nwrote` is unsigned, so a `send` that fails at the first attempt,
  as it does on a non-blocking socket whose kernel buffer is full, passes the test `nwrote >= 0`;
  `remaining` becomes one more than `data_len`, against the DCHECK below it, and a build
  without DCHECKs appends that many bytes from outside the data.
* `codec_version`: the comment on ZNet's `ParsePacketHeader` says that it returns -1 if the
  version is wrong; the test is commented out, and a packet of any version is handed over.

The following were met while modelling. The modules contain them as the code has them,
without a run of their own:

* A thread that drops its pointer after `SendData` leaves a task that runs on a freed
  `IOHandler` once the connection has closed (`Unretained(this)`): `careless` and `dangling`
  in `IOHandler`.
* `DisConnect` is refused exactly when there is something to disconnect
  (`TCPClient!DisConnect`).
* After the delegate refused a new connection, the client's state is Connected with a
  closed handler, and neither `Connect` nor `DisConnect` gets out of it
  (`TCPClient!Refused`; hence the exception in `ConnectedMeansOpen`).
* A connection the peer closes is not tried again, only a failed attempt is
  (`TCPClient!PeerCloses`); the socket of a failed attempt is not closed
  (`TCPClient!ConnectError`).
* `CdbConnPoolManager::Initialize` counts, and returns, eager connections whose `Open`
  failed (`ConnPool!Initialize`); a second Initialize would count on from there.
* `ReadLittleEndianInt16` retrieves its two bytes twice, against its name, and needs four
  to be there (`IOBuffer`, `ByteDeque`);
  `PrependLittleEndianInt16` writes big endian.
* `LengthHeaderCodec` keeps only the delegate's last answer; ZNet and TeamTalk lose packets that
  came in one read with another when the connection closes (`Codec`).
* If a server without reactors is deleted, its connections on the main loop still call it,
  and connections open on a reactor when its thread stops are never closed
  (`TCPServer!Upcall`, `TCPServer!ThreadExit`).
* A transaction whose connection was replaced goes on outside any transaction: a write
  before the loss is gone although COMMIT succeeds (`broken` in `MySQLDatabase`, the
  exception in `ToldIsTrue`). BuildConnection may hand a null `my_` to the library.

## 5. Proofs

TLAPS proves the following for every value of the constants that satisfies the named
`ASSUME` of the module: the types of the bounds, NULL values that are not what they
stand beside, and where the code gives a reason for it a little more (payloads short
enough for `uint32` in `IOHandler`; 0 among the delays of timers, a new timer's delay
and what stands for one that is not positive; MySQL writes that are none of the
statements for transactions and set-up; in `Codec` bodies short enough for the `uint32` in
which `Packet` keeps their length, and `BadLength` fields that really are outside the
limits, which is what they stand for). Each module proves that its inductive invariant
holds initially and is kept by every action, one lemma per action, and derives the
properties from it.

**DatabaseProofs, the pool** (`PoolInvariant`, `PoolImplementsLease`). The inductive
invariant is the type invariant, `ExclusiveLease`, `StatesTellTruth` (`BusyIffHeld` and
`ConnectedIffUsable`) and `StageAgrees` (nothing is counted before Initialize,
nothing is held outside its lifetime). None of them is inductive alone:
`SetFreeConnection` makes a slot Idle whatever it was, so exclusiveness needs "Busy
iff held", which needs exclusiveness to know that the returned slot has no other
holder; and a new slot is free of holders only because it was never opened. The step
is one case per action; refinement maps `GetIdle` and `GetNew` to `Acquire`,
`Release` to `Return`, everything else to a stutter.

**IOBufferProofs** (`BufferInvariant`, `BufferImplementsDeque`). The invariant says
that the buffer is well formed (indices in order, cells typed, readable cells written),
that the vector is at least as large as the prepend room the indices are reset to, and the
two bounds. Lemmas say what `Resized`, `Moved`, `MakeSpace`, `EnsureWritableBytes`,
`Put` and `Written` do to well-formedness and to the view (the readable bytes as a
sequence): the first four leave the view alone, the last two append. Each
action then is the step of `ByteDeque` that has its name and argument. `CapacityBounded` is proved with the
invariant: growth happens only when readable bytes and the call do not fit, which
bounds the new size by the prepend room, the unread bytes and the largest single call; no
slack is left. The bound is on unread bytes, not on the life of the connection.

**MessagePumpProofs** (`NoWakeupIsLost`, `WaitsForEarliest`, `PumpLivesThroughPost`,
`TasksRunOnceInTurn`). `NoLostWakeup` speaks only of a waiting loop; its strengthening
`WakeupOnItsWay` follows the wakeup from the pipe, through the flag `OnWakeup`
sets, into `did_work`, until the loop is back at `DoWork`. With it go
`WorkLeftIsKnown` (tasks in the loop's own queue imply `did_work` until the round is
over), `FlagIsConsumed`, `TimerIsSet` (nothing changes the timer between
`DoDelayedWork` and the wait) and `PumpOutlivesPost`. The proof covers any number of
threads and descriptors, any pipe capacity above zero, any delays. `RunsOnceInTurn` has
an invariant of its own, `HInv`: every task posted is in one place (`Accounted`), the two
queues are in the order of posting and everything that left them was posted earlier
(`FirstInFirstOut`), the cached clock is behind the real one. The order of what ran is not
inductive with these, because a delayed task that is still waiting may be older than
one that ran; `DelayedWaits` adds that it is then due later. That the top of the
delayed queue is its earliest task uses that a set of naturals has a least
element, by well-foundedness.

**IOHandlerProofs** (`UpcallsInOrder`, `UnsentIsWatched`, `StreamIsWhole`, `LivesWhileUsed`).
One invariant serves all four. For each connection (`ConnOk`): an unborn one is
untouched, the count is the number of owners (`RefsOk`), the delegate's calls so far match
the state (`UpcallsSoFar`), watchers are on open sockets, the write watcher is armed while
there are unsent bytes, and what the kernel took and what is buffered make up what was
accepted, on a spoilt one up to the first byte from outside (`Stream`). For each queued task (`TaskFits`): `OnCreated` finds its connection
as it was made, `SendInternal2` finds the reference its poster keeps or the poster on record as careless, and a connection
has one `OnCreated` (`CreatedOnce`). Without `TaskFits` neither the order of the calls
nor the life of the object is inductive, for both depend on what a task will find when
it runs. All four hold whatever `send()` answers and whatever threads do with their pointers.

**TCPClientProofs** (`OneAttemptAtATime`, `StateIsTrue`, `NoSocketIsLost`,
`DeletedIsUnreachable`, each for a `Careful` caller). What makes the properties inductive is
`OneThing`: a queued task, a pending retry, an attempt and a connection exclude each other.
`InvalidIsClean` gives a retry nothing to overwrite, and `QuietIsOver` says that the
delegate's OnConnectionClosed really is the end, so that a client deleted then has nothing
pointing at it. A caller who is not careful breaks `OneThing` first: that is the run
`tcp_client_twice`.

**TCPServerProofs** (`AcceptedAreAnnounced`, `LoadIsBalanced`, `ThreadsEndWithPool`).
`Progress` ties the main thread's place in Start, its loop or Shutdown to the threads it has
started; `StartedThreads` and `LoopsAgree` tie a thread's stage to its loop and
queue: what QUIT follows is all there will be, since accepting is over when Shutdown
begins. With `ConnsAgree` (where a connection is announced is where it was posted)
nothing is lost. `RoundRobin` is the strengthening of `Balanced`: every reactor below
`next_reactor` is exactly one ahead of the others.

**TimerProofs** (`LinksAlwaysAgree`, `TimerIsAnAlarm`; `MapOwnsItsTimers`, `ManagerIsAnAlarm`,
`NoTaskRunsEarly`). The invariant is `TypeOK` and
`Linked`, `LinksAgree` with the two directions of the pointers and the running timer's due
time kept apart, for in the middle of Reset and of the task's Run a running timer has no
task. Lemmas say what each member function does to such a state: `Construct`,
`PostNewScheduledTask`, `AbandonScheduledTask`, `Stop`, `Start`, `Reset`, `Destruct`, a task's
run, the loop's end. Each action then keeps the invariant and is a step of `Alarm` or a
stutter, so `Timer` implements `Alarm!Spec`: never early, never after Stop, once per
setting or period.

The manager's timers are the same objects, so its proofs stand on the same lemmas:
`TimerProofs` extends `TimerManager` and has `Timer` as the instance `Plain`, and
`SameObjects` says that both speak of the same objects. The manager's invariant adds to
`Linked` that a timer exists exactly when some id has it (`Owned`), that no two ids
share one, which `MapOwnsTimers` says only while the loop lives but `KillTimer` needs
after its end as well, and `OneShot`: no timer repeats, and each is due when its task
is. From `OneShot` follows `NoTaskRunsEarly`, why `TimerManager` has no counterpart of
`RunEarly`; without it the model might leave out a step of the code.

**DatabaseProofs, the MySQL connection** (`ToldTheTruth`, `NoneLeftOpen`, `NullAfterLossOnly`,
`RepeatedAtMostOnce`, and the type invariant, `DriverTypes`). `LInv` relates
three views of one connection: the calls in progress, the server's session and what users
were told. Its core is `SessionFits`: the server has a transaction open exactly when
the user believes to be in one on the connection that began it, and it holds the writes
the user was told of. `CallFits` keeps the statement in progress apart from what was
already told, so that a statement repeated after a loss cannot falsify the record, and
`Nested` says that all calls but the outermost are `BuildConnection` or its two SET
statements, which change no data. The depth of the recursion is not bounded. `NullAfterLossOnly`
needs a second invariant, `SetUpFits`: until a connection is lost during its set-up the
calls nest at most three deep, and `my_` is live from the connect to the option call.
`RepeatedAtMostOnce` needs a third, `CountFits`: how often the write of the call in progress is on the server
depends on where the call is. Before it sends, not at all; before its second attempt, once
if the answer to the first was lost and not at all otherwise; after that, as often as the
property allows. Occurrences are counted as the number of places at which a sequence has the
write, so that appending one to `db` or `pending`, committing and rolling back are facts
about cardinalities and need no induction over the sequence.

**CodecProofs** (`StreamIsDelivered`, `CodecClosesForAReason`, `CloseLosesNothing`, and the type
invariant, `CodecTypes`). `DeliveredAsSent` looks back at what was delivered and says nothing
of the bytes still to come. What is missing is `Aligned`: `read_buf \o wire`, that is, what was
read and not yet retrieved and what is in flight, is the encodings of the packets sent and
not yet delivered, one after the other. To say so without recursion over the packets,
`Cuts` asks for a function from packet numbers to offsets: it starts at 0, ends at the length of
the stream, grows from one packet to the next by the length of its encoding, and each
encoding is found at its offset. A packet sent extends the function at its end (`CutsAppend`),
a read moves bytes within the stream and leaves it alone, and a packet retrieved shifts it
(`CutsRest`). Since the first packet is at offset 0, the header at the front of
`read_buf_` is that of the first undelivered packet (`FrontPacket`), a header that is accepted
says the length of that packet (`FrontAccepted`), and what `Deliver` takes out is that packet
and no more (`TakenOut`). Header layouts enter through `HeaderFacts` and `DigitsFacts`
only. `ClosedForAReason` needs, besides, that `ret` is nonzero only if the delegate refused
(`RetOK`), and that a header that is refused belongs to a packet that is not `Proper`:
a body's bytes are never read as a header. `CloseLosesNothing` adds
`Drained`: between two calls of LengthHeader's `OnDataReceived` no whole packet is in `read_buf_`. At
the end of the stream an undelivered packet would, by `Aligned`, be at the front of the
buffer, whole, and accepted (`ProperAccepted`), against `Drained` (`EndLosesNothing`).

Only model-checked: liveness and what rests on fairness, which is outside the prover. These are
`UnsentIsFlushed`, `WantedIsConnected`, `PostedRuns`, `QuitReturns`, `ReadyIsHandled`,
`SentIsDelivered`, `ShutdownReturns`, `BacklogIsServed`, `CallsReturn`, and the fairness of
`Alarm` in `ImplementsAlarm` and `ImplementsAlarms`. Every invariant and every action property of
a passing run is stated by a theorem.

## 6. Not modelled

* Vendored code (Chromium's base apart from the loop, its queue, threads and timers; gtest,
  gmock, libevent, http_parser, tinyxml, zlib, Lua): third party, and all but a few
  per cent of the repository's lines. libevent's dispatch and the kernel's sockets appear
  as the code uses them.
* HTTP request codec: its control is http_parser's. What is left in zutils assigns fields
  in callbacks, and `done_`, which decides whether a request is handed over, is never
  initialised, so that a faithful model satisfies no property worth stating.
* IOBuffer2 and byte streams: sequential, not used by any connection. Once it is more
  than half full, `WriteRaw` grows to less than it needs (`io_buffer2.cc:361`).
* Message PDUs: serialisation of fields, and a registry filled at start-up.
* SQLite driver: each operation is one library call on a local file.
* Daemon, configuration, Lua bindings, pcap utilities: sequential start-up, parsing or
  bindings without a state machine of their own.
* Byte values and byte order of the buffer's integers, timestamps and addresses of
  connections, logging.
* Windows branches.

## 7. Plan

Done, in this order: pool and its proofs; connection; client; buffer and its proofs;
message pump and its proofs; codecs; timers and timer manager; server with acceptor,
reactor pool and threads; MySQL connection; the client's destructor.

Then the proofs of timers, timer manager, server, client, connections, the order of
tasks, the MySQL connection and the codecs. All invariants and action properties of the
passing runs are proved.

Worth modelling still: `IOHandler` with `Codec`, packets end to end over partial sends.
`StreamIsWhole` and `StreamIsDelivered` are its two halves: the first says that the bytes
given to `SendInternal` arrive in order unless a direct send failed, which the second
assumes of `wire`.
