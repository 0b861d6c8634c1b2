------------------------------ MODULE MessagePump ------------------------------
(***************************************************************************)
(* The event loop every connection runs on: MessagePumpLibevent2           *)
(* (net/message_loop), the MessageLoop that is its delegate and the        *)
(* IncomingTaskQueue other threads post to (base/message_loop).            *)
(*                                                                         *)
(* A posting thread holds incoming_queue_lock_ from the push to the write  *)
(* of the wakeup pipe (Push, then Wake); the loop thread takes the lock    *)
(* only to swap the incoming queue with its own (Reload).  Everything else *)
(* of the loop is one step per call Run makes, so posts fall between any   *)
(* two of them.  A task that posts does so as any thread would: its Push   *)
(* falls between the step that ran it and the next.                        *)
(*                                                                         *)
(* Left out: nested loops (run_depth_ is 1, every task is nestable),       *)
(* observers, histograms.  Which descriptors are watched is module         *)
(* IOHandler's; here a descriptor becomes ready and its handler clears it. *)
(* The definitions named Faulty... are plausible mistakes in the code;     *)
(* each stands before the definition it would replace.                     *)
(***************************************************************************)
EXTENDS Integers, Sequences, FiniteSets

CONSTANTS
  Thread,     (* threads that post                                          *)
  NoOne,      (* incoming_queue_lock_ is free                               *)
  Fd,         (* watched descriptors                                        *)
  PipeCap,    (* bytes the wakeup pipe holds; then write returns EAGAIN     *)
  Delay,      (* delays tasks are posted with; 0 is PostTask                *)
  MaxPosts,   (* bound: tasks posted                                        *)
  MaxArrivals,(* bound: times a descriptor becomes ready                    *)
  MaxTime     (* bound: the clock                                           *)

ASSUME MessagePumpAssumption ==
  /\ NoOne \notin Thread
  /\ PipeCap \in Nat \ {0}
  /\ Delay \subseteq Nat
  /\ MaxPosts \in Nat
  /\ MaxArrivals \in Nat
  /\ MaxTime \in Nat \ {0}

(* What a task does to the loop: nothing, MessageLoop::QuitWhenIdle (what  *)
(* Thread::StopSoon posts), or MessageLoop::QuitNow.                       *)
TaskKind == {"Plain", "QuitWhenIdle", "QuitNow"}

(* PendingTask: sequence_num, delayed_run_time (0 is the null TimeTicks).  *)
PendingTask == [id : 1 .. MaxPosts, due : 0 .. MaxTime, kind : TaskKind]

LoopStep == {"DoWork", "Poll", "DoDelayedWork", "DoIdleWork", "Wait",
             "Blocked", "Sleeping", "Exited", "Destroying", "Gone"}

VARIABLES
  incoming,          (* incoming_queue_                                     *)
  lock,              (* who posts: holder of incoming_queue_lock_           *)
  was_empty,         (* the holder's local was_empty                        *)
  posted,            (* next_sequence_num_                                  *)
  alive,             (* IncomingTaskQueue::message_loop_ is not NULL        *)
  work,              (* work_queue_                                         *)
  delayed,           (* delayed_work_queue_                                 *)
  recent_time,       (* recent_time_                                        *)
  delayed_work_time, (* delayed_work_time_, 0 is null                       *)
  pc,                (* where Run is                                        *)
  did_work,          (* Run's local did_work                                *)
  processed_io,      (* processed_io_events_                                *)
  keep_running,      (* keep_running_                                       *)
  quit_when_idle,    (* run_loop_->quit_when_idle_received_                 *)
  pipe,              (* bytes in the wakeup pipe                            *)
  io,                (* descriptors that are ready                          *)
  arrivals,          (* how many times one became ready                     *)
  now,               (* TimeTicks::Now()                                    *)
  ran,               (* history: the tasks run, and when                    *)
  dropped            (* history: ids of tasks ~MessageLoop deleted unrun    *)

queue == <<incoming, lock, was_empty, posted, alive>>
timing == <<recent_time, delayed_work_time>>
quitting == <<keep_running, quit_when_idle>>
world == <<io, arrivals, now>>
vars == <<queue, work, delayed, timing, pc, did_work, processed_io, quitting,
          pipe, world, ran, dropped>>

Init ==
  /\ incoming = <<>> /\ lock = NoOne /\ was_empty = FALSE /\ posted = 0
  /\ alive = TRUE
  /\ work = <<>> /\ delayed = {}
  /\ recent_time = 0 /\ delayed_work_time = 0
  /\ pc = "DoWork" /\ did_work = FALSE /\ processed_io = FALSE
  /\ keep_running = TRUE /\ quit_when_idle = FALSE
  /\ pipe = 0 /\ io = {} /\ arrivals = 0 /\ now = 1
  /\ ran = <<>> /\ dropped = {}

--------------------------------------------------------------------------------
(* Posting threads.                                                        *)

(* MessagePumpLibevent2::ScheduleWork: one byte, or EAGAIN when full.      *)
Written(p) == IF p < PipeCap THEN p + 1 ELSE p

(* IncomingTaskQueue::CalculateDelayedRuntime.                             *)
DelayedRuntime(delay) == IF delay > 0 THEN now + delay ELSE 0

(* AddToIncomingQueue up to the push.  A post to a loop that is gone is    *)
(* refused and changes nothing.                                            *)
Push(t) ==
  /\ lock = NoOne
  /\ alive
  /\ posted < MaxPosts
  /\ \E delay \in Delay, kind \in TaskKind :
       /\ now + delay <= MaxTime
       /\ incoming' = Append(incoming, [id   |-> posted + 1,
                                        due  |-> DelayedRuntime(delay),
                                        kind |-> kind])
  /\ was_empty' = (incoming = <<>>)
  /\ lock' = t
  /\ posted' = posted + 1
  /\ UNCHANGED <<alive, work, delayed, timing, pc, did_work, processed_io,
                 quitting, pipe, world, ran, dropped>>

(* The test of was_empty is inverted.                                      *)
FaultyWakeOnlyIfFilled(t) ==
  /\ lock = t
  /\ pipe' = IF ~was_empty THEN Written(pipe) ELSE pipe
  /\ lock' = NoOne
  /\ UNCHANGED <<incoming, was_empty, posted, alive, work, delayed, timing, pc,
                 did_work, processed_io, quitting, world, ran, dropped>>

(* The rest of PostPendingTask: MessageLoop::ScheduleWork(was_empty), then *)
(* the lock is released.                                                   *)
Wake(t) ==
  /\ lock = t
  /\ pipe' = IF was_empty THEN Written(pipe) ELSE pipe
  /\ lock' = NoOne
  /\ UNCHANGED <<incoming, was_empty, posted, alive, work, delayed, timing, pc,
                 did_work, processed_io, quitting, world, ran, dropped>>

--------------------------------------------------------------------------------
(* The loop thread: MessagePumpLibevent2::Run and its delegate.            *)

(* Run looks at keep_running_ after every call it makes.                   *)
Continue(step) == pc' = IF keep_running' THEN step ELSE "Exited"

(* MessagePumpLibevent2::Quit.                                             *)
Quit ==
  /\ keep_running' = FALSE
  /\ pipe' = Written(pipe)

(* MessageLoop::RunTask.                                                   *)
RunTask(task) ==
  /\ ran' = Append(ran, [id |-> task.id, due |-> task.due, at |-> now])
  /\ IF task.kind = "QuitNow"
     THEN Quit
     ELSE UNCHANGED <<keep_running, pipe>>
  /\ quit_when_idle' = (quit_when_idle \/ task.kind = "QuitWhenIdle")

(* DoWork finds work_queue_ empty: swap the queues, or report no work.     *)
Reload ==
  /\ pc = "DoWork" /\ work = <<>> /\ lock = NoOne
  /\ incoming' = <<>>
  /\ work' = incoming
  /\ IF incoming # <<>>
     THEN UNCHANGED <<pc, did_work>>
     ELSE did_work' = FALSE /\ pc' = "Poll"
  /\ UNCHANGED <<lock, was_empty, posted, alive, delayed, timing, processed_io,
                 quitting, pipe, world, ran, dropped>>

(* Of two tasks with the same time the later one is on top.                *)
FaultyBeforeTiesReversed(a, b) == a.due < b.due \/ (a.due = b.due /\ a.id >= b.id)

(* The order of delayed_work_queue_: PendingTask::operator<.               *)
Before(a, b) == a.due < b.due \/ (a.due = b.due /\ a.id <= b.id)

Top(q) == CHOOSE a \in q : \A b \in q : Before(a, b)

(* DoWork on a delayed task.  Whether the new task "is" the top of the     *)
(* queue is asked of the closure, so a second task with the top's closure  *)
(* reschedules the pump as well ("again").                                 *)
PopDelayed ==
  /\ pc = "DoWork" /\ work # <<>> /\ Head(work).due > 0
  /\ work' = Tail(work)
  /\ delayed' = delayed \cup {Head(work)}
  /\ \E again \in BOOLEAN :
       delayed_work_time' = IF again \/ Top(delayed') = Head(work)
                            THEN Head(work).due ELSE delayed_work_time
  /\ UNCHANGED <<queue, recent_time, pc, did_work, processed_io, quitting,
                 pipe, world, ran, dropped>>

(* DoWork on any other task: run it and return true.                       *)
PopRun ==
  /\ pc = "DoWork" /\ work # <<>> /\ Head(work).due = 0
  /\ work' = Tail(work)
  /\ RunTask(Head(work))
  /\ did_work' = TRUE
  /\ Continue("Poll")
  /\ UNCHANGED <<queue, delayed, timing, processed_io, world, dropped>>

(* event_base_loop on ready descriptors: their handlers run in some order. *)
(* OnWakeup reads one byte and breaks out, which may leave others for the  *)
(* next call.                                                              *)
Dispatch ==
  \E handled \in SUBSET io :
    /\ pipe > 0 \/ handled = io
    /\ io' = io \ handled
    /\ pipe' = IF pipe > 0 THEN pipe - 1 ELSE pipe

(* processed_io_events_ is cleared, and not looked at.                     *)
FaultyPollForgetsFlag ==
  /\ pc = "Poll"
  /\ IF pipe > 0 \/ io # {} THEN Dispatch ELSE UNCHANGED <<pipe, io>>
  /\ processed_io' = FALSE
  /\ UNCHANGED <<did_work, quitting>>
  /\ Continue("DoDelayedWork")
  /\ UNCHANGED <<queue, work, delayed, timing, arrivals, now, ran, dropped>>

(* event_base_loop(EVLOOP_NONBLOCK), then did_work |= processed_io_events_.*)
Poll ==
  /\ pc = "Poll"
  /\ IF pipe > 0 \/ io # {} THEN Dispatch ELSE UNCHANGED <<pipe, io>>
  /\ did_work' = (did_work \/ processed_io \/ pipe > 0 \/ io # {})
  /\ processed_io' = FALSE
  /\ UNCHANGED quitting
  /\ Continue("DoDelayedWork")
  /\ UNCHANGED <<queue, work, delayed, timing, arrivals, now, ran, dropped>>

(* DoDelayedWork reads the clock only when the next task looks early.      *)
RecentTime(next) == IF next > recent_time THEN now ELSE recent_time

(* The next delayed task may run.                                          *)
Due == delayed # {} /\ Top(delayed).due <= RecentTime(Top(delayed).due)

(* The time to sleep until is only cleared, never set.                     *)
FaultyNothingDueKeepsTime ==
  /\ pc = "DoDelayedWork" /\ ~Due
  /\ recent_time' = IF delayed = {} THEN 0 ELSE RecentTime(Top(delayed).due)
  /\ delayed_work_time' = IF delayed = {} THEN 0 ELSE delayed_work_time
  /\ UNCHANGED <<queue, work, delayed, did_work, processed_io, quitting, pipe,
                 world, ran, dropped>>
  /\ Continue(IF did_work THEN "DoWork" ELSE "DoIdleWork")

(* DoDelayedWork without a due task.                                       *)
NothingDue ==
  /\ pc = "DoDelayedWork" /\ ~Due
  /\ recent_time' = IF delayed = {} THEN 0 ELSE RecentTime(Top(delayed).due)
  /\ delayed_work_time' = IF delayed = {} THEN 0 ELSE Top(delayed).due
  /\ UNCHANGED <<queue, work, delayed, did_work, processed_io, quitting, pipe,
                 world, ran, dropped>>
  /\ Continue(IF did_work THEN "DoWork" ELSE "DoIdleWork")

(* DoDelayedWork with one.                                                 *)
RunDue ==
  /\ pc = "DoDelayedWork" /\ Due
  /\ recent_time' = RecentTime(Top(delayed).due)
  /\ delayed' = delayed \ {Top(delayed)}
  /\ delayed_work_time' = IF delayed' # {} THEN Top(delayed').due
                                           ELSE delayed_work_time
  /\ RunTask(Top(delayed))
  /\ did_work' = TRUE
  /\ Continue("DoWork")
  /\ UNCHANGED <<queue, work, processed_io, world, dropped>>

(* The pump is not quit, only told to stop waiting.                        *)
FaultyIdleForgetsQuit ==
  /\ pc = "DoIdleWork"
  /\ pipe' = IF quit_when_idle THEN Written(pipe) ELSE pipe
  /\ pc' = "Wait"
  /\ UNCHANGED <<queue, work, delayed, timing, did_work, processed_io,
                 quitting, world, ran, dropped>>

(* DoIdleWork, whose false is assigned to did_work.                        *)
Idle ==
  /\ pc = "DoIdleWork"
  /\ IF quit_when_idle THEN Quit ELSE UNCHANGED <<keep_running, pipe>>
  /\ UNCHANGED quit_when_idle
  /\ Continue("Wait")
  /\ UNCHANGED <<queue, work, delayed, timing, did_work, processed_io, world,
                 ran, dropped>>

(* Before event_base_loop(EVLOOP_ONCE): with a timer, without one, or not  *)
(* at all because the time has passed.                                     *)
Wait ==
  /\ pc = "Wait"
  /\ \/ /\ delayed_work_time = 0
        /\ pc' = "Blocked"
        /\ UNCHANGED delayed_work_time
     \/ /\ delayed_work_time > now
        /\ pc' = "Sleeping"
        /\ UNCHANGED delayed_work_time
     \/ /\ delayed_work_time \in 1 .. now
        /\ pc' = "DoWork"
        /\ delayed_work_time' = 0
  /\ UNCHANGED <<queue, work, delayed, recent_time, did_work, processed_io,
                 quitting, pipe, world, ran, dropped>>

(* Only the wakeup pipe ends the wait.                                     *)
FaultyReturnOnlyOnWakeup ==
  /\ pc \in {"Blocked", "Sleeping"}
  /\ pipe > 0
  /\ Dispatch
  /\ processed_io' = TRUE
  /\ pc' = "DoWork"
  /\ UNCHANGED <<queue, work, delayed, timing, did_work, quitting, arrivals,
                 now, ran, dropped>>

(* event_base_loop(EVLOOP_ONCE) returns because a descriptor was ready.    *)
Return ==
  /\ pc \in {"Blocked", "Sleeping"}
  /\ pipe > 0 \/ io # {}
  /\ Dispatch
  /\ processed_io' = TRUE
  /\ pc' = "DoWork"
  /\ UNCHANGED <<queue, work, delayed, timing, did_work, quitting, arrivals,
                 now, ran, dropped>>

(* ... or because the timer fired (timer_callback).                        *)
Timeout ==
  /\ pc = "Sleeping" /\ now >= delayed_work_time
  /\ pc' = "DoWork"
  /\ UNCHANGED <<queue, work, delayed, timing, did_work, processed_io,
                 quitting, pipe, world, ran, dropped>>

Ids(q) == {q[i].id : i \in DOMAIN q}

(* ~MessageLoop after Run: DeletePendingTasks, ReloadWorkQueue,            *)
(* DeletePendingTasks, until the reload brings nothing.                    *)
DeletePendingTasks ==
  /\ pc = "Exited" /\ lock = NoOne
  /\ dropped' = dropped \cup Ids(incoming) \cup Ids(work)
                        \cup {a.id : a \in delayed}
  /\ incoming' = <<>> /\ work' = <<>> /\ delayed' = {}
  /\ pc' = IF incoming = <<>> THEN "Destroying" ELSE "Exited"
  /\ UNCHANGED <<lock, was_empty, posted, alive, timing, did_work,
                 processed_io, quitting, pipe, world, ran>>

(* The lock is not taken to clear message_loop_.                           *)
FaultyDestroyUnlocked ==
  /\ pc = "Destroying"
  /\ alive' = FALSE
  /\ pc' = "Gone"
  /\ UNCHANGED <<incoming, lock, was_empty, posted, work, delayed, timing,
                 did_work, processed_io, quitting, pipe, world, ran, dropped>>

(* ... and WillDestroyCurrentMessageLoop, after which the pump is deleted. *)
WillDestroy ==
  /\ pc = "Destroying" /\ lock = NoOne
  /\ alive' = FALSE
  /\ pc' = "Gone"
  /\ UNCHANGED <<incoming, lock, was_empty, posted, work, delayed, timing,
                 did_work, processed_io, quitting, pipe, world, ran, dropped>>

--------------------------------------------------------------------------------
(* The kernel and the clock.                                               *)
Arrive(f) ==
  /\ f \notin io /\ arrivals < MaxArrivals
  /\ io' = io \cup {f}
  /\ arrivals' = arrivals + 1
  /\ UNCHANGED <<queue, work, delayed, timing, pc, did_work, processed_io,
                 quitting, pipe, now, ran, dropped>>

Tick ==
  /\ now < MaxTime
  /\ now' = now + 1
  /\ UNCHANGED <<queue, work, delayed, timing, pc, did_work, processed_io,
                 quitting, pipe, io, arrivals, ran, dropped>>

Loop ==
  \/ Reload \/ PopDelayed \/ PopRun
  \/ Poll \/ NothingDue \/ RunDue \/ Idle \/ Wait
  \/ Return \/ Timeout
  \/ DeletePendingTasks \/ WillDestroy

Next ==
  \/ \E t \in Thread : Push(t) \/ Wake(t)
  \/ Loop
  \/ \E f \in Fd : Arrive(f)
  \/ Tick

Spec == Init /\ [][Next]_vars

(* The loop thread is scheduled, a thread that holds the lock finishes its *)
(* post, time passes.  Nobody is obliged to post or to send.               *)
FairSpec ==
  /\ Spec
  /\ WF_vars(Loop)
  /\ \A t \in Thread : WF_vars(Wake(t))
  /\ WF_vars(Tick)

--------------------------------------------------------------------------------
(* Every variable stays in its range; in particular the bytes written to   *)
(* the wakeup pipe never exceed what it holds.                             *)
TypeOK ==
  /\ incoming \in Seq(PendingTask) /\ work \in Seq(PendingTask)
  /\ delayed \subseteq PendingTask
  /\ lock \in Thread \cup {NoOne} /\ was_empty \in BOOLEAN
  /\ posted \in 0 .. MaxPosts /\ alive \in BOOLEAN
  /\ recent_time \in 0 .. MaxTime /\ delayed_work_time \in 0 .. MaxTime
  /\ pc \in LoopStep
  /\ did_work \in BOOLEAN /\ processed_io \in BOOLEAN
  /\ keep_running \in BOOLEAN /\ quit_when_idle \in BOOLEAN
  /\ pipe \in 0 .. PipeCap
  /\ io \subseteq Fd /\ arrivals \in 0 .. MaxArrivals
  /\ now \in 1 .. MaxTime
  /\ ran \in Seq([id : 1 .. MaxPosts, due : 0 .. MaxTime, at : 1 .. MaxTime])
  /\ dropped \subseteq 1 .. MaxPosts

(* Run never waits in libevent while a complete post sits in the incoming  *)
(* queue and no byte is in the pipe to end the wait, and it never waits    *)
(* with tasks left in its own queue.                                       *)
NoLostWakeup ==
  pc \in {"Blocked", "Sleeping"} =>
    /\ work = <<>>
    /\ incoming # <<>> /\ lock = NoOne => pipe > 0

(* Every accepted task is in exactly one place: waiting in one of the      *)
(* three queues, run, or deleted by ~MessageLoop; none runs twice.         *)
NothingLost ==
  \A i \in 1 .. posted :
    Cardinality({j \in DOMAIN incoming : incoming[j].id = i})
      + Cardinality({j \in DOMAIN work : work[j].id = i})
      + Cardinality({a \in delayed : a.id = i})
      + Cardinality({j \in DOMAIN ran : ran[j].id = i})
      + Cardinality({i} \cap dropped) = 1

(* The FIFO promise of MessageLoop::PostTask, and what of it extends to    *)
(* PostDelayedTask: of two tasks, the one posted first runs first unless   *)
(* it asked for a later time.                                              *)
RunsInOrder ==
  \A i, j \in DOMAIN ran :
    ran[i].id < ran[j].id /\ ran[i].due <= ran[j].due => i < j

(* No delayed task runs before its time, although DoDelayedWork compares   *)
(* with a cached clock.                                                    *)
NotEarly == \A i \in DOMAIN ran : ran[i].due <= ran[i].at

(* On its way through the incoming, the work and the delayed queue a task  *)
(* is neither lost nor repeated, and it runs in its turn and at its time.  *)
RunsOnceInTurn == NothingLost /\ RunsInOrder /\ NotEarly

(* Whenever Run waits, the timer it waits with is that of the earliest     *)
(* delayed task; without a timer it waits only if there is none.           *)
SleepsUntilDue ==
  pc \in {"Blocked", "Sleeping"} =>
    delayed_work_time = IF delayed = {} THEN 0 ELSE Top(delayed).due

(* A posting thread holds the lock only while the loop exists: ~MessageLoop *)
(* never deletes the pump between a thread's push and its write of the     *)
(* wakeup pipe.                                                            *)
PumpOutlivesPost == lock # NoOne => alive

(* Every accepted task is eventually run, unless the loop is told to quit. *)
PostedRuns ==
  \A i \in 1 .. MaxPosts :
    posted = i ~> (i \in Ids(ran) \/ pc = "Gone")

(* Once a quit task ran (Thread::Stop joins on this) Run returns and the   *)
(* loop is destroyed.                                                      *)
QuitReturns == (quit_when_idle \/ ~keep_running) ~> pc = "Gone"

(* A ready descriptor is eventually handled while the loop runs.           *)
ReadyIsHandled ==
  \A f \in Fd : f \in io ~> (f \notin io \/ pc = "Gone")
=============================================================================
