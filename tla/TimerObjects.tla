---------------------------- MODULE TimerObjects ----------------------------
(***************************************************************************)
(* base/timer/timer.{h,cc}: the base::Timer objects of one thread and the  *)
(* BaseTimerTaskInternal objects they posted to its message loop.  A timer *)
(* and its task point at each other; the task is owned by the loop, which  *)
(* deletes it after it ran or when the loop itself goes.  A timer that is  *)
(* stopped or set later keeps its task: the task finds out when it runs.   *)
(*                                                                         *)
(* Each operator here is what one member function does to a state s, the   *)
(* record of the timers and of the tasks; the modules that use it make     *)
(* actions of them.  Due tasks run in any order: the order of the message  *)
(* loop is the subject of MessagePump.                                     *)
(***************************************************************************)
EXTENDS Naturals

CONSTANTS
  Timers,      (* the base::Timer objects there may be                      *)
  Tasks,       (* the BaseTimerTaskInternal objects there may be at once    *)
  UserTasks,   (* the closures a timer may be given                         *)
  Delays,      (* the delays asked for, 0 standing for those not positive   *)
  MaxTime,     (* bound on the clock                                        *)
  NULL

ASSUME TimerAssumption ==
  /\ Tasks \subseteq Nat
  /\ Delays \subseteq Nat /\ 0 \in Delays
  /\ MaxTime \in Nat
  /\ NULL \notin Timers \cup Tasks \cup UserTasks

VARIABLES
  now,     (* TimeTicks::Now(); TimeTicks() is 0, before every time         *)
  up,      (* the thread has a message loop                                 *)
  tm,      (* the timers                                                    *)
  tasks    (* the tasks; one that is not queued does not exist              *)

NoObject == [alive |-> FALSE, is_repeating |-> FALSE, retain_user_task |-> FALSE,
             is_running |-> FALSE, scheduled_task |-> NULL, scheduled_run_time |-> 0,
             desired_run_time |-> 0, delay |-> 0, user_task |-> NULL]

NoTask == [queued |-> FALSE, timer |-> NULL, run_time |-> 0]

TimerRecord ==
  [alive : BOOLEAN, is_repeating : BOOLEAN, retain_user_task : BOOLEAN,
   is_running : BOOLEAN, scheduled_task : Tasks \cup {NULL},
   scheduled_run_time : Nat, desired_run_time : Nat, delay : Nat,
   user_task : UserTasks \cup {NULL}]

TaskRecord == [queued : BOOLEAN, timer : Timers \cup {NULL}, run_time : Nat]

InitObjects ==
  /\ now = 1
  /\ up = TRUE
  /\ tm = [t \in Timers |-> NoObject]
  /\ tasks = [k \in Tasks |-> NoTask]

State == [tm |-> tm, tasks |-> tasks]

Become(s) == tm' = s.tm /\ tasks' = s.tasks

\* Now() + d, or TimeTicks() when the task is to run at once.
RunTime(d) == IF d > 0 THEN now + d ELSE 0

\* The allocator hands out the lowest object that does not exist.
Unused(s, k) == /\ ~s.tasks[k].queued
                /\ \A j \in Tasks : ~s.tasks[j].queued => k <= j

\* The two constructors: with no task yet, or with one, retained, and its delay.
Construct(s, t, retain, repeat) ==
  [s EXCEPT !.tm[t] = [NoObject EXCEPT !.alive = TRUE, !.retain_user_task = retain,
                                       !.is_repeating = repeat]]

ConstructWith(s, t, d, u, repeat) ==
  [s EXCEPT !.tm[t] = [NoObject EXCEPT !.alive = TRUE, !.retain_user_task = TRUE,
                         !.is_repeating = repeat, !.delay = d, !.user_task = u]]

SetTaskInfo(s, t, d, u) ==
  [s EXCEPT !.tm[t] = [@ EXCEPT !.delay = d, !.user_task = u]]

PostNewScheduledTask(s, t, k, d) ==
  [tm |-> [s.tm EXCEPT ![t] = [@ EXCEPT !.is_running = TRUE, !.scheduled_task = k,
                                       !.scheduled_run_time = RunTime(d),
                                       !.desired_run_time = RunTime(d)]],
   tasks |-> [s.tasks EXCEPT ![k] = [queued |-> TRUE, timer |-> t, run_time |-> RunTime(d)]]]

FaultyAbandonForgets(s, t) ==
  [s EXCEPT !.tm[t] = [@ EXCEPT !.scheduled_task = NULL]]

AbandonScheduledTask(s, t) ==
  LET k == s.tm[t].scheduled_task IN
  IF k = NULL THEN s
  ELSE [tm |-> [s.tm EXCEPT ![t] = [@ EXCEPT !.scheduled_task = NULL]],
        tasks |-> [s.tasks EXCEPT ![k] = [@ EXCEPT !.timer = NULL]]]


\* The user task a timer that is stopped still has.
Kept(o) == IF o.retain_user_task THEN o.user_task ELSE NULL

FaultyStopKeepsRunning(s, t) ==
  [s EXCEPT !.tm[t] = [@ EXCEPT !.user_task = Kept(s.tm[t])]]

Stop(s, t) ==
  [s EXCEPT !.tm[t] = [@ EXCEPT !.is_running = FALSE, !.user_task = Kept(s.tm[t])]]

StopAndAbandon(s, t) == AbandonScheduledTask(Stop(s, t), t)

\* ~Timer: after it the object does not exist.
Destruct(s, t) ==
  [StopAndAbandon(s, t) EXCEPT !.tm[t] = NoObject]

(***************************************************************************)
(* Reset: the task already posted serves when it runs no later than the    *)
(* timer is now to ring; otherwise it is abandoned and another one posted. *)
(***************************************************************************)
NeedsTask(s, t) == \/ s.tm[t].scheduled_task = NULL
                   \/ RunTime(s.tm[t].delay) < s.tm[t].scheduled_run_time

Reset(s, t, k) ==
  IF NeedsTask(s, t)
    THEN PostNewScheduledTask(AbandonScheduledTask(s, t), t, k, s.tm[t].delay)
    ELSE [s EXCEPT !.tm[t] = [@ EXCEPT !.is_running = TRUE,
                                       !.desired_run_time = RunTime(s.tm[t].delay)]]

Start(s, t, k, d, u) == Reset(SetTaskInfo(s, t, d, u), t, k)

(***************************************************************************)
(* The loop runs task k (BaseTimerTaskInternal::Run) and deletes it.       *)
(* Detached is the state in which RunScheduledTask of its timer begins.    *)
(***************************************************************************)
Due(k) == up /\ tasks[k].queued /\ tasks[k].run_time <= now

Detached(k) ==
  [tm |-> [t \in Timers |-> IF t = tasks[k].timer
                            THEN [tm[t] EXCEPT !.scheduled_task = NULL] ELSE tm[t]],
   tasks |-> [tasks EXCEPT ![k] = NoTask]]

\* The timer was set later in the meantime, and that time has not come.
MustWait(t) == /\ tm[t].desired_run_time > tm[t].scheduled_run_time
               /\ tm[t].desired_run_time > now

Rings(k, t) == /\ Due(k)
               /\ tasks[k].timer = t
               /\ tm[t].is_running
               /\ ~MustWait(t)

\* What RunScheduledTask leaves before it runs the user's task.
AfterRing(k, t, j) ==
  IF tm[t].is_repeating THEN PostNewScheduledTask(Detached(k), t, j, tm[t].delay)
                     ELSE Stop(Detached(k), t)

\* Task k was abandoned, or its timer stopped: nothing but its end.
RunIdle(k) ==
  /\ Due(k)
  /\ \A t \in Timers : tasks[k].timer = t => ~tm[t].is_running
  /\ Become(Detached(k))

\* The continuation task that spans the remaining time.
RunEarly(k, t, j) ==
  /\ Due(k)
  /\ tasks[k].timer = t
  /\ tm[t].is_running
  /\ MustWait(t)
  /\ Unused(Detached(k), j)
  /\ Become(PostNewScheduledTask(Detached(k), t, j, tm[t].desired_run_time - now))

(***************************************************************************)
(* ~MessageLoop deletes the tasks left, and each one's destructor stops    *)
(* the timer it still points at.                                           *)
(***************************************************************************)
LoopGone ==
  [tm |-> [t \in Timers |-> IF \E k \in Tasks : tasks[k].queued /\ tasks[k].timer = t
             THEN [tm[t] EXCEPT !.is_running = FALSE, !.scheduled_task = NULL,
                                !.user_task = Kept(tm[t])]
             ELSE tm[t]],
   tasks |-> [k \in Tasks |-> NoTask]]

Tick == now < MaxTime /\ now' = now + 1

-----------------------------------------------------------------------------
ObjectsTypeOK ==
  /\ now \in Nat \ {0}
  /\ up \in BOOLEAN
  /\ tm \in [Timers -> TimerRecord]
  /\ tasks \in [Tasks -> TaskRecord]

(***************************************************************************)
(* A timer and its task point at each other or neither does; the task is   *)
(* in the loop's queue; nothing points at a timer that was deleted; a      *)
(* running timer has a task, which runs no later than the timer is to      *)
(* ring.  (What makes the raw pointers of timer.cc safe, and why reusing a *)
(* task is sound.)                                                         *)
(***************************************************************************)
LinksAgree ==
  /\ \A t \in Timers : LET o == tm[t] IN
       /\ o.scheduled_task # NULL =>
            /\ o.alive
            /\ tasks[o.scheduled_task] =
                 [queued |-> TRUE, timer |-> t, run_time |-> o.scheduled_run_time]
       /\ o.is_running => /\ o.scheduled_task # NULL
                          /\ o.scheduled_run_time <= o.desired_run_time
       /\ o.is_running => o.user_task # NULL
  /\ \A k \in Tasks : tasks[k].timer # NULL => tm[tasks[k].timer].scheduled_task = k
=============================================================================
