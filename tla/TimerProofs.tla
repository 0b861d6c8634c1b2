------------------------------ MODULE TimerProofs ------------------------------
(***************************************************************************)
(* Proofs about Timer and TimerManager, for any number of timers, tasks    *)
(* and ids, any delays and any clock: the pointers between the timers and  *)
(* their tasks always agree, the map of the manager owns its timers, and   *)
(* what the timers and the ids do is what Alarm promises.                  *)
(*                                                                         *)
(* The first part is about the operators of TimerObjects: what each member *)
(* function of base::Timer does to a state in which the pointers agree.    *)
(* In the middle of Reset and of RunScheduledTask a running timer has no   *)
(* task, so what is asked of the timer at hand (RunsInTime) is kept apart  *)
(* from what holds of all of them even then (Pointers) and of the others   *)
(* (Others).  The second part goes through the actions of Timer, the third *)
(* through those of TimerManager, on the same lemmas.                      *)
(***************************************************************************)
EXTENDS TimerManager, TLAPS

(* The timers by themselves: here bell belongs to the timers, in           *)
(* TimerManager to the ids.  TimerManager is the module extended here.     *)
Plain == INSTANCE Timer

-----------------------------------------------------------------------------
(* What a state s of the objects may be.                                   *)

StateType == [tm : [Timers -> TimerRecord], tasks : [Tasks -> TaskRecord]]

(* The task of a timer is in the queue, points at it and is due when the   *)
(* timer thinks it is; a timer that has one exists.                        *)
PointsBack(s, t) ==
  s.tm[t].scheduled_task # NULL =>
    /\ s.tm[t].alive
    /\ s.tasks[s.tm[t].scheduled_task] =
         [queued |-> TRUE, timer |-> t, run_time |-> s.tm[t].scheduled_run_time]

(* A task points at the timer whose task it is, or at none.                *)
TaskPointsBack(s, k) == s.tasks[k].timer # NULL => s.tm[s.tasks[k].timer].scheduled_task = k

(* A running timer has a user task and a task that is due in time for it.  *)
RunsInTime(s, t) ==
  s.tm[t].is_running =>
    /\ s.tm[t].scheduled_task # NULL
    /\ s.tm[t].scheduled_run_time <= s.tm[t].desired_run_time
    /\ s.tm[t].user_task # NULL

(* The two kinds of pointers agree; a delay is one that was asked for.     *)
Pointers(s) == /\ \A t \in Timers : PointsBack(s, t) /\ s.tm[t].delay \in Delays
               /\ \A k \in Tasks : TaskPointsBack(s, k)

(* The timers other than t are as they should be.                          *)
Others(s, t) == \A x \in Timers \ {t} : RunsInTime(s, x)

(* What neither posting nor abandoning a task changes of a timer.          *)
Alike(o, p) == /\ o.alive = p.alive /\ o.is_repeating = p.is_repeating
               /\ o.delay = p.delay /\ o.user_task = p.user_task

(* What holds between the steps of the program.                            *)
Linked(s) == Pointers(s) /\ \A t \in Timers : RunsInTime(s, t)

-----------------------------------------------------------------------------
(* The operators of TimerObjects.                                          *)

LEMMA NoObjectType == NoObject \in TimerRecord /\ NoTask \in TaskRecord
BY TimerAssumption DEF NoObject, NoTask, TimerRecord, TaskRecord

LEMMA RunTimeType == ASSUME NEW d \in Nat, now \in Nat PROVE RunTime(d) \in Nat
BY DEF RunTime

(* The task a timer has: it exists, and belongs to that timer alone.       *)
LEMMA ScheduledTask ==
  ASSUME NEW s \in StateType, NEW x \in Timers, Pointers(s), s.tm[x].scheduled_task # NULL
  PROVE  /\ s.tm[x].scheduled_task \in Tasks
         /\ s.tasks[s.tm[x].scheduled_task].queued
         /\ s.tasks[s.tm[x].scheduled_task].timer = x
         /\ s.tasks[s.tm[x].scheduled_task].run_time = s.tm[x].scheduled_run_time
<1>1. s.tm[x] \in TimerRecord BY DEF StateType
<1>2. s.tm[x].scheduled_task \in Tasks BY <1>1 DEF TimerRecord
<1>3. PointsBack(s, x) BY DEF Pointers
<1>4. QED BY <1>2, <1>3 DEF PointsBack

(* AbandonScheduledTask leaves no pointer between the timer and its task.  *)
LEMMA AbandonOk ==
  ASSUME NEW s \in StateType, NEW t \in Timers, Pointers(s), Others(s, t)
  PROVE  LET r == AbandonScheduledTask(s, t) IN
         /\ r \in StateType
         /\ Pointers(r)
         /\ Others(r, t)
         /\ r.tm[t].scheduled_task = NULL /\ Alike(r.tm[t], s.tm[t])
         /\ \A x \in Timers \ {t} : r.tm[x] = s.tm[x]
         /\ \A k \in Tasks : r.tasks[k].queued = s.tasks[k].queued
<1> DEFINE k == s.tm[t].scheduled_task
           r == AbandonScheduledTask(s, t)
<1> USE TimerAssumption
<1>1. s.tm[t] \in TimerRecord /\ k \in Tasks \cup {NULL} BY DEF StateType, TimerRecord
<1>2. CASE k = NULL
  <2>1. r = s BY <1>2 DEF AbandonScheduledTask
  <2>2. QED BY <1>2, <2>1 DEF Alike
<1>3. CASE k # NULL
  <2>1. r = [tm |-> [s.tm EXCEPT ![t] = [@ EXCEPT !.scheduled_task = NULL]],
             tasks |-> [s.tasks EXCEPT ![k] = [@ EXCEPT !.timer = NULL]]]
    BY <1>3 DEF AbandonScheduledTask
  <2>2. [s.tm[t] EXCEPT !.scheduled_task = NULL] \in TimerRecord BY <1>1 DEF TimerRecord
  <2>3. [s.tasks[k] EXCEPT !.timer = NULL] \in TaskRecord BY <1>1, <1>3 DEF StateType, TaskRecord
  <2>4. s.tm \in [Timers -> TimerRecord] /\ s.tasks \in [Tasks -> TaskRecord] BY DEF StateType
  <2>5. r.tm \in [Timers -> TimerRecord] BY <2>1, <2>2, <2>4
  <2>6. r.tasks \in [Tasks -> TaskRecord] BY <1>1, <1>3, <2>1, <2>3, <2>4
  <2>7. r \in StateType BY <2>1, <2>5, <2>6 DEF StateType
  <2>8. r.tm[t] = [s.tm[t] EXCEPT !.scheduled_task = NULL] BY <2>1 DEF StateType
  <2>9. \A x \in Timers \ {t} : r.tm[x] = s.tm[x] BY <2>1 DEF StateType
  <2>10. \A j \in Tasks : r.tasks[j].queued = s.tasks[j].queued BY <2>1 DEF StateType, TaskRecord
  <2>11. ASSUME NEW x \in Timers PROVE PointsBack(r, x) /\ r.tm[x].delay \in Delays
    <3>1. CASE x = t BY <3>1, <1>1, <2>8 DEF Pointers, PointsBack, TimerRecord
    <3>2. CASE x # t
      <4>1. r.tm[x] = s.tm[x] BY <3>2, <2>9
      <4>2. s.tm[x].scheduled_task # NULL => s.tm[x].scheduled_task \in Tasks \ {k}
        BY <3>2, <1>3, ScheduledTask
      <4>3. \A j \in Tasks \ {k} : r.tasks[j] = s.tasks[j] BY <2>1 DEF StateType
      <4>4. QED BY <4>1, <4>2, <4>3 DEF Pointers, PointsBack
    <3>3. QED BY <3>1, <3>2
  <2>12. \A j \in Tasks : TaskPointsBack(r, j)
    BY <1>1, <1>3, <2>1 DEF Pointers, PointsBack, TaskPointsBack, StateType, TimerRecord, TaskRecord
  <2>13. Others(r, t) BY <2>9 DEF Others, RunsInTime
  <2>14. r.tm[t].scheduled_task = NULL /\ Alike(r.tm[t], s.tm[t])
    BY <1>1, <2>8 DEF Alike, TimerRecord
  <2> HIDE DEF r
  <2>15. QED BY <2>7, <2>9, <2>10, <2>11, <2>12, <2>13, <2>14 DEF Pointers, r
<1>4. QED BY <1>2, <1>3

(* PostNewScheduledTask, for a timer that has no task: the allocator hands *)
(* out an object that no timer points at.                                  *)
LEMMA PostOk ==
  ASSUME NEW s \in StateType, NEW t \in Timers, NEW k \in Tasks, NEW d \in Nat,
         now \in Nat, Pointers(s), Others(s, t), ~s.tasks[k].queued,
         s.tm[t].alive, s.tm[t].scheduled_task = NULL, s.tm[t].user_task # NULL
  PROVE  LET r == PostNewScheduledTask(s, t, k, d) IN
         /\ r \in StateType
         /\ Linked(r)
         /\ r.tm[t].is_running /\ r.tm[t].desired_run_time = RunTime(d)
         /\ r.tm[t].scheduled_run_time = RunTime(d)
         /\ Alike(r.tm[t], s.tm[t])
         /\ \A x \in Timers \ {t} : r.tm[x] = s.tm[x]
<1> DEFINE r == PostNewScheduledTask(s, t, k, d)
<1> USE TimerAssumption
<1>1. RunTime(d) \in Nat BY RunTimeType
<1>2. r = [tm |-> [s.tm EXCEPT ![t] = [s.tm[t] EXCEPT !.is_running = TRUE, !.scheduled_task = k,
                          !.scheduled_run_time = RunTime(d), !.desired_run_time = RunTime(d)]],
           tasks |-> [s.tasks EXCEPT ![k] = [queued |-> TRUE, timer |-> t,
                                             run_time |-> RunTime(d)]]]
   BY DEF PostNewScheduledTask
<1>3. s.tm[t] \in TimerRecord BY DEF StateType
<1>4. r.tm[t] = [s.tm[t] EXCEPT !.is_running = TRUE, !.scheduled_task = k,
                          !.scheduled_run_time = RunTime(d), !.desired_run_time = RunTime(d)]
  <2>1. DOMAIN s.tm = Timers BY DEF StateType
  <2>2. QED BY <1>2, <2>1
<1>5. \A x \in Timers \ {t} : r.tm[x] = s.tm[x] BY <1>2 DEF StateType
<1>6. r \in StateType
  <2>1. r.tm[t] \in TimerRecord BY <1>1, <1>3, <1>4 DEF TimerRecord
  <2>2. QED BY <1>1, <1>2, <2>1, <1>4 DEF StateType, TaskRecord
<1>7. r.tasks[k] = [queued |-> TRUE, timer |-> t, run_time |-> RunTime(d)]
      /\ \A j \in Tasks \ {k} : r.tasks[j] = s.tasks[j]  BY <1>2 DEF StateType
<1> HIDE DEF r
<1>8. /\ r.tm[t].alive /\ r.tm[t].scheduled_task = k
      /\ r.tm[t].scheduled_run_time = RunTime(d) /\ r.tm[t].desired_run_time = RunTime(d)
      /\ r.tm[t].user_task # NULL /\ r.tm[t].delay = s.tm[t].delay
  BY <1>3, <1>4 DEF TimerRecord
<1>9. ASSUME NEW x \in Timers PROVE PointsBack(r, x) /\ r.tm[x].delay \in Delays
  <2>1. CASE x = t BY <2>1, <1>8, <1>7 DEF Pointers, PointsBack
  <2>2. CASE x # t
    <3>1. r.tm[x] = s.tm[x] BY <2>2, <1>5
    <3>2. s.tm[x].scheduled_task # NULL => s.tm[x].scheduled_task \in Tasks \ {k}
        BY ScheduledTask
    <3>3. QED BY <3>1, <3>2, <1>7 DEF Pointers, PointsBack
  <2>3. QED BY <2>1, <2>2
<1>10. ASSUME NEW j \in Tasks PROVE TaskPointsBack(r, j)
  <2>1. CASE j = k BY <2>1, <1>8, <1>7 DEF TaskPointsBack
  <2>2. CASE j # k
    <3>1. r.tasks[j] = s.tasks[j] BY <2>2, <1>7
    <3>2. s.tasks[j].timer \in Timers \cup {NULL} BY DEF StateType, TaskRecord
    <3>3. TaskPointsBack(s, j) BY DEF Pointers
    <3>4. QED BY <3>1, <3>2, <3>3, <1>5 DEF TaskPointsBack
  <2>3. QED BY <2>1, <2>2
<1>11. ASSUME NEW x \in Timers PROVE RunsInTime(r, x)
  <2>1. CASE x = t BY <2>1, <1>1, <1>8 DEF RunsInTime
  <2>2. CASE x # t BY <2>2, <1>5 DEF RunsInTime, Others
  <2>3. QED BY <2>1, <2>2
<1>12. r.tm[t].is_running /\ r.tm[t].desired_run_time = RunTime(d) /\ Alike(r.tm[t], s.tm[t])
  BY <1>3, <1>4 DEF Alike, TimerRecord
<1>13. QED BY <1>5, <1>6, <1>8, <1>9, <1>10, <1>11, <1>12 DEF Linked, Pointers, r

(* Any change of a timer that keeps its task.                              *)
LEMMA UpdateOk ==
  ASSUME NEW s \in StateType, NEW t \in Timers, NEW o \in TimerRecord,
         Pointers(s), Others(s, t), o.delay \in Delays,
         o.scheduled_task = s.tm[t].scheduled_task,
         o.scheduled_task # NULL =>
           o.alive /\ o.scheduled_run_time = s.tm[t].scheduled_run_time
  PROVE  LET r == [s EXCEPT !.tm[t] = o] IN
         /\ r \in StateType
         /\ Pointers(r)
         /\ Others(r, t)
         /\ r.tm[t] = o
         /\ \A x \in Timers \ {t} : r.tm[x] = s.tm[x]
         /\ r.tasks = s.tasks
<1> DEFINE r == [s EXCEPT !.tm[t] = o]
<1>1. s.tm \in [Timers -> TimerRecord] /\ s.tasks \in [Tasks -> TaskRecord] BY DEF StateType
<1>2. r.tm = [s.tm EXCEPT ![t] = o] /\ r.tasks = s.tasks BY DEF StateType
<1>3. r \in StateType BY <1>1, <1>2 DEF StateType
<1>4. r.tm[t] = o BY <1>1, <1>2
<1>5. \A x \in Timers \ {t} : r.tm[x] = s.tm[x] BY <1>1, <1>2
<1> HIDE DEF r
<1>6. ASSUME NEW x \in Timers PROVE PointsBack(r, x) /\ r.tm[x].delay \in Delays
  <2>1. PointsBack(s, x) /\ s.tm[x].delay \in Delays BY DEF Pointers
  <2>2. CASE x = t BY <2>1, <2>2, <1>2, <1>4 DEF PointsBack
  <2>3. CASE x # t
    <3>1. r.tm[x] = s.tm[x] BY <2>3, <1>5
    <3>2. QED BY <2>1, <3>1, <1>2 DEF PointsBack
  <2>4. QED BY <2>2, <2>3
<1>7. ASSUME NEW k \in Tasks PROVE TaskPointsBack(r, k)
  <2>1. TaskPointsBack(s, k) BY DEF Pointers
  <2>2. s.tasks[k].timer \in Timers \cup {NULL} BY <1>1 DEF TaskRecord
  <2>3. QED BY <2>1, <2>2, <1>2, <1>4, <1>5 DEF TaskPointsBack
<1>8. Others(r, t) BY <1>5 DEF Others, RunsInTime
<1>9. QED BY <1>2, <1>3, <1>4, <1>5, <1>6, <1>7, <1>8 DEF Pointers, r

(* Stop: the timer keeps its task and does not run.                        *)
LEMMA StopOk ==
  ASSUME NEW s \in StateType, NEW t \in Timers, Pointers(s), Others(s, t)
  PROVE  LET r == Stop(s, t) IN
         /\ r \in StateType
         /\ Linked(r)
         /\ ~r.tm[t].is_running
         /\ r.tm[t].delay = s.tm[t].delay /\ r.tm[t].is_repeating = s.tm[t].is_repeating
         /\ r.tm[t].scheduled_task = s.tm[t].scheduled_task
         /\ \A x \in Timers \ {t} : r.tm[x] = s.tm[x]
<1> DEFINE o == [s.tm[t] EXCEPT !.is_running = FALSE, !.user_task = Kept(s.tm[t])]
           r == Stop(s, t)
<1>1. s.tm[t] \in TimerRecord BY DEF StateType
<1>2. Kept(s.tm[t]) \in UserTasks \cup {NULL} BY <1>1 DEF TimerRecord, Kept
<1>3. o \in TimerRecord BY <1>1, <1>2 DEF TimerRecord
<1>4. /\ ~o.is_running
      /\ o.delay = s.tm[t].delay /\ o.is_repeating = s.tm[t].is_repeating
      /\ o.scheduled_task = s.tm[t].scheduled_task /\ o.alive = s.tm[t].alive
      /\ o.scheduled_run_time = s.tm[t].scheduled_run_time
  BY <1>1 DEF TimerRecord
<1>5. r = [s EXCEPT !.tm[t] = o] BY DEF Stop
<1>6. o.delay \in Delays /\ (o.scheduled_task # NULL => o.alive)
  BY <1>4 DEF Pointers, PointsBack
<1> HIDE DEF o, r
<1>7. r \in StateType /\ Pointers(r) /\ Others(r, t) /\ r.tm[t] = o
      /\ \A x \in Timers \ {t} : r.tm[x] = s.tm[x]
  BY <1>3, <1>4, <1>5, <1>6, UpdateOk
<1>8. \A x \in Timers : RunsInTime(r, x) BY <1>4, <1>7 DEF Others, RunsInTime
<1>9. QED BY <1>4, <1>7, <1>8 DEF Linked, r

(* The destructor: nothing points at the deleted timer.                    *)
LEMMA DestructOk ==
  ASSUME NEW s \in StateType, NEW t \in Timers, Pointers(s), Others(s, t)
  PROVE  LET r == Destruct(s, t) IN
         /\ r \in StateType
         /\ Linked(r)
         /\ r.tm[t] = NoObject
         /\ \A x \in Timers \ {t} : r.tm[x] = s.tm[x]
<1> DEFINE u == Stop(s, t)
           v == AbandonScheduledTask(u, t)
           r == [v EXCEPT !.tm[t] = NoObject]
<1>1. Destruct(s, t) = r BY DEF Destruct, StopAndAbandon
<1>2. u \in StateType /\ Pointers(u) /\ Others(u, t) /\ \A x \in Timers \ {t} : u.tm[x] = s.tm[x]
  BY StopOk DEF Linked, Others
<1> HIDE DEF u
<1>3. v \in StateType /\ Pointers(v) /\ Others(v, t) /\ \A x \in Timers \ {t} : v.tm[x] = u.tm[x]
  BY <1>2, AbandonOk
<1>4. v.tm[t].scheduled_task = NULL
  BY <1>2, AbandonOk
<1>5. NoObject.scheduled_task = NULL /\ NoObject.delay \in Delays /\ ~NoObject.is_running
  BY TimerAssumption DEF NoObject
<1> HIDE DEF v
<1>6. r \in StateType /\ Pointers(r) /\ Others(r, t) /\ r.tm[t] = NoObject
      /\ \A x \in Timers \ {t} : r.tm[x] = v.tm[x]
  BY <1>3, <1>4, <1>5, UpdateOk, NoObjectType
<1> HIDE DEF r
<1>7. \A x \in Timers : RunsInTime(r, x) BY <1>5, <1>6 DEF Others, RunsInTime
<1>8. QED BY <1>1, <1>2, <1>3, <1>6, <1>7 DEF Linked

(* Reset, whether the task posted earlier serves or another one is posted. *)
LEMMA ResetOk ==
  ASSUME NEW s \in StateType, NEW t \in Timers, NEW k \in Tasks, now \in Nat,
         Pointers(s), Others(s, t), ~s.tasks[k].queued,
         s.tm[t].alive, s.tm[t].user_task # NULL
  PROVE  LET r == Reset(s, t, k) IN
         /\ r \in StateType
         /\ Linked(r)
         /\ r.tm[t].is_running /\ r.tm[t].desired_run_time = RunTime(s.tm[t].delay)
         /\ s.tm[t].scheduled_task = NULL => r.tm[t].scheduled_run_time = RunTime(s.tm[t].delay)
         /\ Alike(r.tm[t], s.tm[t])
         /\ \A x \in Timers \ {t} : r.tm[x] = s.tm[x]
<1> DEFINE d == s.tm[t].delay
           r == Reset(s, t, k)
<1>1. s.tm[t] \in TimerRecord BY DEF StateType
<1>2. d \in Nat /\ d \in Delays BY <1>1 DEF TimerRecord, Pointers
<1>3. RunTime(d) \in Nat BY <1>2, RunTimeType
<1>4. CASE NeedsTask(s, t)
  <2> DEFINE u == AbandonScheduledTask(s, t)
  <2>1. r = PostNewScheduledTask(u, t, k, d) BY <1>4 DEF Reset
  <2>2. u \in StateType /\ Pointers(u) /\ Others(u, t) /\ ~u.tasks[k].queued
        /\ \A x \in Timers \ {t} : u.tm[x] = s.tm[x]
    BY AbandonOk
  <2>3. u.tm[t].scheduled_task = NULL /\ Alike(u.tm[t], s.tm[t]) BY AbandonOk
  <2>4. u.tm[t].alive /\ u.tm[t].user_task # NULL
        /\ u.tm[t].delay = d /\ u.tm[t].is_repeating = s.tm[t].is_repeating
    BY <2>3 DEF Alike
  <2> HIDE DEF u, r, d
  <2>5. r \in StateType /\ Linked(r) /\ \A x \in Timers \ {t} : r.tm[x] = u.tm[x]
    BY <1>2, <2>1, <2>2, <2>3, <2>4, PostOk
  <2>6. /\ r.tm[t].is_running /\ r.tm[t].desired_run_time = RunTime(d)
        /\ r.tm[t].scheduled_run_time = RunTime(d) /\ Alike(r.tm[t], u.tm[t])
    BY <1>2, <2>1, <2>2, <2>3, <2>4, PostOk
  <2>7. QED BY <2>2, <2>3, <2>5, <2>6 DEF r, d, Alike
<1>5. CASE ~NeedsTask(s, t)
  <2> DEFINE o == [s.tm[t] EXCEPT !.is_running = TRUE, !.desired_run_time = RunTime(d)]
  <2>1. r = [s EXCEPT !.tm[t] = o] BY <1>5 DEF Reset
  <2>2. o \in TimerRecord BY <1>1, <1>3 DEF TimerRecord
  <2>3. /\ o.is_running /\ o.desired_run_time = RunTime(d)
        /\ o.delay = d /\ o.is_repeating = s.tm[t].is_repeating
        /\ o.scheduled_task = s.tm[t].scheduled_task /\ o.alive
        /\ o.scheduled_run_time = s.tm[t].scheduled_run_time
        /\ o.user_task = s.tm[t].user_task
    BY <1>1 DEF TimerRecord
  <2>4. s.tm[t].scheduled_task # NULL /\ s.tm[t].scheduled_run_time <= RunTime(d)
    BY <1>1, <1>3, <1>5 DEF NeedsTask, TimerRecord
  <2> HIDE DEF o, r, d
  <2>5. r \in StateType /\ Pointers(r) /\ Others(r, t) /\ r.tm[t] = o
        /\ \A x \in Timers \ {t} : r.tm[x] = s.tm[x]
    BY <1>2, <2>1, <2>2, <2>3, UpdateOk
  <2>6. \A x \in Timers : RunsInTime(r, x) BY <2>3, <2>4, <2>5 DEF Others, RunsInTime
  <2>7. QED BY <2>3, <2>4, <2>5, <2>6 DEF Linked, Alike, r, d
<1>6. QED BY <1>4, <1>5

(* Start is Reset with the new delay and user task.                        *)
LEMMA StartOk ==
  ASSUME NEW s \in StateType, NEW t \in Timers, NEW k \in Tasks, now \in Nat,
         NEW d \in Delays, NEW w \in UserTasks,
         Pointers(s), Others(s, t), ~s.tasks[k].queued, s.tm[t].alive
  PROVE  LET r == Start(s, t, k, d, w) IN
         /\ r \in StateType
         /\ Linked(r)
         /\ r.tm[t].is_running /\ r.tm[t].desired_run_time = RunTime(d)
         /\ s.tm[t].scheduled_task = NULL => r.tm[t].scheduled_run_time = RunTime(d)
         /\ r.tm[t].alive /\ r.tm[t].user_task = w
         /\ r.tm[t].delay = d /\ r.tm[t].is_repeating = s.tm[t].is_repeating
         /\ \A x \in Timers \ {t} : r.tm[x] = s.tm[x]
<1> DEFINE o == [s.tm[t] EXCEPT !.delay = d, !.user_task = w]
           u == SetTaskInfo(s, t, d, w)
<1>1. s.tm[t] \in TimerRecord BY DEF StateType
<1>2. u = [s EXCEPT !.tm[t] = o] BY DEF SetTaskInfo
<1>3. o \in TimerRecord BY <1>1, TimerAssumption DEF TimerRecord
<1>4. /\ o.delay = d /\ o.is_repeating = s.tm[t].is_repeating
      /\ o.scheduled_task = s.tm[t].scheduled_task /\ o.alive
      /\ o.scheduled_run_time = s.tm[t].scheduled_run_time
      /\ o.user_task = w
  BY <1>1 DEF TimerRecord
<1> HIDE DEF o, u
<1>5. u \in StateType /\ Pointers(u) /\ Others(u, t) /\ u.tm[t] = o /\ u.tasks = s.tasks
      /\ \A x \in Timers \ {t} : u.tm[x] = s.tm[x]
  BY <1>2, <1>3, <1>4, UpdateOk
<1>6. w # NULL BY TimerAssumption
<1> DEFINE r == Reset(u, t, k)
<1>7. /\ r \in StateType
      /\ Linked(r)
      /\ r.tm[t].is_running /\ r.tm[t].desired_run_time = RunTime(u.tm[t].delay)
      /\ u.tm[t].scheduled_task = NULL => r.tm[t].scheduled_run_time = RunTime(u.tm[t].delay)
      /\ Alike(r.tm[t], u.tm[t])
      /\ \A x \in Timers \ {t} : r.tm[x] = u.tm[x]
  BY <1>4, <1>5, <1>6, ResetOk
<1>8. r = Start(s, t, k, d, w) BY DEF Start, u
<1> HIDE DEF r
<1>9. QED BY <1>4, <1>5, <1>7, <1>8 DEF Alike

-----------------------------------------------------------------------------
(* The actions of Timer.                                                   *)

(* What always holds of the objects: LinksAgree, the types, and that every *)
(* delay is one that was asked for, which the refinement needs for Reset.  *)
ObjectsOk == ObjectsTypeOK /\ Linked(State)

(* The inductive invariant of Timer.                                       *)
IInv == ObjectsOk /\ bell \in [Timers -> BOOLEAN]
USE DEF IInv

LEMMA StateOk == ASSUME ObjectsOk PROVE
  /\ State \in StateType /\ State.tm = tm /\ State.tasks = tasks
  /\ Pointers(State)
  /\ \A t \in Timers : RunsInTime(State, t) /\ Others(State, t)
  /\ tm \in [Timers -> TimerRecord] /\ tasks \in [Tasks -> TaskRecord]
  /\ now \in Nat
BY DEF ObjectsOk, ObjectsTypeOK, StateType, State, Linked, Others

LEMMA BecomeOk ==
  ASSUME NEW r \in StateType, Linked(r), Become(r), now' \in Nat \ {0}, up' \in BOOLEAN
  PROVE  ObjectsOk'
<1>1. tm' \in [Timers -> TimerRecord] /\ tasks' \in [Tasks -> TaskRecord]
  BY DEF Become, StateType
<1>2. r = State' BY DEF Become, StateType, State
<1>3. Linked(State)' BY <1>2 DEF Linked, Pointers, PointsBack, TaskPointsBack, RunsInTime
<1>4. QED BY <1>1, <1>3 DEF ObjectsOk, ObjectsTypeOK

(* The state in which RunScheduledTask begins: the task that runs is gone. *)
LEMMA DetachedOk ==
  ASSUME ObjectsOk, NEW k \in Tasks
  PROVE  LET r == Detached(k) IN
         /\ r \in StateType
         /\ Pointers(r)
         /\ \A t \in Timers : tasks[k].timer # t => RunsInTime(r, t) /\ r.tm[t] = tm[t]
         /\ \A t \in Timers : /\ r.tm[t].is_running = tm[t].is_running
                              /\ r.tm[t].desired_run_time = tm[t].desired_run_time
                              /\ r.tm[t].scheduled_run_time = tm[t].scheduled_run_time
                              /\ Alike(r.tm[t], tm[t])
         /\ \A t \in Timers : tasks[k].timer = t => r.tm[t].scheduled_task = NULL
<1> DEFINE r == Detached(k)
<1>1. r.tm = [t \in Timers |-> IF t = tasks[k].timer
                               THEN [tm[t] EXCEPT !.scheduled_task = NULL] ELSE tm[t]]
      /\ r.tasks = [tasks EXCEPT ![k] = NoTask]
      /\ DOMAIN r = {"tm", "tasks"}
  BY DEF Detached
<1>2. State \in StateType /\ State.tm = tm /\ State.tasks = tasks /\ Pointers(State)
      /\ \A t \in Timers : RunsInTime(State, t)
  BY StateOk
<1>3. tm \in [Timers -> TimerRecord] /\ tasks \in [Tasks -> TaskRecord] BY StateOk
<1>4. ASSUME NEW t \in Timers PROVE
        /\ r.tm[t] \in TimerRecord
        /\ tasks[k].timer # t => r.tm[t] = tm[t]
        /\ tasks[k].timer = t => r.tm[t].scheduled_task = NULL
        /\ r.tm[t].is_running = tm[t].is_running
        /\ r.tm[t].desired_run_time = tm[t].desired_run_time
        /\ r.tm[t].scheduled_run_time = tm[t].scheduled_run_time
        /\ Alike(r.tm[t], tm[t])
  <2>1. tm[t] \in TimerRecord BY <1>3
  <2>2. CASE tasks[k].timer = t
    <3>1. r.tm[t] = [tm[t] EXCEPT !.scheduled_task = NULL] BY <1>1, <2>2
    <3>2. QED BY <2>1, <2>2, <3>1 DEF TimerRecord, Alike
  <2>3. CASE tasks[k].timer # t
    <3>1. r.tm[t] = tm[t] BY <1>1, <2>3
    <3>2. QED BY <2>1, <2>3, <3>1 DEF Alike
  <2>4. QED BY <2>2, <2>3
<1>5. r \in StateType
  <2>1. r = [tm |-> r.tm, tasks |-> r.tasks] BY DEF Detached
  <2>2. r.tm \in [Timers -> TimerRecord]
    <3>1. DOMAIN r.tm = Timers /\ r.tm = [t \in Timers |-> r.tm[t]] BY <1>1
    <3> HIDE DEF r
    <3>2. QED BY <1>4, <3>1
  <2>3. r.tasks \in [Tasks -> TaskRecord] BY <1>1, <1>3, NoObjectType
  <2> HIDE DEF r
  <2>4. QED BY <2>1, <2>2, <2>3 DEF StateType
<1>6. r.tasks[k] = NoTask /\ \A j \in Tasks \ {k} : r.tasks[j] = tasks[j] BY <1>1, <1>3
<1> HIDE DEF r
<1>7. ASSUME NEW t \in Timers PROVE PointsBack(r, t) /\ r.tm[t].delay \in Delays
  <2>1. r.tm[t].delay \in Delays BY <1>2, <1>4 DEF Pointers, Alike
  <2>2. CASE tasks[k].timer = t BY <1>4, <2>1, <2>2 DEF PointsBack
  <2>3. CASE tasks[k].timer # t
    <3>1. r.tm[t] = tm[t] BY <1>4, <2>3
    <3>2. tm[t].scheduled_task # NULL => tm[t].scheduled_task \in Tasks \ {k}
      BY <1>2, <2>3, ScheduledTask
    <3>3. PointsBack(State, t) BY <1>2 DEF Pointers
    <3>4. QED BY <1>2, <1>6, <2>1, <3>1, <3>2, <3>3 DEF PointsBack
  <2>4. QED BY <2>2, <2>3
<1>8. ASSUME NEW j \in Tasks PROVE TaskPointsBack(r, j)
  <2>1. CASE j = k BY <1>6, <2>1 DEF TaskPointsBack, NoTask
  <2>2. CASE j # k
    <3>1. r.tasks[j] = tasks[j] BY <1>6, <2>2
    <3>2. tasks[j].timer \in Timers \cup {NULL} /\ tasks[k].timer \in Timers \cup {NULL}
      BY <1>3 DEF TaskRecord
    <3>3. TaskPointsBack(State, j) /\ TaskPointsBack(State, k) BY <1>2 DEF Pointers
    <3>4. tasks[j].timer # NULL => tasks[k].timer # tasks[j].timer
      BY <1>2, <2>2, <3>2, <3>3 DEF TaskPointsBack
    <3>5. tasks[j].timer # NULL => r.tm[tasks[j].timer] = tm[tasks[j].timer]
      BY <1>4, <3>2, <3>4
    <3>6. QED BY <1>2, <3>1, <3>3, <3>5 DEF TaskPointsBack
  <2>3. QED BY <2>1, <2>2
<1>9. ASSUME NEW t \in Timers, tasks[k].timer # t PROVE RunsInTime(r, t)
  BY <1>2, <1>4, <1>9 DEF RunsInTime
<1>10. QED BY <1>4, <1>5, <1>7, <1>8, <1>9 DEF Pointers, r

(* ~MessageLoop: every running timer had a task, so all of them stop.      *)
LEMMA LoopGoneOk ==
  ASSUME ObjectsOk
  PROVE  LET r == LoopGone IN
         /\ r \in StateType
         /\ Linked(r)
         /\ \A t \in Timers : /\ ~r.tm[t].is_running
                              /\ r.tm[t].alive = tm[t].alive
                              /\ r.tm[t].delay = tm[t].delay
                              /\ r.tm[t].is_repeating = tm[t].is_repeating
                              /\ r.tm[t].desired_run_time = tm[t].desired_run_time
                              /\ r.tm[t].scheduled_run_time = tm[t].scheduled_run_time
<1> DEFINE r == LoopGone
           Has(t) == \E k \in Tasks : tasks[k].queued /\ tasks[k].timer = t
           Off(t) == [tm[t] EXCEPT !.is_running = FALSE, !.scheduled_task = NULL,
                                   !.user_task = Kept(tm[t])]
<1>1. /\ r = [tm |-> r.tm, tasks |-> r.tasks]
      /\ r.tm = [t \in Timers |-> IF Has(t) THEN Off(t) ELSE tm[t]]
      /\ r.tasks = [k \in Tasks |-> NoTask]
  BY DEF LoopGone
<1>2. State \in StateType /\ State.tm = tm /\ State.tasks = tasks /\ Pointers(State)
      /\ \A t \in Timers : RunsInTime(State, t)
  BY StateOk
<1>3. tm \in [Timers -> TimerRecord] /\ tasks \in [Tasks -> TaskRecord] BY StateOk
<1>4. ASSUME NEW t \in Timers PROVE
        /\ r.tm[t] \in TimerRecord
        /\ r.tm[t].scheduled_task = NULL
        /\ ~r.tm[t].is_running
        /\ r.tm[t].alive = tm[t].alive
        /\ r.tm[t].delay = tm[t].delay
        /\ r.tm[t].is_repeating = tm[t].is_repeating
        /\ r.tm[t].desired_run_time = tm[t].desired_run_time
        /\ r.tm[t].scheduled_run_time = tm[t].scheduled_run_time
  <2>1. tm[t] \in TimerRecord BY <1>3
  <2>2. Kept(tm[t]) \in UserTasks \cup {NULL} BY <2>1 DEF TimerRecord, Kept
  <2>3. CASE Has(t)
    <3>1. r.tm[t] = Off(t)
      <4> HIDE DEF Has, Off, r
      <4>1. QED BY <1>1, <2>3
    <3>2. QED BY <2>1, <2>2, <3>1 DEF TimerRecord
  <2>4. CASE ~Has(t)
    <3>1. r.tm[t] = tm[t]
      <4> HIDE DEF Has, Off, r
      <4>1. QED BY <1>1, <2>4
    <3>2. tm[t].scheduled_task = NULL BY <1>2, <2>4, ScheduledTask
    <3>3. ~tm[t].is_running BY <1>2, <3>2 DEF RunsInTime
    <3>4. QED BY <2>1, <3>1, <3>2, <3>3
  <2>5. QED BY <2>3, <2>4
<1> HIDE DEF r, Has, Off
<1>5. r \in StateType
  <2>1. r.tm \in [Timers -> TimerRecord]
    <3>1. r.tm = [t \in Timers |-> r.tm[t]] BY <1>1
    <3>2. QED BY <1>4, <3>1
  <2>2. r.tasks \in [Tasks -> TaskRecord] BY <1>1, NoObjectType
  <2>3. QED BY <1>1, <2>1, <2>2 DEF StateType
<1>6. \A t \in Timers : PointsBack(r, t) /\ r.tm[t].delay \in Delays /\ RunsInTime(r, t)
  BY <1>2, <1>4 DEF Pointers, PointsBack, RunsInTime
<1>7. \A k \in Tasks : TaskPointsBack(r, k) BY <1>1 DEF TaskPointsBack, NoTask
<1>8. QED BY <1>4, <1>5, <1>6, <1>7 DEF Linked, Pointers, r

(* The objects of Timer are those of the lemmas above.                     *)
LEMMA SameObjects ==
  /\ Plain!State = State /\ Plain!LoopGone = LoopGone /\ (Plain!Tick <=> Tick)
  /\ Plain!InitObjects <=> InitObjects
  /\ Plain!ObjectsTypeOK <=> ObjectsTypeOK
  /\ \A s, k : (Plain!Become(s) <=> Become(s)) /\ (Plain!Unused(s, k) <=> Unused(s, k))
  /\ \A s, t, a, b : Plain!Construct(s, t, a, b) = Construct(s, t, a, b)
  /\ \A s, t, d, u, b : Plain!ConstructWith(s, t, d, u, b) = ConstructWith(s, t, d, u, b)
  /\ \A s, t, k : Plain!Reset(s, t, k) = Reset(s, t, k)
  /\ \A s, t, k, d, u : Plain!Start(s, t, k, d, u) = Start(s, t, k, d, u)
  /\ \A s, t : Plain!Stop(s, t) = Stop(s, t) /\ Plain!Destruct(s, t) = Destruct(s, t)
  /\ \A k : Plain!Detached(k) = Detached(k) /\ (Plain!RunIdle(k) <=> RunIdle(k))
  /\ \A k, t, j : /\ Plain!AfterRing(k, t, j) = AfterRing(k, t, j)
                  /\ Plain!RunEarly(k, t, j) <=> RunEarly(k, t, j)
  /\ \A k, t : Plain!Rings(k, t) <=> Rings(k, t)
<1>1. Plain!State = State /\ Plain!NoObject = NoObject /\ Plain!NoTask = NoTask
      /\ (Plain!Tick <=> Tick)
  BY DEF Plain!State, State, Plain!NoObject, NoObject, Plain!NoTask, NoTask, Plain!Tick, Tick
<1>2. /\ Plain!InitObjects <=> InitObjects
      /\ Plain!ObjectsTypeOK <=> ObjectsTypeOK
  BY <1>1 DEF Plain!InitObjects, InitObjects, Plain!ObjectsTypeOK, ObjectsTypeOK,
         Plain!TimerRecord, TimerRecord, Plain!TaskRecord, TaskRecord
<1>3. \A s, k : (Plain!Become(s) <=> Become(s)) /\ (Plain!Unused(s, k) <=> Unused(s, k))
  BY DEF Plain!Become, Become, Plain!Unused, Unused
<1>4. Plain!LoopGone = LoopGone
  BY DEF Plain!LoopGone, LoopGone, Plain!NoTask, NoTask, Plain!Kept, Kept
<1>5. /\ \A s, t, a, b : Plain!Construct(s, t, a, b) = Construct(s, t, a, b)
      /\ \A s, t, d, u, b : Plain!ConstructWith(s, t, d, u, b) = ConstructWith(s, t, d, u, b)
  BY DEF Plain!Construct, Construct, Plain!ConstructWith, ConstructWith, Plain!NoObject, NoObject
<1>6. \A s, t, k, d : Plain!PostNewScheduledTask(s, t, k, d) = PostNewScheduledTask(s, t, k, d)
  BY DEF Plain!PostNewScheduledTask, PostNewScheduledTask, Plain!RunTime, RunTime
<1>7. \A s, t : Plain!AbandonScheduledTask(s, t) = AbandonScheduledTask(s, t)
  BY DEF Plain!AbandonScheduledTask, AbandonScheduledTask
<1>8. \A s, t, k : Plain!Reset(s, t, k) = Reset(s, t, k)
  BY <1>6, <1>7 DEF Plain!Reset, Reset, Plain!NeedsTask, NeedsTask, Plain!RunTime, RunTime
<1>9. \A s, t, k, d, u : Plain!Start(s, t, k, d, u) = Start(s, t, k, d, u)
  BY <1>8 DEF Plain!Start, Start, Plain!SetTaskInfo, SetTaskInfo
<1>10. \A s, t : Plain!Stop(s, t) = Stop(s, t) BY DEF Plain!Stop, Stop, Plain!Kept, Kept
<1>11. \A s, t : Plain!Destruct(s, t) = Destruct(s, t)
  BY <1>1, <1>7, <1>10 DEF Plain!Destruct, Destruct, Plain!StopAndAbandon, StopAndAbandon
<1>12. \A k : Plain!Detached(k) = Detached(k)
  BY DEF Plain!Detached, Detached, Plain!NoTask, NoTask
<1>13. \A k, t, j : Plain!AfterRing(k, t, j) = AfterRing(k, t, j)
  BY <1>6, <1>10, <1>12 DEF Plain!AfterRing, AfterRing
<1>14. \A k, t : Plain!Rings(k, t) <=> Rings(k, t)
  BY DEF Plain!Rings, Rings, Plain!Due, Due, Plain!MustWait, MustWait
<1>15. \A k : Plain!RunIdle(k) <=> RunIdle(k)
  BY <1>3, <1>12 DEF Plain!RunIdle, RunIdle, Plain!Due, Due
<1>16. \A k, t, j : Plain!RunEarly(k, t, j) <=> RunEarly(k, t, j)
  BY <1>3, <1>6, <1>12 DEF Plain!RunEarly, RunEarly, Plain!Due, Due, Plain!MustWait, MustWait
<1>17. QED BY <1>1, <1>2, <1>3, <1>4, <1>5, <1>8, <1>9, <1>10, <1>11, <1>12, <1>13, <1>14,
              <1>15, <1>16

(* The state of Alarm, as the refinement mapping has it.                   *)
Armed == [t \in Timers |-> tm[t].is_running]
RingsAt(o) == IF o.is_running THEN o.desired_run_time ELSE 0
DueAt == [t \in Timers |-> RingsAt(tm[t])]
Period == [t \in Timers |-> tm[t].delay]
Repeats == [t \in Timers |-> tm[t].is_repeating]

(* A step is one of Alarm, or changes nothing of it.                       *)
AlarmStep == [Plain!Alarms!Next]_(Plain!Alarms!vars)

LEMMA OneTimerChanges ==
  ASSUME NEW t \in Timers, \A x \in Timers \ {t} : tm'[x] = tm[x]
  PROVE  /\ Armed' = [Armed EXCEPT ![t] = tm'[t].is_running]
         /\ DueAt' = [DueAt EXCEPT ![t] = RingsAt(tm'[t])]
         /\ Period' = [Period EXCEPT ![t] = tm'[t].delay]
         /\ Repeats' = [Repeats EXCEPT ![t] = tm'[t].is_repeating]
<1>1. Armed' = [Armed EXCEPT ![t] = tm'[t].is_running] BY DEF Armed
<1>2. DueAt' = [DueAt EXCEPT ![t] = RingsAt(tm'[t])]
  BY DEF DueAt
<1>3. Period' = [Period EXCEPT ![t] = tm'[t].delay] BY DEF Period
<1>4. Repeats' = [Repeats EXCEPT ![t] = tm'[t].is_repeating] BY DEF Repeats
<1>5. QED BY <1>1, <1>2, <1>3, <1>4

(* A timer that does not exist does not run.                               *)
LEMMA DeadIsOff ==
  ASSUME ObjectsOk, NEW t \in Timers, ~tm[t].alive
  PROVE  ~tm[t].is_running /\ tm[t].scheduled_task = NULL
BY StateOk DEF Pointers, PointsBack, RunsInTime

(* Both constructors.                                                      *)
LEMMA ConstructStep ==
  ASSUME IInv, NEW t \in Timers, NEW o \in TimerRecord, NEW d \in Delays, NEW repeat \in BOOLEAN,
         ~tm[t].alive, o.delay = d, o.is_repeating = repeat, ~o.is_running,
         o.scheduled_task = NULL,
         Become([State EXCEPT !.tm[t] = o]), UNCHANGED <<now, up, bell>>
  PROVE  IInv' /\ AlarmStep
<1> DEFINE r == [State EXCEPT !.tm[t] = o]
<1>1. ~tm[t].is_running /\ tm[t].scheduled_task = NULL BY DeadIsOff
<1>2. r \in StateType /\ Pointers(r) /\ Others(r, t) /\ r.tm[t] = o
      /\ \A x \in Timers \ {t} : r.tm[x] = tm[x]
  BY <1>1, StateOk, UpdateOk
<1>3. Become(r) OBVIOUS
<1> HIDE DEF r
<1>4. Linked(r) BY <1>2 DEF Linked, Others, RunsInTime
<1>5. IInv' BY <1>2, <1>3, <1>4, BecomeOk DEF ObjectsOk, ObjectsTypeOK
<1>6. tm'[t] = o /\ \A x \in Timers \ {t} : tm'[x] = tm[x] BY <1>2, <1>3 DEF Become
<1>7. Plain!Alarms!Make(t, d, repeat)
  <2>1. ~Armed[t] BY <1>1 DEF Armed
  <2>2. Period' = [Period EXCEPT ![t] = d] /\ Repeats' = [Repeats EXCEPT ![t] = repeat]
    BY <1>6, OneTimerChanges
  <2>3. \A x \in Timers : tm'[x].is_running = tm[x].is_running /\ RingsAt(tm'[x]) = RingsAt(tm[x])
    <3>1. tm[t].is_running = FALSE /\ tm'[t].is_running = FALSE
      BY <1>1, <1>6, StateOk DEF TimerRecord
    <3>2. QED BY <1>6, <3>1 DEF RingsAt
  <2>4. Armed' = Armed BY <2>3 DEF Armed
  <2>5. DueAt' = DueAt BY <2>3 DEF DueAt
  <2>6. QED BY <2>1, <2>2, <2>4, <2>5 DEF Plain!Alarms!Make, Armed, DueAt, RingsAt, Period, Repeats
<1>8. QED BY <1>5, <1>7 DEF AlarmStep, Plain!Alarms!Next

LEMMA NewStep ==
  ASSUME IInv, NEW t \in Timers, NEW retain \in BOOLEAN, NEW repeat \in BOOLEAN,
         Plain!New(t, retain, repeat)
  PROVE  IInv' /\ AlarmStep
<1> DEFINE o == [NoObject EXCEPT !.alive = TRUE, !.retain_user_task = retain,
                                 !.is_repeating = repeat]
<1>1. o \in TimerRecord BY NoObjectType DEF TimerRecord
<1>2. o.delay = 0 /\ o.is_repeating = repeat /\ ~o.is_running /\ o.scheduled_task = NULL
  BY DEF NoObject
<1>3. ~tm[t].alive /\ Become([State EXCEPT !.tm[t] = o]) /\ UNCHANGED <<now, up, bell>>
  BY SameObjects DEF Plain!New, Construct
<1> HIDE DEF o
<1>4. 0 \in Delays BY TimerAssumption
<1>5. QED BY <1>1, <1>2, <1>3, <1>4, ConstructStep

LEMMA NewWithStep ==
  ASSUME IInv, NEW t \in Timers, NEW d \in Delays, NEW u \in UserTasks, NEW repeat \in BOOLEAN,
         Plain!NewWith(t, d, u, repeat)
  PROVE  IInv' /\ AlarmStep
<1> DEFINE o == [NoObject EXCEPT !.alive = TRUE, !.retain_user_task = TRUE,
                         !.is_repeating = repeat, !.delay = d, !.user_task = u]
<1>1. o \in TimerRecord BY NoObjectType, TimerAssumption DEF TimerRecord
<1>2. o.delay = d /\ o.is_repeating = repeat /\ ~o.is_running /\ o.scheduled_task = NULL
  BY DEF NoObject
<1>3. ~tm[t].alive /\ Become([State EXCEPT !.tm[t] = o]) /\ UNCHANGED <<now, up, bell>>
  BY SameObjects DEF Plain!NewWith, ConstructWith
<1> HIDE DEF o
<1>4. QED BY <1>1, <1>2, <1>3, ConstructStep

LEMMA DeleteStep ==
  ASSUME IInv, NEW t \in Timers, Plain!Delete(t)
  PROVE  IInv' /\ AlarmStep
<1> DEFINE r == Destruct(State, t)
<1>1. r \in StateType /\ Linked(r) /\ r.tm[t] = NoObject /\ \A x \in Timers \ {t} : r.tm[x] = tm[x]
  BY StateOk, DestructOk
<1>2. Become(r) /\ UNCHANGED <<now, up, bell>> BY SameObjects DEF Plain!Delete
<1> HIDE DEF r
<1>3. IInv' BY <1>1, <1>2, BecomeOk DEF ObjectsOk, ObjectsTypeOK
<1>4. tm'[t] = NoObject /\ \A x \in Timers \ {t} : tm'[x] = tm[x] BY <1>1, <1>2 DEF Become
<1>5. /\ Armed' = [Armed EXCEPT ![t] = FALSE] /\ DueAt' = [DueAt EXCEPT ![t] = 0]
      /\ Period' = [Period EXCEPT ![t] = 0] /\ Repeats' = [Repeats EXCEPT ![t] = FALSE]
  BY <1>4, OneTimerChanges DEF NoObject, RingsAt
<1>6. Plain!Alarms!Drop(t)
  BY <1>2, <1>5 DEF Plain!Alarms!Drop, Armed, DueAt, RingsAt, Period, Repeats
<1>7. QED BY <1>3, <1>6 DEF AlarmStep, Plain!Alarms!Next

LEMMA StopStep ==
  ASSUME IInv, NEW t \in Timers, Plain!StopTimer(t)
  PROVE  IInv' /\ AlarmStep
<1> DEFINE r == Stop(State, t)
<1>1. /\ r \in StateType /\ Linked(r) /\ ~r.tm[t].is_running
      /\ r.tm[t].delay = tm[t].delay /\ r.tm[t].is_repeating = tm[t].is_repeating
      /\ \A x \in Timers \ {t} : r.tm[x] = tm[x]
  BY StateOk, StopOk
<1>2. Become(r) /\ UNCHANGED <<now, up, bell>> BY SameObjects DEF Plain!StopTimer
<1> HIDE DEF r
<1>3. IInv' BY <1>1, <1>2, BecomeOk DEF ObjectsOk, ObjectsTypeOK
<1>4. /\ ~tm'[t].is_running /\ tm'[t].delay = tm[t].delay
      /\ tm'[t].is_repeating = tm[t].is_repeating
      /\ \A x \in Timers \ {t} : tm'[x] = tm[x]
  BY <1>1, <1>2 DEF Become
<1>5. Armed' = [a \in Timers |-> Armed[a] /\ a \notin {t}]
  <2>1. ASSUME NEW a \in Timers PROVE tm'[a].is_running = (tm[a].is_running /\ a \notin {t})
    <3>1. tm[a].is_running \in BOOLEAN /\ tm'[a].is_running \in BOOLEAN
      BY <1>3 DEF ObjectsOk, ObjectsTypeOK, TimerRecord
    <3>2. CASE a = t BY <1>4, <3>1, <3>2
    <3>3. CASE a # t BY <1>4, <3>1, <3>3
    <3>4. QED BY <3>2, <3>3
  <2>2. QED BY <2>1 DEF Armed
<1>6. DueAt' = [a \in Timers |-> IF a \in {t} THEN 0 ELSE DueAt[a]] BY <1>4 DEF DueAt, RingsAt
<1>7. Period' = Period BY <1>4 DEF Period
<1>8. Repeats' = Repeats BY <1>4 DEF Repeats
<1>9. Plain!Alarms!Cancel({t})
  BY <1>2, <1>5, <1>6, <1>7, <1>8 DEF Plain!Alarms!Cancel, Armed, DueAt, RingsAt, Period, Repeats
<1>10. QED BY <1>3, <1>9 DEF AlarmStep, Plain!Alarms!Next

(* Start and Reset set the alarm.                                          *)
LEMMA SetAlarm ==
  ASSUME NEW t \in Timers, NEW d \in Delays, UNCHANGED <<now, bell>>,
         tm'[t].is_running = TRUE, tm'[t].desired_run_time = RunTime(d),
         tm'[t].delay = d, tm'[t].is_repeating = tm[t].is_repeating,
         \A x \in Timers \ {t} : tm'[x] = tm[x]
  PROVE  AlarmStep
<1>1. Armed' = [Armed EXCEPT ![t] = TRUE] BY OneTimerChanges
<1>2. DueAt' = [DueAt EXCEPT ![t] = RunTime(d)] /\ Period' = [Period EXCEPT ![t] = d]
  BY OneTimerChanges DEF RingsAt
<1>3. Repeats' = Repeats BY DEF Repeats
<1>4. Plain!Alarms!After(d) = RunTime(d) BY DEF Plain!Alarms!After, RunTime
<1>5. Plain!Alarms!Set(t, d)
  BY <1>1, <1>2, <1>3, <1>4 DEF Plain!Alarms!Set, Armed, DueAt, RingsAt, Period, Repeats
<1>6. QED BY <1>5 DEF AlarmStep, Plain!Alarms!Next

LEMMA StartStep ==
  ASSUME IInv, NEW t \in Timers, NEW k \in Tasks, NEW d \in Delays, NEW u \in UserTasks,
         Plain!StartTimer(t, k, d, u)
  PROVE  IInv' /\ AlarmStep
<1> DEFINE r == Start(State, t, k, d, u)
<1>1. tm[t].alive /\ ~tasks[k].queued /\ Become(r) /\ UNCHANGED <<now, up, bell>>
  <2>1. tm[t].alive /\ Unused(State, k) /\ Become(r) /\ UNCHANGED <<now, up, bell>>
    BY SameObjects DEF Plain!StartTimer
  <2>2. QED BY <2>1 DEF Unused, State
<1>2. /\ r \in StateType /\ Linked(r)
      /\ r.tm[t].is_running /\ r.tm[t].desired_run_time = RunTime(d)
      /\ r.tm[t].delay = d /\ r.tm[t].is_repeating = tm[t].is_repeating
      /\ \A x \in Timers \ {t} : r.tm[x] = tm[x]
  BY <1>1, StateOk, StartOk
<1> HIDE DEF r
<1>3. IInv' BY <1>1, <1>2, BecomeOk DEF ObjectsOk, ObjectsTypeOK
<1>4. AlarmStep BY <1>1, <1>2, SetAlarm DEF Become
<1>5. QED BY <1>3, <1>4

LEMMA ResetStep ==
  ASSUME IInv, NEW t \in Timers, NEW k \in Tasks, Plain!ResetTimer(t, k)
  PROVE  IInv' /\ AlarmStep
<1> DEFINE r == Reset(State, t, k)
<1>1. /\ tm[t].alive /\ tm[t].user_task # NULL /\ ~tasks[k].queued
      /\ Become(r) /\ UNCHANGED <<now, up, bell>>
  <2>1. /\ tm[t].alive /\ tm[t].user_task # NULL /\ Unused(State, k)
        /\ Become(r) /\ UNCHANGED <<now, up, bell>>
    BY SameObjects DEF Plain!ResetTimer
  <2>2. QED BY <2>1 DEF Unused, State
<1>2. /\ r \in StateType /\ Linked(r)
      /\ r.tm[t].is_running /\ r.tm[t].desired_run_time = RunTime(tm[t].delay)
      /\ Alike(r.tm[t], tm[t])
      /\ \A x \in Timers \ {t} : r.tm[x] = tm[x]
  BY <1>1, StateOk, ResetOk
<1> HIDE DEF r
<1>3. IInv' BY <1>1, <1>2, BecomeOk DEF ObjectsOk, ObjectsTypeOK
<1>4. tm[t].delay \in Delays BY StateOk DEF Pointers
<1>5. AlarmStep BY <1>1, <1>2, <1>4, SetAlarm DEF Become, Alike
<1>6. QED BY <1>3, <1>5

LEMMA NothingChanges ==
  ASSUME UNCHANGED <<now, bell>>,
         \A t \in Timers : /\ tm'[t].is_running = tm[t].is_running
                           /\ tm'[t].desired_run_time = tm[t].desired_run_time
                           /\ tm'[t].delay = tm[t].delay
                           /\ tm'[t].is_repeating = tm[t].is_repeating
  PROVE  UNCHANGED Plain!Alarms!vars
<1>1. Armed' = Armed BY DEF Armed
<1>2. DueAt' = DueAt BY DEF DueAt, RingsAt
<1>3. Period' = Period BY DEF Period
<1>4. Repeats' = Repeats BY DEF Repeats
<1>5. QED BY <1>1, <1>2, <1>3, <1>4 DEF Plain!Alarms!vars, Armed, DueAt, RingsAt, Period, Repeats

LEMMA RunIdleStep ==
  ASSUME IInv, NEW k \in Tasks, RunIdle(k), UNCHANGED <<now, up, bell>>
  PROVE  IInv' /\ AlarmStep
<1> DEFINE r == Detached(k)
<1>1. r \in StateType /\ Pointers(r)
      /\ \A t \in Timers : tasks[k].timer # t => RunsInTime(r, t)
  BY DetachedOk
<1>2. \A t \in Timers : /\ r.tm[t].is_running = tm[t].is_running
                        /\ r.tm[t].desired_run_time = tm[t].desired_run_time
                        /\ Alike(r.tm[t], tm[t])
  BY DetachedOk
<1>3. Become(r) /\ \A t \in Timers : tasks[k].timer = t => ~tm[t].is_running BY DEF RunIdle
<1> HIDE DEF r
<1>4. Linked(r) BY <1>1, <1>2, <1>3 DEF Linked, RunsInTime
<1>5. IInv' BY <1>1, <1>3, <1>4, BecomeOk DEF ObjectsOk, ObjectsTypeOK
<1>6. UNCHANGED Plain!Alarms!vars BY <1>2, <1>3, NothingChanges DEF Become, Alike
<1>7. QED BY <1>5, <1>6 DEF AlarmStep

(* RunScheduledTask posts another task for the timer whose task just ran.  *)
LEMMA DetachedPostOk ==
  ASSUME IInv, NEW k \in Tasks, NEW t \in Timers, NEW j \in Tasks, NEW d \in Nat,
         tasks[k].timer = t, tm[t].is_running, Unused(Detached(k), j)
  PROVE  LET r == PostNewScheduledTask(Detached(k), t, j, d) IN
         /\ r \in StateType
         /\ Linked(r)
         /\ r.tm[t].is_running /\ r.tm[t].desired_run_time = RunTime(d)
         /\ Alike(r.tm[t], tm[t])
         /\ \A x \in Timers \ {t} : r.tm[x] = tm[x]
<1> DEFINE s == Detached(k)
           r == PostNewScheduledTask(s, t, j, d)
<1>1. s \in StateType /\ Pointers(s)
      /\ \A x \in Timers : tasks[k].timer # x => RunsInTime(s, x) /\ s.tm[x] = tm[x]
  BY DetachedOk
<1>2. s.tm[t].scheduled_task = NULL /\ Alike(s.tm[t], tm[t]) BY DetachedOk
<1>3. tm[t].alive /\ tm[t].user_task # NULL
  BY StateOk DEF RunsInTime, Pointers, PointsBack
<1>4. ~s.tasks[j].queued BY DEF Unused
<1>5. now \in Nat BY StateOk
<1> HIDE DEF s
<1>6. Others(s, t) /\ \A x \in Timers \ {t} : s.tm[x] = tm[x] BY <1>1 DEF Others
<1>7. s.tm[t].alive /\ s.tm[t].user_task # NULL BY <1>2, <1>3 DEF Alike
<1>8. /\ r \in StateType /\ Linked(r)
      /\ r.tm[t].is_running /\ r.tm[t].desired_run_time = RunTime(d) /\ Alike(r.tm[t], s.tm[t])
      /\ \A x \in Timers \ {t} : r.tm[x] = s.tm[x]
  BY <1>1, <1>2, <1>4, <1>5, <1>6, <1>7, PostOk
<1> HIDE DEF r
<1>9. QED BY <1>2, <1>6, <1>8 DEF Alike, r, s

(* The continuation task leaves the time at which the timer rings alone.   *)
LEMMA RunEarlyStep ==
  ASSUME IInv, NEW k \in Tasks, NEW t \in Timers, NEW j \in Tasks, RunEarly(k, t, j),
         UNCHANGED <<now, up, bell>>
  PROVE  IInv' /\ AlarmStep
<1> DEFINE d == tm[t].desired_run_time - now
           r == PostNewScheduledTask(Detached(k), t, j, d)
<1>1. tasks[k].timer = t /\ tm[t].is_running /\ MustWait(t) /\ Unused(Detached(k), j) /\ Become(r)
  BY DEF RunEarly
<1>2. tm[t] \in TimerRecord /\ now \in Nat BY StateOk
<1>3. d \in Nat /\ RunTime(d) = tm[t].desired_run_time
  BY <1>1, <1>2 DEF MustWait, RunTime, TimerRecord
<1> HIDE DEF d
<1>4. /\ r \in StateType /\ Linked(r)
      /\ r.tm[t].is_running /\ r.tm[t].desired_run_time = RunTime(d)
      /\ Alike(r.tm[t], tm[t])
      /\ \A x \in Timers \ {t} : r.tm[x] = tm[x]
  BY <1>1, <1>3, DetachedPostOk
<1> HIDE DEF r
<1>5. IInv' BY <1>1, <1>4, BecomeOk DEF ObjectsOk, ObjectsTypeOK
<1>6. tm'[t].is_running = tm[t].is_running
  <2>1. r.tm[t] \in TimerRecord BY <1>4 DEF StateType
  <2>2. QED BY <1>1, <1>2, <1>4, <2>1 DEF Become, TimerRecord
<1>7. UNCHANGED Plain!Alarms!vars BY <1>1, <1>3, <1>4, <1>6, NothingChanges DEF Become, Alike
<1>8. QED BY <1>5, <1>7 DEF AlarmStep

(* A timer that rings exists, has the task that runs, and is due.          *)
LEMMA RingsWhenDue ==
  ASSUME ObjectsOk, NEW k \in Tasks, NEW t \in Timers, Rings(k, t)
  PROVE  tm[t].alive /\ tm[t].scheduled_task = k /\ tm[t].desired_run_time <= now
<1>1. tasks[k].timer = t /\ ~MustWait(t) /\ tasks[k].run_time <= now
  BY DEF Rings, Due
<1>2. tm[t] \in TimerRecord /\ tasks[k] \in TaskRecord /\ now \in Nat BY StateOk
<1>3. t # NULL /\ k # NULL BY TimerAssumption
<1>4. State \in StateType /\ State.tm = tm /\ State.tasks = tasks /\ Pointers(State) BY StateOk
<1>5. tm[t].scheduled_task = k BY <1>1, <1>3, <1>4 DEF Pointers, TaskPointsBack
<1>6. tasks[k].run_time = tm[t].scheduled_run_time BY <1>3, <1>4, <1>5, ScheduledTask
<1>7. tm[t].alive BY <1>3, <1>4, <1>5 DEF Pointers, PointsBack
<1>8. QED BY <1>1, <1>2, <1>5, <1>6, <1>7 DEF MustWait, TimerRecord

(* The timer rings: its task, due by now, is not due after it.             *)
LEMMA RingStep ==
  ASSUME IInv, NEW k \in Tasks, NEW t \in Timers, NEW j \in Tasks, Rings(k, t),
         Unused(Detached(k), j), Become(AfterRing(k, t, j)),
         bell' = [bell EXCEPT ![t] = ~bell[t]], UNCHANGED <<now, up>>
  PROVE  IInv' /\ AlarmStep
<1> DEFINE r == AfterRing(k, t, j)
           d == tm[t].delay
<1>1. tasks[k].timer = t /\ tm[t].is_running /\ ~MustWait(t) /\ tasks[k].run_time <= now
  BY DEF Rings, Due
<1>2. tm[t] \in TimerRecord /\ tasks[k] \in TaskRecord /\ now \in Nat BY StateOk
<1>3. bell' \in [Timers -> BOOLEAN] OBVIOUS
<1>4. tm[t].desired_run_time <= now BY RingsWhenDue
<1>5. Armed[t] /\ DueAt[t] <= now BY <1>1, <1>4 DEF Armed, DueAt, RingsAt
<1>6. CASE tm[t].is_repeating
  <2>1. r = PostNewScheduledTask(Detached(k), t, j, d) BY <1>6 DEF AfterRing
  <2>2. d \in Nat BY <1>2 DEF TimerRecord
  <2>3. /\ r \in StateType /\ Linked(r)
        /\ r.tm[t].is_running /\ r.tm[t].desired_run_time = RunTime(d)
        /\ Alike(r.tm[t], tm[t])
        /\ \A x \in Timers \ {t} : r.tm[x] = tm[x]
    <3> HIDE DEF r, d
    <3>1. QED BY <1>1, <2>1, <2>2, DetachedPostOk
  <2>4. Become(r) OBVIOUS
  <2> HIDE DEF r
  <2>5. IInv' BY <1>3, <2>3, <2>4, BecomeOk DEF ObjectsOk, ObjectsTypeOK
  <2>6. /\ tm'[t].is_running /\ tm'[t].desired_run_time = RunTime(d) /\ tm'[t].delay = d
        /\ tm'[t].is_repeating = tm[t].is_repeating
        /\ \A x \in Timers \ {t} : tm'[x] = tm[x]
    BY <2>3, <2>4 DEF Become, Alike
  <2>7. Armed' = [Armed EXCEPT ![t] = Repeats[t]]
    <3>1. tm'[t].is_running = tm[t].is_repeating
      <4>1. tm'[t] \in TimerRecord BY <2>5 DEF ObjectsOk, ObjectsTypeOK
      <4>2. QED BY <1>2, <1>6, <2>6, <4>1 DEF TimerRecord
    <3>2. QED BY <2>6, <3>1, OneTimerChanges DEF Repeats
  <2>8. DueAt' = [DueAt EXCEPT ![t] = IF Repeats[t] THEN Plain!Alarms!After(Period[t]) ELSE 0]
    <3>1. RingsAt(tm'[t]) = RunTime(d) BY <2>6 DEF RingsAt
    <3>2. Plain!Alarms!After(Period[t]) = RunTime(d) BY DEF Plain!Alarms!After, RunTime, Period
    <3>3. Repeats[t] BY <1>6 DEF Repeats
    <3>4. QED BY <2>6, <3>1, <3>2, <3>3, OneTimerChanges
  <2>9. Period' = Period BY <2>6 DEF Period
  <2>10. Repeats' = Repeats BY <2>6 DEF Repeats
  <2>11. Plain!Alarms!Ring(t)
    BY <1>5, <2>7, <2>8, <2>9, <2>10 DEF Plain!Alarms!Ring, Armed, DueAt, RingsAt, Period, Repeats
  <2>12. QED BY <2>5, <2>11 DEF AlarmStep, Plain!Alarms!Next
<1>7. CASE ~tm[t].is_repeating
  <2> DEFINE s == Detached(k)
  <2>1. r = Stop(s, t) BY <1>7 DEF AfterRing
  <2>2. s \in StateType /\ Pointers(s) /\ Alike(s.tm[t], tm[t])
        /\ \A x \in Timers : tasks[k].timer # x => RunsInTime(s, x) /\ s.tm[x] = tm[x]
    BY DetachedOk
  <2>3. Become(r) OBVIOUS
  <2> HIDE DEF s, r
  <2>4. Others(s, t) /\ \A x \in Timers \ {t} : s.tm[x] = tm[x] BY <1>1, <2>2 DEF Others
  <2>5. /\ r \in StateType /\ Linked(r) /\ ~r.tm[t].is_running
        /\ r.tm[t].delay = s.tm[t].delay /\ r.tm[t].is_repeating = s.tm[t].is_repeating
        /\ \A x \in Timers \ {t} : r.tm[x] = s.tm[x]
    BY <2>1, <2>2, <2>4, StopOk
  <2>6. IInv' BY <1>3, <2>3, <2>5, BecomeOk DEF ObjectsOk, ObjectsTypeOK
  <2>7. /\ ~tm'[t].is_running /\ tm'[t].delay = d /\ tm'[t].is_repeating = tm[t].is_repeating
        /\ \A x \in Timers \ {t} : tm'[x] = tm[x]
    BY <2>2, <2>3, <2>4, <2>5 DEF Become, Alike
  <2>8. Armed' = [Armed EXCEPT ![t] = Repeats[t]]
    <3>1. tm'[t].is_running = tm[t].is_repeating
      <4>1. tm'[t] \in TimerRecord BY <2>6 DEF ObjectsOk, ObjectsTypeOK
      <4>2. QED BY <1>2, <1>7, <2>7, <4>1 DEF TimerRecord
    <3>2. QED BY <2>7, <3>1, OneTimerChanges DEF Repeats
  <2>9. DueAt' = [DueAt EXCEPT ![t] = IF Repeats[t] THEN Plain!Alarms!After(Period[t]) ELSE 0]
    <3>1. RingsAt(tm'[t]) = 0 BY <2>7 DEF RingsAt
    <3>2. ~Repeats[t] BY <1>7 DEF Repeats
    <3>3. QED BY <2>7, <3>1, <3>2, OneTimerChanges
  <2>10. Period' = Period BY <2>7 DEF Period
  <2>11. Repeats' = Repeats BY <2>7 DEF Repeats
  <2>12. Plain!Alarms!Ring(t)
    BY <1>5, <2>8, <2>9, <2>10, <2>11 DEF Plain!Alarms!Ring, Armed, DueAt, RingsAt, Period, Repeats
  <2>13. QED BY <2>6, <2>12 DEF AlarmStep, Plain!Alarms!Next
<1>8. QED BY <1>6, <1>7

LEMMA DestroyLoopStep ==
  ASSUME IInv, Plain!DestroyLoop
  PROVE  IInv' /\ AlarmStep
<1> DEFINE r == LoopGone
<1>1. /\ r \in StateType /\ Linked(r)
      /\ \A t \in Timers : /\ ~r.tm[t].is_running
                           /\ r.tm[t].delay = tm[t].delay
                           /\ r.tm[t].is_repeating = tm[t].is_repeating
  BY LoopGoneOk
<1>2. Become(r) /\ up' = FALSE /\ UNCHANGED <<now, bell>> BY SameObjects DEF Plain!DestroyLoop
<1> HIDE DEF r
<1>3. IInv' BY <1>1, <1>2, BecomeOk DEF ObjectsOk, ObjectsTypeOK
<1>4. \A t \in Timers : /\ ~tm'[t].is_running /\ tm'[t].delay = tm[t].delay
                        /\ tm'[t].is_repeating = tm[t].is_repeating
  BY <1>1, <1>2 DEF Become
<1>5. Armed' = [a \in Timers |-> Armed[a] /\ a \notin Timers]
  <2>1. \A a \in Timers : tm'[a].is_running = FALSE
    BY <1>3, <1>4 DEF ObjectsOk, ObjectsTypeOK, TimerRecord
  <2>2. QED BY <2>1 DEF Armed
<1>6. DueAt' = [a \in Timers |-> IF a \in Timers THEN 0 ELSE DueAt[a]] BY <1>4 DEF DueAt, RingsAt
<1>7. Period' = Period BY <1>4 DEF Period
<1>8. Repeats' = Repeats BY <1>4 DEF Repeats
<1>9. Plain!Alarms!Cancel(Timers)
  BY <1>2, <1>5, <1>6, <1>7, <1>8 DEF Plain!Alarms!Cancel, Armed, DueAt, RingsAt, Period, Repeats
<1>10. QED BY <1>3, <1>9 DEF AlarmStep, Plain!Alarms!Next

LEMMA PassStep ==
  ASSUME IInv, Plain!Pass
  PROVE  IInv' /\ AlarmStep
<1>1. Tick /\ UNCHANGED <<up, tm, tasks, bell>> BY SameObjects DEF Plain!Pass
<1>2. IInv' BY <1>1 DEF ObjectsOk, Tick, ObjectsTypeOK, Linked, Pointers, PointsBack,
                        TaskPointsBack, RunsInTime, State
<1>3. Plain!Alarms!Tick BY <1>1 DEF Tick, Plain!Alarms!Tick
<1>4. QED BY <1>2, <1>3 DEF AlarmStep, Plain!Alarms!Next

LEMMA NextStep ==
  ASSUME IInv, [Plain!Next]_(Plain!vars)
  PROVE  IInv' /\ AlarmStep
<1>1. ASSUME NEW k \in Tasks, Plain!RunTask(k) PROVE IInv' /\ AlarmStep
  BY <1>1, SameObjects, RunIdleStep, RunEarlyStep, RingStep DEF Plain!RunTask
<1>2. CASE UNCHANGED Plain!vars
  <2>1. IInv' BY <1>2 DEF Plain!vars, ObjectsOk, ObjectsTypeOK, Linked, Pointers, PointsBack,
                   TaskPointsBack, RunsInTime, State
  <2>2. UNCHANGED Plain!Alarms!vars BY <1>2 DEF Plain!vars, Plain!Alarms!vars
  <2>3. QED BY <2>1, <2>2 DEF AlarmStep
<1>3. CASE Plain!Next
  BY <1>1, <1>3, NewStep, NewWithStep, DeleteStep, StopStep, StartStep, ResetStep,
     DestroyLoopStep, PassStep DEF Plain!Next
<1>4. QED BY <1>2, <1>3

(* In the beginning there are no objects.                                  *)
LEMMA FreshOk == ASSUME InitObjects PROVE ObjectsOk
<1>1. State.tm = [t \in Timers |-> NoObject] /\ State.tasks = [k \in Tasks |-> NoTask]
  BY DEF InitObjects, State
<1>2. Linked(State)
  <2>1. \A t \in Timers : PointsBack(State, t) /\ State.tm[t].delay \in Delays
                          /\ RunsInTime(State, t)
    <3>1. /\ NoObject.scheduled_task = NULL /\ ~NoObject.is_running
          /\ NoObject.delay \in Delays
      BY TimerAssumption DEF NoObject
    <3>2. \A t \in Timers : State.tm[t] = NoObject BY <1>1
    <3>3. QED BY <3>1, <3>2 DEF PointsBack, RunsInTime
  <2>2. \A k \in Tasks : TaskPointsBack(State, k) BY <1>1 DEF TaskPointsBack, NoTask
  <2>3. QED BY <2>1, <2>2 DEF Linked, Pointers
<1>3. ObjectsTypeOK BY NoObjectType DEF InitObjects, ObjectsTypeOK
<1>4. QED BY <1>2, <1>3 DEF ObjectsOk

LEMMA InitIInv == Plain!Init => IInv
BY SameObjects, FreshOk DEF Plain!Init

LEMMA Invariant == Plain!Spec => []IInv
<1>1. IInv /\ [Plain!Next]_(Plain!vars) => IInv' BY NextStep
<1>2. QED BY <1>1, InitIInv, PTL DEF Plain!Spec

(* A timer and its task point at each other or neither does, nothing points*)
(* at a deleted timer, and a running timer has a task that is due in time: *)
(* the raw pointers of timer.cc are never used after their object is gone, *)
(* whatever is started, stopped, reset and deleted, and whenever.          *)
THEOREM LinksAlwaysAgree == Plain!Spec => [](Plain!TypeOK /\ LinksAgree)
<1>1. IInv => Plain!TypeOK /\ LinksAgree
  BY SameObjects DEF ObjectsOk, Plain!TypeOK, Linked, Pointers, PointsBack, TaskPointsBack,
         RunsInTime, State, LinksAgree
<1>2. QED BY <1>1, Invariant, PTL

(* base::Timer implements the safety part of Alarm: it never runs the user *)
(* task early, never after Stop or the destructor, and once for each time  *)
(* it is set (a repeating one once in every period), although it reuses,   *)
(* abandons and re-posts tasks.                                            *)
THEOREM TimerIsAnAlarm == Plain!Spec => Plain!Alarms!Spec
<1>1. Plain!Init => Plain!Alarms!Init
  <2> SUFFICES ASSUME Plain!Init PROVE Plain!Alarms!Init OBVIOUS
  <2>1. InitObjects /\ bell = [t \in Timers |-> FALSE] BY SameObjects DEF Plain!Init
  <2>2. now = 1 /\ \A t \in Timers : tm[t] = NoObject BY <2>1 DEF InitObjects
  <2>3. /\ NoObject.is_running = FALSE /\ NoObject.delay = 0
        /\ NoObject.is_repeating = FALSE
    BY DEF NoObject
  <2>4. QED BY <2>1, <2>2, <2>3 DEF Plain!Alarms!Init
<1>2. IInv /\ [Plain!Next]_(Plain!vars) => [Plain!Alarms!Next]_(Plain!Alarms!vars)
  BY NextStep DEF AlarmStep
<1>3. QED BY <1>1, <1>2, Invariant, PTL DEF Plain!Spec, Plain!Alarms!Spec
-----------------------------------------------------------------------------
(* The TimerManager, whose timers are the same objects.                    *)

(* What holds of the map besides what holds of the objects.                *)
MapTypes ==
  /\ timers_ \in [UserTasks -> Timers \cup {NULL}]
  /\ exists \in BOOLEAN
  /\ bell \in [UserTasks -> BOOLEAN]
  /\ asked \in [UserTasks -> Delays]

(* A timer exists when some id has it; an id has it alone, and the timer   *)
(* runs for that id as long as there is a loop to run it.                  *)
Owned ==
  /\ \A t \in Timers : tm[t].alive <=> \E id \in UserTasks : timers_[id] = t
  /\ \A id \in UserTasks, t \in Timers : timers_[id] = t =>
       exists /\ (up => tm[t].is_running /\ tm[t].user_task = id)
  /\ \A a, b \in UserTasks : timers_[a] = timers_[b] => a = b \/ timers_[a] = NULL

(* A timer is set once: its task is due exactly when it is to ring.        *)
OneShot ==
  \A t \in Timers : /\ ~tm[t].is_repeating
                    /\ tm[t].desired_run_time = tm[t].scheduled_run_time

(* The inductive invariant of TimerManager.                                *)
ManagerInv == ObjectsOk /\ MapTypes /\ Owned /\ OneShot

(* The alarms of the ids.                                                  *)
Set == [id \in UserTasks |-> timers_[id] # NULL /\ up]
RingsFor(id) == IF timers_[id] # NULL /\ up THEN tm[timers_[id]].desired_run_time ELSE 0
DueFor == [id \in UserTasks |-> RingsFor(id)]

ManagerStep == [IdAlarms!Next]_(IdAlarms!vars)

(* The object SetTimer makes, and starts at once.                          *)
Fresh == [NoObject EXCEPT !.alive = TRUE, !.retain_user_task = FALSE, !.is_repeating = FALSE]

NewTimer(t, k, d, u) == Start([State EXCEPT !.tm[t] = Fresh], t, k, d, u)

LEMMA NewTimerOk ==
  ASSUME ObjectsOk, NEW t \in Timers, NEW k \in Tasks, NEW d \in Delays, NEW u \in UserTasks,
         ~tm[t].alive, ~tasks[k].queued
  PROVE  LET r == NewTimer(t, k, d, u) IN
         /\ r \in StateType /\ Linked(r)
         /\ r.tm[t].alive /\ r.tm[t].is_running /\ ~r.tm[t].is_repeating
         /\ r.tm[t].user_task = u
         /\ r.tm[t].desired_run_time = RunTime(d) /\ r.tm[t].scheduled_run_time = RunTime(d)
         /\ \A x \in Timers \ {t} : r.tm[x] = tm[x]
<1> DEFINE s == [State EXCEPT !.tm[t] = Fresh]
           r == Start(s, t, k, d, u)
<1>1. /\ State \in StateType /\ State.tm = tm /\ State.tasks = tasks /\ Pointers(State)
      /\ Others(State, t) /\ now \in Nat
  BY StateOk
<1>2. Fresh \in TimerRecord BY NoObjectType DEF TimerRecord, Fresh
<1>3. Fresh.alive /\ Fresh.delay \in Delays /\ ~Fresh.is_repeating /\ Fresh.scheduled_task = NULL
  BY TimerAssumption DEF NoObject, Fresh
<1>4. State.tm[t].scheduled_task = NULL BY <1>1, DeadIsOff
<1>5. /\ s \in StateType /\ Pointers(s) /\ Others(s, t) /\ s.tm[t] = Fresh /\ s.tasks = tasks
      /\ \A x \in Timers \ {t} : s.tm[x] = tm[x]
  BY <1>1, <1>2, <1>3, <1>4, UpdateOk
<1> HIDE DEF s
<1>6. s.tm[t].alive /\ ~s.tasks[k].queued BY <1>3, <1>5
<1>7. /\ r \in StateType /\ Linked(r) /\ r.tm[t].is_running
      /\ r.tm[t].desired_run_time = RunTime(d)
      /\ s.tm[t].scheduled_task = NULL => r.tm[t].scheduled_run_time = RunTime(d)
      /\ r.tm[t].alive /\ r.tm[t].user_task = u
      /\ r.tm[t].is_repeating = s.tm[t].is_repeating
      /\ \A x \in Timers \ {t} : r.tm[x] = s.tm[x]
  BY <1>1, <1>5, <1>6, StartOk
<1>8. QED BY <1>3, <1>5, <1>7 DEF s, NewTimer

LEMMA SetTimerStep ==
  ASSUME ManagerInv, NEW id \in UserTasks, NEW d \in Delays, SetTimer(id, d)
  PROVE  ManagerInv' /\ ManagerStep
<1>1. PICK t \in Timers, k \in Tasks :
        /\ ~tm[t].alive /\ ~tasks[k].queued
        /\ Become(Start(Construct(State, t, FALSE, FALSE), t, k, d, id))
        /\ timers_' = [timers_ EXCEPT ![id] = t]
  BY DEF SetTimer, Unused, State
<1>2. /\ exists /\ up /\ timers_[id] = NULL /\ asked' = [asked EXCEPT ![id] = d]
      /\ UNCHANGED <<now, up, exists, bell>>
  BY DEF SetTimer, MaySet
<1> DEFINE r == NewTimer(t, k, d, id)
<1>3. /\ r \in StateType /\ Linked(r)
      /\ r.tm[t].alive /\ r.tm[t].is_running /\ ~r.tm[t].is_repeating
      /\ r.tm[t].user_task = id
      /\ r.tm[t].desired_run_time = RunTime(d) /\ r.tm[t].scheduled_run_time = RunTime(d)
      /\ \A x \in Timers \ {t} : r.tm[x] = tm[x]
  <2>1. ObjectsOk /\ ~tm[t].alive /\ ~tasks[k].queued BY <1>1 DEF ManagerInv
  <2>2. QED BY <2>1, NewTimerOk
<1>4. Become(r) /\ tm' = r.tm BY <1>1 DEF Become, Construct, Fresh, NewTimer
<1> HIDE DEF r
<1>5. ObjectsOk' BY <1>2, <1>3, <1>4, BecomeOk DEF ManagerInv, ObjectsOk, ObjectsTypeOK
<1>6. /\ timers_'[id] = t /\ \A a \in UserTasks \ {id} : timers_'[a] = timers_[a]
      /\ timers_ \in [UserTasks -> Timers \cup {NULL}]
  BY <1>1 DEF ManagerInv, MapTypes
<1>7. MapTypes' BY <1>1, <1>2 DEF ManagerInv, MapTypes
<1>8. \A a \in UserTasks : timers_[a] # t BY <1>1 DEF ManagerInv, Owned
<1>9. t # NULL BY TimerAssumption
<1>10. Owned'
  <2>1. \A x \in Timers : tm'[x].alive <=> \E a \in UserTasks : timers_'[a] = x
    BY <1>2, <1>3, <1>4, <1>6, <1>8, TimerAssumption DEF ManagerInv, Owned
  <2>2. \A a \in UserTasks, x \in Timers : timers_'[a] = x =>
          exists' /\ (up' => tm'[x].is_running /\ tm'[x].user_task = a)
    BY <1>2, <1>3, <1>4, <1>6, <1>8 DEF ManagerInv, Owned
  <2>3. \A a, b \in UserTasks : timers_'[a] = timers_'[b] => a = b \/ timers_'[a] = NULL
    BY <1>6, <1>8 DEF ManagerInv, Owned
  <2>4. QED BY <2>1, <2>2, <2>3 DEF Owned
<1>11. OneShot' BY <1>3, <1>4 DEF ManagerInv, OneShot
<1>12. Set' = [Set EXCEPT ![id] = TRUE] BY <1>2, <1>6, <1>9 DEF Set
<1>13. DueFor' = [DueFor EXCEPT ![id] = RunTime(d)]
  <2>1. RingsFor(id)' = RunTime(d) BY <1>2, <1>3, <1>4, <1>6, <1>9 DEF RingsFor
  <2>2. \A a \in UserTasks \ {id} : RingsFor(a)' = RingsFor(a)
    BY <1>2, <1>3, <1>4, <1>6, <1>8 DEF RingsFor
  <2>3. QED BY <2>1, <2>2 DEF DueFor
<1>14. IdAlarms!After(d) = RunTime(d) BY DEF IdAlarms!After, RunTime
<1>15. IdAlarms!Set(id, d)
  BY <1>2, <1>12, <1>13, <1>14 DEF IdAlarms!Set, Set, DueFor, RingsFor
<1>16. QED BY <1>5, <1>7, <1>10, <1>11, <1>15 DEF ManagerInv, ManagerStep, IdAlarms!Next

(* The timer of an id goes, and the id's place in the map with it.         *)
LEMMA Removed ==
  ASSUME ManagerInv, NEW id \in UserTasks, NEW t \in Timers, timers_[id] = t,
         ObjectsOk', tm'[t] = NoObject, \A x \in Timers \ {t} : tm'[x] = tm[x],
         timers_' = [timers_ EXCEPT ![id] = NULL], bell' \in [UserTasks -> BOOLEAN],
         UNCHANGED <<now, up, exists, asked>>
  PROVE  /\ ManagerInv'
         /\ Set' = [a \in UserTasks |-> Set[a] /\ a \notin {id}]
         /\ DueFor' = [a \in UserTasks |-> IF a \in {id} THEN 0 ELSE DueFor[a]]
<1>1. t # NULL BY TimerAssumption
<1>2. /\ timers_'[id] = NULL /\ \A a \in UserTasks \ {id} : timers_'[a] = timers_[a]
      /\ timers_ \in [UserTasks -> Timers \cup {NULL}]
  BY DEF ManagerInv, MapTypes
<1>3. \A a \in UserTasks \ {id} : timers_[a] # t BY <1>1 DEF ManagerInv, Owned
<1>4. MapTypes' BY DEF ManagerInv, MapTypes
<1>5. ~NoObject.alive /\ ~NoObject.is_repeating
      /\ NoObject.desired_run_time = NoObject.scheduled_run_time
  BY DEF NoObject
<1>6. Owned'
  <2>1. \A x \in Timers : tm'[x].alive <=> \E a \in UserTasks : timers_'[a] = x
    BY <1>2, <1>3, <1>5, TimerAssumption DEF ManagerInv, Owned
  <2>2. \A a \in UserTasks, x \in Timers : timers_'[a] = x =>
          exists' /\ (up' => tm'[x].is_running /\ tm'[x].user_task = a)
    BY <1>2, <1>3, TimerAssumption DEF ManagerInv, Owned
  <2>3. \A a, b \in UserTasks : timers_'[a] = timers_'[b] => a = b \/ timers_'[a] = NULL
    BY <1>2 DEF ManagerInv, Owned
  <2>4. QED BY <2>1, <2>2, <2>3 DEF Owned
<1>7. OneShot' BY <1>5 DEF ManagerInv, OneShot
<1>8. Set' = [a \in UserTasks |-> Set[a] /\ a \notin {id}] BY <1>2 DEF Set
<1>9. \A a \in UserTasks : RingsFor(a)' = IF a \in {id} THEN 0 ELSE RingsFor(a)
  BY <1>2, <1>3 DEF RingsFor
<1>10. DueFor' = [a \in UserTasks |-> IF a \in {id} THEN 0 ELSE DueFor[a]]
  BY <1>9 DEF DueFor
<1>11. QED BY <1>4, <1>6, <1>7, <1>8, <1>10 DEF ManagerInv

LEMMA KillTimerStep ==
  ASSUME ManagerInv, NEW id \in UserTasks, KillTimer(id)
  PROVE  ManagerInv' /\ ManagerStep
<1> DEFINE t == timers_[id]
           s == Stop(State, t)
           r == Destruct(s, t)
<1>1. /\ t # NULL /\ timers_' = [timers_ EXCEPT ![id] = NULL]
      /\ UNCHANGED <<now, up, exists, bell, asked>>
  BY DEF KillTimer
<1>2. Become(r) BY DEF KillTimer, Killed
<1>3. ObjectsOk /\ t \in Timers /\ bell \in [UserTasks -> BOOLEAN]
  BY <1>1 DEF ManagerInv, MapTypes
<1> HIDE DEF t
<1>4. State \in StateType /\ State.tm = tm /\ Pointers(State) /\ Others(State, t)
  BY <1>3, StateOk
<1>5. s \in StateType /\ Linked(s) /\ \A x \in Timers \ {t} : s.tm[x] = tm[x]
  BY <1>3, <1>4, StopOk
<1> HIDE DEF s
<1>6. Pointers(s) /\ Others(s, t) BY <1>5 DEF Linked, Others
<1>7. r \in StateType /\ Linked(r) /\ r.tm[t] = NoObject
      /\ \A x \in Timers \ {t} : r.tm[x] = s.tm[x]
  BY <1>3, <1>5, <1>6, DestructOk
<1> HIDE DEF r
<1>8. ObjectsOk' BY <1>1, <1>2, <1>3, <1>7, BecomeOk DEF ObjectsOk, ObjectsTypeOK
<1>9. tm'[t] = NoObject /\ \A x \in Timers \ {t} : tm'[x] = tm[x]
  BY <1>2, <1>5, <1>7 DEF Become
<1>10. timers_[id] = t BY DEF t
<1>11. /\ ManagerInv'
       /\ Set' = [a \in UserTasks |-> Set[a] /\ a \notin {id}]
       /\ DueFor' = [a \in UserTasks |-> IF a \in {id} THEN 0 ELSE DueFor[a]]
  BY <1>1, <1>3, <1>8, <1>9, <1>10, Removed
<1>12. IdAlarms!Cancel({id})
  BY <1>1, <1>11 DEF IdAlarms!Cancel, Set, DueFor, RingsFor
<1>13. QED BY <1>11, <1>12 DEF ManagerStep, IdAlarms!Next

(* The task of a timer that is killed points at nothing afterwards.        *)
LEMMA KilledTask ==
  ASSUME ObjectsOk, NEW k \in Tasks, NEW t \in Timers, tasks[k].timer = t
  PROVE  LET r == Destruct(Stop(State, t), t) IN
         r.tm[t] = NoObject /\ r.tasks[k] \in TaskRecord /\ r.tasks[k].timer = NULL
<1> DEFINE s == Stop(State, t)
           r == Destruct(s, t)
<1>1. /\ State \in StateType /\ State.tm = tm /\ State.tasks = tasks
      /\ Pointers(State) /\ Others(State, t)
  BY StateOk
<1>2. s \in StateType /\ Linked(s) /\ \A x \in Timers \ {t} : s.tm[x] = tm[x]
  BY <1>1, StopOk
<1> HIDE DEF s
<1>3. Pointers(s) /\ Others(s, t) BY <1>2 DEF Linked, Others
<1>4. r \in StateType /\ Linked(r) /\ r.tm[t] = NoObject
      /\ \A x \in Timers \ {t} : r.tm[x] = s.tm[x]
  BY <1>2, <1>3, DestructOk
<1> HIDE DEF r
<1>5. r.tasks[k] \in TaskRecord BY <1>4 DEF StateType
<1>6. r.tasks[k].timer \in Timers \cup {NULL} BY <1>5 DEF TaskRecord
<1>7. k # NULL /\ NoObject.scheduled_task = NULL BY TimerAssumption DEF NoObject
<1>8. r.tasks[k].timer # t BY <1>4, <1>7, TimerAssumption DEF Linked, Pointers, TaskPointsBack
<1>9. ASSUME NEW x \in Timers \ {t}, r.tasks[k].timer = x PROVE FALSE
  <2>1. x # NULL BY TimerAssumption
  <2>2. tm[x].scheduled_task = k
    BY <1>2, <1>4, <1>9, <2>1 DEF Linked, Pointers, TaskPointsBack
  <2>3. tasks[k].timer = x BY <1>1, <1>7, <2>2, ScheduledTask
  <2>4. QED BY <2>3
<1>10. r.tasks[k].timer = NULL BY <1>6, <1>8, <1>9
<1>11. QED BY <1>4, <1>5, <1>10 DEF r, s

(* Destroy: every timer there is belongs to the map, so none is left.      *)
LEMMA DestroyStep ==
  ASSUME ManagerInv, NEW last \in BOOLEAN, Destroy(last)
  PROVE  ManagerInv' /\ ManagerStep
<1> DEFINE Old == {timers_[id] : id \in UserTasks} \ {NULL}
           After(t) == Destruct(Stop(State, t), t)
<1>1. /\ timers_' = [id \in UserTasks |-> NULL] /\ exists' = ~last
      /\ UNCHANGED <<now, up, bell, asked>>
  BY DEF Destroy
<1>2. /\ tm' = [t \in Timers |-> IF t \in Old THEN After(t).tm[t] ELSE tm[t]]
      /\ tasks' = [k \in Tasks |-> IF tasks[k].timer \in Old
                                   THEN After(tasks[k].timer).tasks[k] ELSE tasks[k]]
  <2>1. \A t : Killed(State, t) = After(t) BY DEF Killed
  <2>2. Mapped = Old BY DEF Mapped
  <2> HIDE DEF Old, After
  <2>3. QED BY <2>1, <2>2 DEF Destroy, Become, Cleared
<1>3. ObjectsOk /\ MapTypes /\ Owned /\ OneShot BY DEF ManagerInv
<1>4. /\ tm \in [Timers -> TimerRecord] /\ tasks \in [Tasks -> TaskRecord]
      /\ State.tm = tm /\ State.tasks = tasks /\ Pointers(State)
      /\ State \in StateType
  BY <1>3, StateOk
<1>5. ASSUME NEW t \in Timers
      PROVE  /\ tm'[t] \in TimerRecord /\ tm'[t].delay \in Delays /\ ~tm'[t].alive
             /\ ~tm'[t].is_running /\ tm'[t].scheduled_task = NULL /\ ~tm'[t].is_repeating
             /\ tm'[t].desired_run_time = tm'[t].scheduled_run_time
  <2>1. CASE t \in Old
    <3>1. tm'[t] = NoObject
      <4>1. Pointers(State) /\ Others(State, t) BY <1>3, StateOk
      <4>2. Stop(State, t) \in StateType /\ Linked(Stop(State, t)) BY <1>4, <4>1, StopOk
      <4>3. Pointers(Stop(State, t)) /\ Others(Stop(State, t), t) BY <4>2 DEF Linked, Others
      <4>4. After(t).tm[t] = NoObject BY <4>2, <4>3, DestructOk
      <4> HIDE DEF Old, After
      <4>5. QED BY <1>2, <2>1, <4>4
    <3>2. QED BY <3>1, NoObjectType, TimerAssumption DEF NoObject
  <2>2. CASE t \notin Old
    <3>1. t # NULL BY TimerAssumption
    <3>2. ~tm[t].alive BY <1>3, <2>2, <3>1 DEF Owned
    <3> HIDE DEF Old, After
    <3>3. tm'[t] = tm[t] BY <1>2, <2>2
    <3>4. ~tm[t].is_running /\ tm[t].scheduled_task = NULL BY <1>3, <3>2, DeadIsOff
    <3>5. tm[t].delay \in Delays BY <1>4 DEF Pointers
    <3>6. QED BY <1>3, <1>4, <3>2, <3>3, <3>4, <3>5 DEF OneShot
  <2>3. QED BY <2>1, <2>2
<1>6. ASSUME NEW k \in Tasks
      PROVE  tasks'[k] \in TaskRecord /\ tasks'[k].timer = NULL
  <2>1. tasks[k] \in TaskRecord /\ tasks[k].timer \in Timers \cup {NULL}
    BY <1>4 DEF TaskRecord
  <2>2. CASE tasks[k].timer \in Old
    <3> DEFINE t == tasks[k].timer
    <3>1. t \in Timers BY <2>1, <2>2
    <3>2. After(t).tasks[k] \in TaskRecord /\ After(t).tasks[k].timer = NULL
      BY <1>3, <3>1, KilledTask
    <3> HIDE DEF Old, After
    <3>3. QED BY <1>2, <2>2, <3>2
  <2>3. CASE tasks[k].timer \notin Old
    <3>1. ASSUME NEW t \in Timers, tasks[k].timer = t PROVE FALSE
      <4>1. t # NULL /\ k # NULL BY TimerAssumption
      <4>2. tm[t].scheduled_task = k BY <1>4, <3>1, <4>1 DEF Pointers, TaskPointsBack
      <4>3. tm[t].alive BY <1>4, <4>1, <4>2 DEF Pointers, PointsBack
      <4>4. QED BY <1>3, <2>3, <3>1, <4>1, <4>3 DEF Owned
    <3> HIDE DEF Old, After
    <3>2. QED BY <1>2, <2>1, <2>3, <3>1
  <2>4. QED BY <2>2, <2>3
<1>7. State'.tm = tm' /\ State'.tasks = tasks' BY DEF State
<1>8. Linked(State)'
  <2>1. \A t \in Timers : PointsBack(State, t)' /\ tm'[t].delay \in Delays /\ RunsInTime(State, t)'
    BY <1>5, <1>7 DEF PointsBack, RunsInTime
  <2>2. \A k \in Tasks : TaskPointsBack(State, k)' BY <1>6, <1>7 DEF TaskPointsBack
  <2>3. QED BY <1>7, <2>1, <2>2 DEF Linked, Pointers
<1>9. ObjectsOk'
  <2>1. tm' \in [Timers -> TimerRecord]
    <3> HIDE DEF Old, After
    <3>1. QED BY <1>2, <1>5
  <2>2. tasks' \in [Tasks -> TaskRecord]
    <3> HIDE DEF Old, After
    <3>1. QED BY <1>2, <1>6
  <2>3. QED BY <1>1, <1>3, <1>8, <2>1, <2>2 DEF ObjectsOk, ObjectsTypeOK
<1> HIDE DEF Old, After
<1>10. \A id \in UserTasks : timers_'[id] = NULL BY <1>1
<1>11. \A t \in Timers : t # NULL BY TimerAssumption
<1>12. MapTypes' BY <1>1, <1>3 DEF MapTypes
<1>13. Owned' BY <1>5, <1>10, <1>11 DEF Owned
<1>14. OneShot' BY <1>5 DEF OneShot
<1>15. Set' = [a \in UserTasks |-> Set[a] /\ a \notin UserTasks] BY <1>10 DEF Set
<1>16. DueFor' = [a \in UserTasks |-> IF a \in UserTasks THEN 0 ELSE DueFor[a]]
  BY <1>10 DEF DueFor, RingsFor
<1>17. IdAlarms!Cancel(UserTasks)
  BY <1>1, <1>15, <1>16 DEF IdAlarms!Cancel, Set, DueFor, RingsFor
<1>18. QED BY <1>9, <1>12, <1>13, <1>14, <1>17 DEF ManagerInv, ManagerStep, IdAlarms!Next

(* A task whose timer is stopped or gone ends, and no timer takes notice.  *)
LEMMA IdleStep ==
  ASSUME ManagerInv, NEW k \in Tasks, RunIdle(k),
         UNCHANGED <<now, up, timers_, exists, bell, asked>>
  PROVE  ManagerInv' /\ ManagerStep
<1> DEFINE r == Detached(k)
<1>1. ObjectsOk /\ MapTypes /\ Owned /\ OneShot BY DEF ManagerInv
<1>2. r \in StateType /\ Pointers(r)
      /\ \A t \in Timers : tasks[k].timer # t => RunsInTime(r, t)
  BY <1>1, DetachedOk
<1>3. \A t \in Timers : /\ r.tm[t].is_running = tm[t].is_running
                        /\ r.tm[t].desired_run_time = tm[t].desired_run_time
                        /\ r.tm[t].scheduled_run_time = tm[t].scheduled_run_time
                        /\ Alike(r.tm[t], tm[t])
  BY <1>1, DetachedOk
<1>4. Become(r) /\ \A t \in Timers : tasks[k].timer = t => ~tm[t].is_running BY DEF RunIdle
<1> HIDE DEF r
<1>5. Linked(r) BY <1>2, <1>3, <1>4 DEF Linked, RunsInTime
<1>6. ObjectsOk' BY <1>1, <1>2, <1>4, <1>5, BecomeOk DEF ObjectsOk, ObjectsTypeOK
<1>7. \A t \in Timers : /\ tm'[t].is_running = tm[t].is_running
                        /\ tm'[t].alive = tm[t].alive /\ tm'[t].user_task = tm[t].user_task
                        /\ tm'[t].is_repeating = tm[t].is_repeating
                        /\ tm'[t].desired_run_time = tm[t].desired_run_time
                        /\ tm'[t].scheduled_run_time = tm[t].scheduled_run_time
  BY <1>3, <1>4 DEF Become, Alike
<1>8. MapTypes' BY <1>1 DEF MapTypes
<1>9. Owned' BY <1>1, <1>7 DEF Owned
<1>10. OneShot' BY <1>1, <1>7 DEF OneShot
<1>11. Set' = Set BY DEF Set
<1>12. DueFor' = DueFor
  <2>1. \A id \in UserTasks : RingsFor(id)' = RingsFor(id) BY <1>1, <1>7 DEF RingsFor, MapTypes
  <2>2. QED BY <2>1 DEF DueFor
<1>13. UNCHANGED IdAlarms!vars
  BY <1>11, <1>12 DEF IdAlarms!vars, Set, DueFor, RingsFor
<1>14. QED BY <1>6, <1>8, <1>9, <1>10, <1>13 DEF ManagerInv, ManagerStep

(* handle_timeout: the timer whose task runs is the one of its id, is due, *)
(* and is deleted with its place in the map before OnTimer is called.      *)
LEMMA TimeoutStep ==
  ASSUME ManagerInv, NEW k \in Tasks, NEW t \in Timers, NEW j \in Tasks, Rings(k, t),
         Become(Erased(AfterRing(k, t, j), tm[t].user_task)),
         timers_' = [timers_ EXCEPT ![tm[t].user_task] = NULL],
         bell' = [bell EXCEPT ![tm[t].user_task] = ~bell[tm[t].user_task]],
         UNCHANGED <<now, up, exists, asked>>
  PROVE  ManagerInv' /\ ManagerStep
<1> DEFINE s == Detached(k)
           u == Stop(s, t)
           r == Destruct(u, t)
<1>1. ObjectsOk /\ MapTypes /\ Owned /\ OneShot BY DEF ManagerInv
<1>2. tm[t].alive /\ tm[t].desired_run_time <= now BY <1>1, RingsWhenDue
<1>3. up /\ tasks[k].timer = t BY DEF Rings, Due
<1>4. PICK id \in UserTasks : id = tm[t].user_task /\ timers_[id] = t
  BY <1>1, <1>2, <1>3 DEF Owned
<1>5. t # NULL BY TimerAssumption
<1>6. AfterRing(k, t, j) = u BY <1>1 DEF AfterRing, OneShot
<1>7. Become(r)
  <2>1. Erased(u, id) = r BY <1>4, <1>5 DEF Erased
  <2>2. QED BY <1>4, <1>6, <2>1
<1>8. s \in StateType /\ Pointers(s)
      /\ \A x \in Timers : tasks[k].timer # x => RunsInTime(s, x) /\ s.tm[x] = tm[x]
  BY <1>1, DetachedOk
<1> HIDE DEF s
<1>9. Others(s, t) /\ \A x \in Timers \ {t} : s.tm[x] = tm[x] BY <1>3, <1>8 DEF Others
<1>10. u \in StateType /\ Linked(u) /\ \A x \in Timers \ {t} : u.tm[x] = s.tm[x]
  BY <1>8, <1>9, StopOk
<1> HIDE DEF u
<1>11. Pointers(u) /\ Others(u, t) BY <1>10 DEF Linked, Others
<1>12. r \in StateType /\ Linked(r) /\ r.tm[t] = NoObject
       /\ \A x \in Timers \ {t} : r.tm[x] = u.tm[x]
  BY <1>10, <1>11, DestructOk
<1> HIDE DEF r
<1>13. ObjectsOk' BY <1>1, <1>7, <1>12, BecomeOk DEF ObjectsOk, ObjectsTypeOK
<1>14. tm'[t] = NoObject /\ \A x \in Timers \ {t} : tm'[x] = tm[x]
  BY <1>7, <1>9, <1>10, <1>12 DEF Become
<1>15. timers_' = [timers_ EXCEPT ![id] = NULL] /\ bell' = [bell EXCEPT ![id] = ~bell[id]]
  BY <1>4
<1>16. bell' \in [UserTasks -> BOOLEAN] BY <1>1, <1>4, <1>15 DEF MapTypes
<1>17. /\ ManagerInv'
       /\ Set' = [a \in UserTasks |-> Set[a] /\ a \notin {id}]
       /\ DueFor' = [a \in UserTasks |-> IF a \in {id} THEN 0 ELSE DueFor[a]]
  BY <1>4, <1>13, <1>14, <1>15, <1>16, Removed
<1>18. Set[id] /\ DueFor[id] <= now BY <1>2, <1>3, <1>4, <1>5 DEF Set, DueFor, RingsFor
<1>19. Set' = [Set EXCEPT ![id] = FALSE]
  <2>1. \A a \in UserTasks : (Set[a] /\ a \notin {id}) = (IF a = id THEN FALSE ELSE Set[a])
    BY DEF Set
  <2>2. QED BY <1>17, <2>1 DEF Set
<1>20. DueFor' = [DueFor EXCEPT ![id] = 0] BY <1>17 DEF DueFor
<1>21. IdAlarms!Ring(id)
  BY <1>4, <1>15, <1>18, <1>19, <1>20 DEF IdAlarms!Ring, Set, DueFor, RingsFor
<1>22. QED BY <1>17, <1>21 DEF ManagerStep, IdAlarms!Next

LEMMA ManagerRunStep ==
  ASSUME ManagerInv, NEW k \in Tasks, RunTask(k)
  PROVE  ManagerInv' /\ ManagerStep
BY IdleStep, TimeoutStep DEF RunTask

(* The timers of a loop that is gone stay in the map and ring no more.     *)
LEMMA ManagerLoopStep ==
  ASSUME ManagerInv, DestroyLoop
  PROVE  ManagerInv' /\ ManagerStep
<1> DEFINE r == LoopGone
<1>1. ObjectsOk /\ MapTypes /\ Owned /\ OneShot BY DEF ManagerInv
<1>2. Become(r) /\ up' = FALSE /\ UNCHANGED <<now, timers_, exists, bell, asked>>
  BY DEF DestroyLoop
<1>3. /\ r \in StateType /\ Linked(r)
      /\ \A t \in Timers : /\ r.tm[t].alive = tm[t].alive
                           /\ r.tm[t].is_repeating = tm[t].is_repeating
                           /\ r.tm[t].desired_run_time = tm[t].desired_run_time
                           /\ r.tm[t].scheduled_run_time = tm[t].scheduled_run_time
  BY <1>1, LoopGoneOk
<1> HIDE DEF r
<1>4. ObjectsOk' BY <1>1, <1>2, <1>3, BecomeOk DEF ObjectsOk, ObjectsTypeOK
<1>5. tm' = r.tm BY <1>2 DEF Become
<1>6. MapTypes' BY <1>1, <1>2 DEF MapTypes
<1>7. Owned' BY <1>1, <1>2, <1>3, <1>5 DEF Owned
<1>8. OneShot' BY <1>1, <1>3, <1>5 DEF OneShot
<1>9. Set' = [a \in UserTasks |-> Set[a] /\ a \notin UserTasks] BY <1>2 DEF Set
<1>10. DueFor' = [a \in UserTasks |-> IF a \in UserTasks THEN 0 ELSE DueFor[a]]
  BY <1>2 DEF DueFor, RingsFor
<1>11. IdAlarms!Cancel(UserTasks)
  BY <1>2, <1>9, <1>10 DEF IdAlarms!Cancel, Set, DueFor, RingsFor
<1>12. QED BY <1>4, <1>6, <1>7, <1>8, <1>11 DEF ManagerInv, ManagerStep, IdAlarms!Next

LEMMA ManagerSame ==
  ASSUME ManagerInv, UNCHANGED <<up, tm, tasks, timers_, exists, bell, asked>>,
         now' \in Nat \ {0}
  PROVE  ManagerInv' /\ Set' = Set /\ DueFor' = DueFor
<1>1. ObjectsOk' BY DEF ManagerInv, ObjectsOk, ObjectsTypeOK, Linked, Pointers, PointsBack,
                        TaskPointsBack, RunsInTime, State
<1>2. MapTypes' /\ Owned' /\ OneShot' BY DEF ManagerInv, MapTypes, Owned, OneShot
<1>3. Set' = Set /\ DueFor' = DueFor BY DEF Set, DueFor, RingsFor
<1>4. QED BY <1>1, <1>2, <1>3 DEF ManagerInv

LEMMA ManagerPassStep ==
  ASSUME ManagerInv, Pass
  PROVE  ManagerInv' /\ ManagerStep
<1>1. /\ now < MaxTime /\ now' = now + 1
      /\ UNCHANGED <<up, tm, tasks, timers_, exists, bell, asked>>
  BY DEF Pass, Tick
<1>2. now' \in Nat \ {0} BY <1>1 DEF ManagerInv, ObjectsOk, ObjectsTypeOK
<1>3. ManagerInv' /\ Set' = Set /\ DueFor' = DueFor BY <1>1, <1>2, ManagerSame
<1>4. IdAlarms!Tick
  BY <1>1, <1>3 DEF IdAlarms!Tick, Set, DueFor, RingsFor
<1>5. QED BY <1>3, <1>4 DEF ManagerStep, IdAlarms!Next

LEMMA ManagerNextStep ==
  ASSUME ManagerInv, [Next]_vars
  PROVE  ManagerInv' /\ ManagerStep
<1>1. CASE UNCHANGED vars
  <2>1. UNCHANGED <<now, up, tm, tasks, timers_, exists, bell, asked>> BY <1>1 DEF vars
  <2>2. now' \in Nat \ {0} BY <2>1 DEF ManagerInv, ObjectsOk, ObjectsTypeOK
  <2>3. ManagerInv' /\ Set' = Set /\ DueFor' = DueFor BY <2>1, <2>2, ManagerSame
  <2>4. UNCHANGED IdAlarms!vars
    BY <2>1, <2>3 DEF IdAlarms!vars, Set, DueFor, RingsFor
  <2>5. QED BY <2>3, <2>4 DEF ManagerStep
<1>2. CASE Next
  BY <1>2, SetTimerStep, KillTimerStep, DestroyStep, ManagerRunStep, ManagerLoopStep,
     ManagerPassStep DEF Next
<1>3. QED BY <1>1, <1>2

LEMMA ManagerInit == ASSUME Init PROVE ManagerInv /\ IdAlarms!Init
<1>1. /\ now = 1 /\ up = TRUE
      /\ tm = [t \in Timers |-> NoObject] /\ tasks = [k \in Tasks |-> NoTask]
  BY DEF Init, InitObjects
<1>2. /\ timers_ = [id \in UserTasks |-> NULL] /\ exists = TRUE
      /\ bell = [id \in UserTasks |-> FALSE] /\ asked = [id \in UserTasks |-> 0]
  BY DEF Init
<1>3. ObjectsOk BY <1>1, FreshOk DEF InitObjects
<1>4. MapTypes BY <1>2, TimerAssumption DEF MapTypes
<1>5. Owned
  <2>1. \A t \in Timers : ~tm[t].alive /\ t # NULL BY <1>1, TimerAssumption DEF NoObject
  <2>2. QED BY <1>2, <2>1 DEF Owned
<1>6. OneShot BY <1>1 DEF OneShot, NoObject
<1>7. IdAlarms!Init BY <1>1, <1>2 DEF IdAlarms!Init
<1>8. QED BY <1>3, <1>4, <1>5, <1>6, <1>7 DEF ManagerInv

LEMMA ManagerInvariant == Spec => []ManagerInv
<1>1. Init => ManagerInv BY ManagerInit
<1>2. ManagerInv /\ [Next]_vars => ManagerInv' BY ManagerNextStep
<1>3. QED BY <1>1, <1>2, PTL DEF Spec

(* The map of the TimerManager owns its timers: each base::Timer there is  *)
(* is the one of exactly the id whose handle_timeout it runs, and it runs  *)
(* while the loop lives; none outlives the manager its task is bound to    *)
(* Unretained, whichever ids are set, killed and expire, and when.         *)
THEOREM MapOwnsItsTimers == Spec => []MapOwnsTimers
<1>1. ManagerInv => MapOwnsTimers
  <2> SUFFICES ASSUME ManagerInv PROVE MapOwnsTimers OBVIOUS
  <2>1. LinksAgree
    BY DEF ManagerInv, ObjectsOk, Linked, Pointers, PointsBack, TaskPointsBack, RunsInTime,
           State, LinksAgree
  <2>2. \A t \in Timers : tm[t].alive => \E id \in UserTasks : timers_[id] = t
    BY DEF ManagerInv, Owned
  <2>3. \A id \in UserTasks : timers_[id] # NULL =>
          /\ exists /\ tm[timers_[id]].alive
          /\ up => tm[timers_[id]].is_running /\ tm[timers_[id]].user_task = id
    <3>1. \A id \in UserTasks : timers_[id] # NULL => timers_[id] \in Timers
      BY DEF ManagerInv, MapTypes
    <3>2. QED BY <3>1 DEF ManagerInv, Owned
  <2>4. QED BY <2>1, <2>2, <2>3 DEF MapOwnsTimers
<1>2. QED BY <1>1, ManagerInvariant, PTL

(* TimerManager implements the safety part of Alarm for its ids: OnTimer   *)
(* is never called early, never for an id that was killed, and once for    *)
(* each time the id is set, although each time another base::Timer and     *)
(* another task stand for it, and the timer is deleted inside its own task.*)
THEOREM ManagerIsAnAlarm == Spec => IdAlarms!Spec
<1>1. Init => IdAlarms!Init BY ManagerInit
<1>2. ManagerInv /\ [Next]_vars => [IdAlarms!Next]_(IdAlarms!vars)
  BY ManagerNextStep DEF ManagerStep
<1>3. QED BY <1>1, <1>2, ManagerInvariant, PTL DEF Spec, IdAlarms!Spec

(* A timer of the manager is set once and never later, so its task never   *)
(* runs before the timer is to ring: RunScheduledTask posts no further     *)
(* task for it, which is why TimerManager has no action that does.         *)
THEOREM NoTaskRunsEarly == Spec => [](\A t \in Timers : ~MustWait(t))
<1>1. ManagerInv => \A t \in Timers : ~MustWait(t)
  <2> SUFFICES ASSUME ManagerInv, NEW t \in Timers PROVE ~MustWait(t) OBVIOUS
  <2>1. tm[t].desired_run_time \in Nat
    BY DEF ManagerInv, ObjectsOk, ObjectsTypeOK, TimerRecord
  <2>2. tm[t].desired_run_time = tm[t].scheduled_run_time BY DEF ManagerInv, OneShot
  <2>3. QED BY <2>1, <2>2 DEF MustWait
<1>2. QED BY <1>1, ManagerInvariant, PTL
=============================================================================
