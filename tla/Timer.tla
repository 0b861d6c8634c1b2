------------------------------- MODULE Timer -------------------------------
(***************************************************************************)
(* base::Timer (base/timer/timer.{h,cc}) used directly: a thread           *)
(* constructs, starts, stops, resets and deletes timers, from anywhere and *)
(* so also from a user task a timer runs (RunScheduledTask touches no      *)
(* member after the user task, so what that does comes as further steps).  *)
(***************************************************************************)
EXTENDS TimerObjects

VARIABLE bell      (* bell[t] changes whenever t runs its user task         *)

vars == <<now, up, tm, tasks, bell>>

Init == InitObjects /\ bell = [t \in Timers |-> FALSE]

New(t, retain, repeat) ==
  /\ ~tm[t].alive
  /\ Become(Construct(State, t, retain, repeat))
  /\ UNCHANGED <<now, up, bell>>

NewWith(t, d, u, repeat) ==
  /\ ~tm[t].alive
  /\ Become(ConstructWith(State, t, d, u, repeat))
  /\ UNCHANGED <<now, up, bell>>

Delete(t) ==
  /\ tm[t].alive
  /\ Become(Destruct(State, t))
  /\ UNCHANGED <<now, up, bell>>

\* The caller's thread must have a loop to post to.
StartTimer(t, k, d, u) ==
  /\ up /\ tm[t].alive /\ Unused(State, k)
  /\ Become(Start(State, t, k, d, u))
  /\ UNCHANGED <<now, up, bell>>

StopTimer(t) ==
  /\ tm[t].alive
  /\ Become(Stop(State, t))
  /\ UNCHANGED <<now, up, bell>>

\* "The user_task_ must be set."
ResetTimer(t, k) ==
  /\ up /\ tm[t].alive /\ tm[t].user_task # NULL /\ Unused(State, k)
  /\ Become(Reset(State, t, k))
  /\ UNCHANGED <<now, up, bell>>

RunTask(k) ==
  \/ RunIdle(k) /\ UNCHANGED <<now, up, bell>>
  \/ \E t \in Timers, j \in Tasks : RunEarly(k, t, j) /\ UNCHANGED <<now, up, bell>>
  \/ \E t \in Timers, j \in Tasks :
       /\ Rings(k, t)
       /\ Unused(Detached(k), j)
       /\ Become(AfterRing(k, t, j))
       /\ bell' = [bell EXCEPT ![t] = ~bell[t]]
       /\ UNCHANGED <<now, up>>

DestroyLoop ==
  /\ up
  /\ up' = FALSE
  /\ Become(LoopGone)
  /\ UNCHANGED <<now, bell>>

Pass == Tick /\ UNCHANGED <<up, tm, tasks, bell>>

Next ==
  \/ \E t \in Timers, retain, repeat \in BOOLEAN : New(t, retain, repeat)
  \/ \E t \in Timers, d \in Delays, u \in UserTasks, repeat \in BOOLEAN :
       NewWith(t, d, u, repeat)
  \/ \E t \in Timers : Delete(t) \/ StopTimer(t)
  \/ \E t \in Timers, k \in Tasks, d \in Delays, u \in UserTasks : StartTimer(t, k, d, u)
  \/ \E t \in Timers, k \in Tasks : ResetTimer(t, k)
  \/ \E k \in Tasks : RunTask(k)
  \/ DestroyLoop
  \/ Pass

Spec == Init /\ [][Next]_vars

\* The loop runs what is due (MessagePump), and time passes.
FairSpec == Spec /\ WF_vars(Pass) /\ \A k \in Tasks : WF_vars(RunTask(k))

-----------------------------------------------------------------------------
TypeOK == ObjectsTypeOK /\ bell \in [Timers -> BOOLEAN]

Alarms == INSTANCE Alarm WITH
  Alarms <- Timers,
  armed <- [t \in Timers |-> tm[t].is_running],
  due <- [t \in Timers |-> IF tm[t].is_running THEN tm[t].desired_run_time ELSE 0],
  period <- [t \in Timers |-> tm[t].delay],
  repeats <- [t \in Timers |-> tm[t].is_repeating]

(***************************************************************************)
(* Timer keeps the promise of Alarm although it reuses and abandons tasks: *)
(* it never runs the user task early, never after Stop or the destructor,  *)
(* never twice for one Start, and a timer that is due runs it.             *)
(***************************************************************************)
ImplementsAlarm == Alarms!FairSpec
=============================================================================
