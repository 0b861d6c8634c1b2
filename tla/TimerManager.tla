---------------------------- MODULE TimerManager ----------------------------
(***************************************************************************)
(* base2/timer_manager.{h,cc}: timers known by an id, each a one-shot      *)
(* base::Timer owned by the map timers_.  When one expires handle_timeout  *)
(* drops it from the map, and so deletes the base::Timer whose task is     *)
(* running, before it calls the delegate; the delegate may set and kill    *)
(* timers, the expired id included, which here are further steps.          *)
(*                                                                         *)
(* The user task of a timer is handle_timeout bound to its id, so          *)
(* UserTasks is the set of ids.                                            *)
(***************************************************************************)
EXTENDS TimerObjects

VARIABLES
  timers_,   (* the map: the timer of an id, or NULL                        *)
  exists,    (* the TimerManager has not been deleted                       *)
  bell,      (* bell[id] changes whenever the delegate's OnTimer(id) is run *)
  asked      (* history: the delay id was last set with                     *)

vars == <<now, up, tm, tasks, timers_, exists, bell, asked>>

Init ==
  /\ InitObjects
  /\ timers_ = [id \in UserTasks |-> NULL]
  /\ exists = TRUE
  /\ bell = [id \in UserTasks |-> FALSE]
  /\ asked = [id \in UserTasks |-> 0]

FaultyMayReplace(id) == TRUE

\* An id that exists is refused.
MaySet(id) == timers_[id] = NULL

SetTimer(id, d) ==
  /\ exists /\ up /\ MaySet(id)
  /\ \E t \in Timers, k \in Tasks :
       /\ ~tm[t].alive
       /\ Unused(State, k)
       /\ Become(Start(Construct(State, t, FALSE, FALSE), t, k, d, id))
       /\ timers_' = [timers_ EXCEPT ![id] = t]
  /\ asked' = [asked EXCEPT ![id] = d]
  /\ UNCHANGED <<now, up, exists, bell>>

FaultyKilled(s, t) == [s EXCEPT !.tm[t] = NoObject]

\* Stop, and the map's reference, the only one, goes.
Killed(s, t) == Destruct(Stop(s, t), t)

KillTimer(id) ==
  /\ exists /\ timers_[id] # NULL
  /\ Become(Killed(State, timers_[id]))
  /\ timers_' = [timers_ EXCEPT ![id] = NULL]
  /\ UNCHANGED <<now, up, exists, bell, asked>>

(***************************************************************************)
(* Destroy stops every timer and clears the map.  Its effect on each timer *)
(* is that of KillTimer and touches no other timer or task.                *)
(***************************************************************************)
Mapped == {timers_[id] : id \in UserTasks} \ {NULL}

Cleared ==
  [tm |-> [t \in Timers |-> IF t \in Mapped THEN Killed(State, t).tm[t] ELSE tm[t]],
   tasks |-> [k \in Tasks |-> IF tasks[k].timer \in Mapped
                              THEN Killed(State, tasks[k].timer).tasks[k] ELSE tasks[k]]]

Destroy(last) ==
  /\ exists
  /\ Become(Cleared)
  /\ timers_' = [id \in UserTasks |-> NULL]
  /\ exists' = ~last
  /\ UNCHANGED <<now, up, bell, asked>>

\* handle_timeout: the timer id has in the map, if any, is deleted.
Erased(s, id) == IF timers_[id] = NULL THEN s ELSE Destruct(s, timers_[id])

\* No timer here is set a second time, so RunEarly never applies.
RunTask(k) ==
  \/ RunIdle(k) /\ UNCHANGED <<now, up, timers_, exists, bell, asked>>
  \/ \E t \in Timers, j \in Tasks : LET id == tm[t].user_task IN
       /\ Rings(k, t)
       /\ Unused(Detached(k), j)
       /\ Become(Erased(AfterRing(k, t, j), id))
       /\ timers_' = [timers_ EXCEPT ![id] = NULL]
       /\ bell' = [bell EXCEPT ![id] = ~bell[id]]
       /\ UNCHANGED <<now, up, exists, asked>>

DestroyLoop ==
  /\ up
  /\ up' = FALSE
  /\ Become(LoopGone)
  /\ UNCHANGED <<now, timers_, exists, bell, asked>>

Pass == Tick /\ UNCHANGED <<up, tm, tasks, timers_, exists, bell, asked>>

Next ==
  \/ \E id \in UserTasks, d \in Delays : SetTimer(id, d)
  \/ \E id \in UserTasks : KillTimer(id)
  \/ \E last \in BOOLEAN : Destroy(last)
  \/ \E k \in Tasks : RunTask(k)
  \/ DestroyLoop
  \/ Pass

Spec == Init /\ [][Next]_vars

FairSpec == Spec /\ WF_vars(Pass) /\ \A k \in Tasks : WF_vars(RunTask(k))

-----------------------------------------------------------------------------
(***************************************************************************)
(* The map owns the timers: every base::Timer there is belongs to exactly  *)
(* one id, the one its user task reports, and while the loop lives it is   *)
(* running; none outlives its manager, so that handle_timeout never runs   *)
(* on a deleted TimerManager (it is bound Unretained).                     *)
(***************************************************************************)
MapOwnsTimers ==
  /\ \A t \in Timers : tm[t].alive => \E id \in UserTasks : timers_[id] = t
  /\ \A id \in UserTasks : timers_[id] # NULL =>
       LET o == tm[timers_[id]] IN
       /\ exists
       /\ o.alive
       /\ up => o.is_running /\ o.user_task = id
  /\ LinksAgree

IdAlarms == INSTANCE Alarm WITH
  Alarms <- UserTasks,
  armed <- [id \in UserTasks |-> timers_[id] # NULL /\ up],
  due <- [id \in UserTasks |-> IF timers_[id] # NULL /\ up
                               THEN tm[timers_[id]].desired_run_time ELSE 0],
  period <- asked,
  repeats <- [id \in UserTasks |-> FALSE]

(***************************************************************************)
(* SetTimer, KillTimer, Destroy and the timeouts keep the promise of Alarm *)
(* for every id: OnTimer is called once for every timer that is set and    *)
(* not killed, not early, and never for a killed one, although the timer   *)
(* objects and the tasks of an id are replaced each time it is set.        *)
(***************************************************************************)
ImplementsAlarms == IdAlarms!FairSpec
=============================================================================
