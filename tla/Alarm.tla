------------------------------- MODULE Alarm -------------------------------
(***************************************************************************)
(* What a timer promises its user: after it is set it rings once its delay *)
(* has passed and not before, never after it was cancelled, once for each  *)
(* time it is set (or, when it repeats, again one period after each ring). *)
(* base::Timer and TimerManager are both shown to implement it.            *)
(***************************************************************************)
EXTENDS Naturals

CONSTANTS Alarms,      \* the timers, or the ids of a TimerManager
          Delays,      \* the delays a user may ask for
          MaxTime      \* bound on the clock

VARIABLES now,         \* the clock
          armed,       \* armed[a]: a is set and has neither rung nor been cancelled
          due,         \* due[a]: a, when armed, does not ring before this time
          period,      \* period[a]: the delay a was last set to
          repeats,     \* repeats[a]: a sets itself again when it rings
          bell         \* bell[a]: changes at each ring of a

vars == <<now, armed, due, period, repeats, bell>>

\* Zero is the time that is always past: a delay of zero asks for "at once".
After(d) == IF d > 0 THEN now + d ELSE 0

Init ==
  /\ now = 1
  /\ armed = [a \in Alarms |-> FALSE]
  /\ due = [a \in Alarms |-> 0]
  /\ period = [a \in Alarms |-> 0]
  /\ repeats = [a \in Alarms |-> FALSE]
  /\ bell = [a \in Alarms |-> FALSE]

\* A new alarm in the place of a, of the kind r, with the delay d, not set.
Make(a, d, r) ==
  /\ ~armed[a]
  /\ period' = [period EXCEPT ![a] = d]
  /\ repeats' = [repeats EXCEPT ![a] = r]
  /\ UNCHANGED <<now, armed, due, bell>>

Set(a, d) ==
  /\ armed' = [armed EXCEPT ![a] = TRUE]
  /\ due' = [due EXCEPT ![a] = After(d)]
  /\ period' = [period EXCEPT ![a] = d]
  /\ UNCHANGED <<now, repeats, bell>>

\* The alarms of a set are cancelled together.
Cancel(A) ==
  /\ armed' = [a \in Alarms |-> armed[a] /\ a \notin A]
  /\ due' = [a \in Alarms |-> IF a \in A THEN 0 ELSE due[a]]
  /\ UNCHANGED <<now, period, repeats, bell>>

\* The alarm itself goes.
Drop(a) ==
  /\ armed' = [armed EXCEPT ![a] = FALSE]
  /\ due' = [due EXCEPT ![a] = 0]
  /\ period' = [period EXCEPT ![a] = 0]
  /\ repeats' = [repeats EXCEPT ![a] = FALSE]
  /\ UNCHANGED <<now, bell>>

Ring(a) ==
  /\ armed[a]
  /\ due[a] <= now
  /\ armed' = [armed EXCEPT ![a] = repeats[a]]
  /\ due' = [due EXCEPT ![a] = IF repeats[a] THEN After(period[a]) ELSE 0]
  /\ bell' = [bell EXCEPT ![a] = ~bell[a]]
  /\ UNCHANGED <<now, period, repeats>>

Tick ==
  /\ now < MaxTime
  /\ now' = now + 1
  /\ UNCHANGED <<armed, due, period, repeats, bell>>

Next ==
  \/ \E a \in Alarms, d \in Delays, r \in BOOLEAN : Make(a, d, r)
  \/ \E a \in Alarms, d \in Delays : Set(a, d)
  \/ \E A \in SUBSET Alarms : Cancel(A)
  \/ \E a \in Alarms : Drop(a) \/ Ring(a)
  \/ Tick

Spec == Init /\ [][Next]_vars

FairSpec == Spec /\ WF_vars(Tick) /\ \A a \in Alarms : WF_vars(Ring(a))
=============================================================================
