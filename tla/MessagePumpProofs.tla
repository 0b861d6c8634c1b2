--------------------------- MODULE MessagePumpProofs ---------------------------
(***************************************************************************)
(* Proofs about MessagePump for any number of threads and descriptors, any *)
(* capacity of the wakeup pipe and any delays: no wakeup is lost, the loop *)
(* waits exactly until its earliest delayed task, the pump outlives every  *)
(* post under way, and every task runs once, in its turn and in time.      *)
(***************************************************************************)
EXTENDS MessagePump, FiniteSetTheorems, SequenceTheorems,
        WellFoundedInduction, TLAPS

(* The strengthening of NoLostWakeup that is inductive: from the write of  *)
(* the pipe the wakeup travels through the pipe, the flag OnWakeup sets    *)
(* and Run's did_work until Run is back at DoWork.                         *)
WakeupOnItsWay ==
  incoming # <<>> /\ (lock = NoOne \/ ~was_empty) =>
    \/ pipe > 0
    \/ processed_io
    \/ pc \in {"DoWork", "Exited", "Destroying", "Gone"}
    \/ did_work /\ pc \in {"Poll", "DoDelayedWork"}

(* Where the loop still has tasks of its own, it knows that it does.       *)
WorkLeftIsKnown ==
  /\ pc \in {"Poll", "DoDelayedWork"} => work = <<>> \/ did_work
  /\ pc \in {"DoIdleWork", "Wait", "Blocked", "Sleeping"} => work = <<>>

(* The flag OnWakeup sets is consumed by the poll of the next round.       *)
FlagIsConsumed ==
  processed_io => pc \in {"DoWork", "Poll", "Exited", "Destroying", "Gone"}

(* From DoDelayedWork to the wait, nothing changes the time to sleep until *)
(* or the queue it was computed from.                                      *)
TimerIsSet ==
  pc \in {"DoIdleWork", "Wait", "Blocked", "Sleeping"} =>
    delayed_work_time = IF delayed = {} THEN 0 ELSE Top(delayed).due

Types ==
  /\ lock \in Thread \cup {NoOne}
  /\ was_empty \in BOOLEAN /\ did_work \in BOOLEAN /\ processed_io \in BOOLEAN
  /\ pc \in LoopStep
  /\ pipe \in Nat
  /\ now \in Nat \ {0}

(* The inductive invariant.                                                *)
IInv ==
  /\ Types
  /\ WakeupOnItsWay
  /\ WorkLeftIsKnown
  /\ FlagIsConsumed
  /\ TimerIsSet
  /\ PumpOutlivesPost

(* A write never empties the pipe.                                         *)
LEMMA WrittenPositive ==
  ASSUME NEW p \in Nat PROVE Written(p) \in Nat /\ Written(p) > 0
BY MessagePumpAssumption DEF Written

(* Dispatch takes at most one byte out of the pipe.                        *)
LEMMA DispatchNat == ASSUME pipe \in Nat, Dispatch PROVE pipe' \in Nat
<1>1. pipe' = IF pipe > 0 THEN pipe - 1 ELSE pipe BY Zenon DEF Dispatch
<1>2. QED BY <1>1

(* The initial state satisfies the inductive invariant.                    *)
LEMMA InitIInv == Init => IInv
<1> SUFFICES ASSUME Init PROVE IInv OBVIOUS
<1>1. Types
  <2>1. pipe \in Nat /\ now \in Nat \ {0} BY SMT DEF Init
  <2>2. /\ lock \in Thread \cup {NoOne}
        /\ was_empty \in BOOLEAN
        /\ did_work \in BOOLEAN
        /\ processed_io \in BOOLEAN
        /\ pc \in LoopStep
    BY Zenon DEF Init, LoopStep
  <2>3. QED BY <2>1, <2>2 DEF Types
<1>2. WakeupOnItsWay BY Zenon DEF Init, WakeupOnItsWay
<1>3. WorkLeftIsKnown BY DEF Init, WorkLeftIsKnown
<1>4. FlagIsConsumed BY Zenon DEF Init, FlagIsConsumed
<1>5. TimerIsSet BY DEF Init, TimerIsSet
<1>6. PumpOutlivesPost BY Zenon DEF Init, PumpOutlivesPost
<1>7. QED BY <1>1, <1>2, <1>3, <1>4, <1>5, <1>6 DEF IInv

(* A posting thread's two steps keep it: between them the queue is         *)
(* non-empty without a byte in the pipe, but only the lock's holder knows. *)
LEMMA PostStep ==
  ASSUME IInv, NEW t \in Thread, Push(t) \/ Wake(t) PROVE IInv'
<1> USE DEF IInv, Types, WakeupOnItsWay, WorkLeftIsKnown, FlagIsConsumed,
            TimerIsSet, PumpOutlivesPost
<1>1. CASE Push(t)
  BY <1>1, MessagePumpAssumption DEF Push, world, timing, quitting
<1>2. CASE Wake(t)
  BY <1>2, WrittenPositive, MessagePumpAssumption DEF Wake, world, timing, quitting
<1>3. QED BY <1>1, <1>2

(* Every step of the loop thread keeps it.                                 *)
LEMMA LoopStepKeeps == ASSUME IInv, Loop PROVE IInv'
<1> USE DEF IInv, Types, LoopStep
<1> USE DEF WakeupOnItsWay, WorkLeftIsKnown, FlagIsConsumed, TimerIsSet,
            PumpOutlivesPost
<1> USE DEF queue, world, timing, quitting
<1>1. CASE Reload BY <1>1 DEF Reload
<1>2. CASE PopDelayed BY <1>2 DEF PopDelayed
<1>3. CASE PopRun
  BY <1>3, WrittenPositive DEF PopRun, RunTask, Quit, Continue
<1>4. CASE Poll BY <1>4, DispatchNat DEF Poll, Continue
<1>5. CASE NothingDue BY <1>5 DEF NothingDue, Continue
<1>6. CASE RunDue
  BY <1>6, WrittenPositive DEF RunDue, RunTask, Quit, Continue
<1>7. CASE Idle BY <1>7, WrittenPositive DEF Idle, Quit, Continue
<1>8. CASE Wait BY <1>8 DEF Wait
<1>9. CASE Return BY <1>9, DispatchNat DEF Return
<1>10. CASE Timeout BY <1>10 DEF Timeout
<1>11. CASE DeletePendingTasks BY <1>11 DEF DeletePendingTasks
<1>12. CASE WillDestroy BY <1>12 DEF WillDestroy
<1>13. QED
  BY <1>1, <1>2, <1>3, <1>4, <1>5, <1>6, <1>7, <1>8, <1>9, <1>10, <1>11, <1>12
  DEF Loop

(* So does every step of the system.                                       *)
LEMMA StepIInv == IInv /\ [Next]_vars => IInv'
<1> SUFFICES ASSUME IInv, [Next]_vars PROVE IInv' OBVIOUS
<1> USE DEF queue, world, timing, quitting
<1>1. CASE \E t \in Thread : Push(t) \/ Wake(t) BY <1>1, PostStep
<1>2. CASE Loop BY <1>2, LoopStepKeeps
<1>3. ASSUME NEW f \in Fd, Arrive(f) PROVE IInv'
  BY <1>3 DEF Arrive, IInv, Types, WakeupOnItsWay, WorkLeftIsKnown,
    FlagIsConsumed, TimerIsSet, PumpOutlivesPost
<1>4. CASE Tick
  BY <1>4 DEF Tick, IInv, Types, WakeupOnItsWay, WorkLeftIsKnown,
    FlagIsConsumed, TimerIsSet, PumpOutlivesPost
<1>5. CASE UNCHANGED vars
  BY <1>5 DEF vars, IInv, Types, WakeupOnItsWay, WorkLeftIsKnown,
    FlagIsConsumed, TimerIsSet, PumpOutlivesPost
<1>6. QED BY <1>1, <1>2, <1>3, <1>4, <1>5 DEF Next

(* The loop never waits in libevent while a complete post is in the        *)
(* incoming queue without a byte in the pipe, nor with tasks of its own    *)
(* left (PostPendingTask, OnWakeup, Run).                                  *)
THEOREM NoWakeupIsLost == Spec => []NoLostWakeup
<1>1. IInv => NoLostWakeup
  BY DEF IInv, Types, WakeupOnItsWay, WorkLeftIsKnown, FlagIsConsumed, NoLostWakeup
<1>2. QED BY <1>1, InitIInv, StepIInv, PTL DEF Spec

(* The time the loop waits until is that of its earliest delayed task      *)
(* (DoDelayedWork, ScheduleDelayedWork, Run).                              *)
THEOREM WaitsForEarliest == Spec => []SleepsUntilDue
<1>1. IInv => SleepsUntilDue BY DEF IInv, TimerIsSet, SleepsUntilDue
<1>2. QED BY <1>1, InitIInv, StepIInv, PTL DEF Spec

(* ~MessageLoop does not delete the pump while a thread is between its     *)
(* push and its write of the wakeup pipe (WillDestroyCurrentMessageLoop).  *)
THEOREM PumpLivesThroughPost == Spec => []PumpOutlivesPost
<1>1. IInv => PumpOutlivesPost BY DEF IInv
<1>2. QED BY <1>1, InitIInv, StepIInv, PTL DEF Spec

-----------------------------------------------------------------------------
(* The history: where each task is, and in which order they ran.           *)

RanTask == [id : 1 .. MaxPosts, due : 0 .. MaxTime, at : 1 .. MaxTime]

(* The part of the type invariant that the history is about; the cached    *)
(* clock never runs ahead.                                                 *)
QueueTypes ==
  /\ incoming \in Seq(PendingTask) /\ work \in Seq(PendingTask)
  /\ delayed \subseteq PendingTask
  /\ posted \in 0 .. MaxPosts
  /\ ran \in Seq(RanTask)
  /\ dropped \subseteq 1 .. MaxPosts

ClockIsBehind == now \in 1 .. MaxTime /\ recent_time \in 0 .. now

(* The tasks that left the loop's own queue: waiting for their time, run,  *)
(* or deleted.                                                             *)
DelayedIds == {a.id : a \in delayed}

Gone == DelayedIds \cup Ids(ran) \cup dropped

(* The tasks of a queue are in the order of their sequence numbers; those  *)
(* of a history differ.                                                    *)
InLine(q) == \A i, j \in DOMAIN q : i < j => q[i].id < q[j].id

Distinct(q) == \A i, j \in DOMAIN q : q[i].id = q[j].id => i = j

(* Every posted task is somewhere, and those that left the queue are in    *)
(* one place only.                                                         *)
Accounted ==
  /\ 1 .. posted = Ids(incoming) \cup Ids(work) \cup Gone
  /\ Ids(ran) \cap DelayedIds = {} /\ Ids(ran) \cap dropped = {} /\ DelayedIds \cap dropped = {}
  /\ Distinct(ran)
  /\ \A a, b \in delayed : a.id = b.id => a = b

(* A task overtakes none on its way from the incoming queue out of the     *)
(* loop's own.                                                             *)
FirstInFirstOut ==
  /\ InLine(incoming) /\ InLine(work)
  /\ \A w \in Ids(work) : \A p \in Ids(incoming) : w < p
  /\ \A g \in Gone : \A w \in Ids(work) \cup Ids(incoming) : g < w

(* What ran before a delayed task that was posted earlier was due earlier: *)
(* that makes the order of the history inductive.                          *)
DelayedWaits ==
  \A a \in delayed :
    /\ a.due > 0
    /\ \A i \in DOMAIN ran : ran[i].id > a.id => ran[i].due < a.due

(* The inductive invariant of the history.                                 *)
HInv == /\ QueueTypes /\ ClockIsBehind /\ Accounted /\ FirstInFirstOut /\ DelayedWaits
        /\ RunsInOrder /\ NotEarly

(* A set of naturals has a least element.                                  *)
LEMMA LeastNat ==
  ASSUME NEW S, S \subseteq Nat, S # {} PROVE \E x \in S : \A y \in S : x <= y
<1> DEFINE R == OpToRel(<, Nat)
<1>1. IsWellFoundedOn(R, Nat) BY NatLessThanWellFounded
<1>2. \A x, y \in Nat : y < x => <<y, x>> \in R BY DEF OpToRel
<1> HIDE DEF R
<1>3. PICK x \in S : \A y \in S : ~(<<y, x>> \in R) BY <1>1, WFMin
<1>4. ASSUME NEW y \in S PROVE x <= y
  <2>1. x \in Nat /\ y \in Nat /\ ~(y < x) BY <1>2, <1>3
  <2>2. QED BY <2>1
<1>5. QED BY <1>3, <1>4

(* The top of delayed_work_queue_ is a task no other one precedes.         *)
LEMMA TopIsFirst ==
  ASSUME NEW q, q \subseteq PendingTask, q # {}
  PROVE  Top(q) \in q /\ \A b \in q : Before(Top(q), b)
<1>1. \A a \in q : a.due \in Nat /\ a.id \in Nat BY MessagePumpAssumption DEF PendingTask
<1>2. PICK d \in {a.due : a \in q} : \A e \in {a.due : a \in q} : d <= e BY <1>1, LeastNat
<1> DEFINE E == {a \in q : a.due = d}
<1>3. PICK n \in {a.id : a \in E} : \A m \in {a.id : a \in E} : n <= m
  <2>1. {a.id : a \in E} # {} /\ {a.id : a \in E} \subseteq Nat BY <1>1, <1>2
  <2>2. QED BY <2>1, LeastNat
<1>4. PICK a \in q : a.due = d /\ a.id = n BY <1>3
<1>5. ASSUME NEW b \in q PROVE Before(a, b)
  <2>1. d <= b.due BY <1>2
  <2>2. b.due = d => n <= b.id BY <1>3
  <2>3. QED BY <1>1, <1>4, <2>1, <2>2 DEF Before
<1>6. QED BY <1>4, <1>5 DEF Top

(* Queues and their sequence numbers: the empty queue, a push, a pop.      *)
LEMMA IdsEmpty == Ids(<<>>) = {} /\ InLine(<<>>) /\ Distinct(<<>>)
BY DEF Ids, InLine, Distinct

LEMMA AppendAt ==
  ASSUME NEW S, NEW q \in Seq(S), NEW k \in S
  PROVE  /\ Append(q, k) \in Seq(S) /\ Len(q) \in Nat /\ DOMAIN q = 1 .. Len(q)
         /\ DOMAIN Append(q, k) = DOMAIN q \cup {Len(q) + 1} /\ Len(q) + 1 \notin DOMAIN q
         /\ \A i \in DOMAIN q : Append(q, k)[i] = q[i]
         /\ Append(q, k)[Len(q) + 1] = k
<1>1. Append(q, k) \in Seq(S) /\ Len(Append(q, k)) = Len(q) + 1 /\ Len(q) \in Nat
      /\ DOMAIN q = 1 .. Len(q) /\ DOMAIN Append(q, k) = 1 .. Len(Append(q, k))
      /\ (\A i \in 1 .. Len(q) : Append(q, k)[i] = q[i]) /\ Append(q, k)[Len(q) + 1] = k
  BY AppendProperties, LenProperties
<1>2. 1 .. Len(Append(q, k)) = 1 .. Len(q) \cup {Len(q) + 1} /\ Len(q) + 1 \notin 1 .. Len(q)
  BY <1>1
<1>3. QED BY <1>1, <1>2

LEMMA IdsAppend ==
  ASSUME NEW S, NEW q \in Seq(S), NEW k \in S
  PROVE  Ids(Append(q, k)) = Ids(q) \cup {k.id}
BY AppendAt DEF Ids

LEMMA InLineAppend ==
  ASSUME NEW q \in Seq(PendingTask), NEW k \in PendingTask, InLine(q), \A i \in Ids(q) : i < k.id
  PROVE  InLine(Append(q, k))
<1>1. /\ Len(q) \in Nat /\ DOMAIN q = 1 .. Len(q)
      /\ DOMAIN Append(q, k) = DOMAIN q \cup {Len(q) + 1}
      /\ (\A i \in DOMAIN q : Append(q, k)[i] = q[i]) /\ Append(q, k)[Len(q) + 1] = k
  BY AppendAt
<1>2. \A i \in DOMAIN q : q[i].id < k.id BY DEF Ids
<1>3. SUFFICES ASSUME NEW i \in DOMAIN Append(q, k), NEW j \in DOMAIN Append(q, k), i < j
               PROVE  Append(q, k)[i].id < Append(q, k)[j].id
  BY DEF InLine
<1>4. i \in DOMAIN q BY <1>1, <1>3
<1>5. CASE j \in DOMAIN q BY <1>1, <1>3, <1>4, <1>5 DEF InLine
<1>6. CASE j = Len(q) + 1 BY <1>1, <1>2, <1>4, <1>6
<1>7. QED BY <1>1, <1>5, <1>6

LEMMA DistinctAppend ==
  ASSUME NEW q \in Seq(RanTask), NEW k \in RanTask, Distinct(q), k.id \notin Ids(q)
  PROVE  Distinct(Append(q, k))
<1>1. /\ DOMAIN Append(q, k) = DOMAIN q \cup {Len(q) + 1}
      /\ (\A i \in DOMAIN q : Append(q, k)[i] = q[i]) /\ Append(q, k)[Len(q) + 1] = k
  BY AppendAt
<1>2. \A i \in DOMAIN q : q[i].id # k.id BY DEF Ids
<1>3. QED BY <1>1, <1>2 DEF Distinct

LEMMA HeadFirst ==
  ASSUME NEW q \in Seq(PendingTask), q # <<>>, InLine(q)
  PROVE  /\ Head(q) \in PendingTask /\ Tail(q) \in Seq(PendingTask)
         /\ Ids(q) = {Head(q).id} \cup Ids(Tail(q))
         /\ \A i \in Ids(Tail(q)) : Head(q).id < i
         /\ InLine(Tail(q))
<1>1. /\ Tail(q) \in Seq(PendingTask) /\ Head(q) \in PendingTask /\ Head(q) = q[1]
      /\ Len(q) \in Nat /\ Len(q) # 0 /\ DOMAIN q = 1 .. Len(q)
      /\ DOMAIN Tail(q) = 1 .. Len(q) - 1 /\ \A i \in 1 .. Len(q) - 1 : Tail(q)[i] = q[i + 1]
  BY HeadTailProperties, LenProperties, EmptySeq, ElementOfSeq
<1>2. \A i \in DOMAIN Tail(q) :
        i \in Int /\ i + 1 \in DOMAIN q /\ 1 < i + 1 /\ Tail(q)[i] = q[i + 1]
  BY <1>1
<1>3. /\ 1 \in DOMAIN q
      /\ \A i \in DOMAIN q : i = 1 \/ (i - 1 \in DOMAIN Tail(q) /\ Tail(q)[i - 1] = q[i])
  BY <1>1
<1>4. Ids(q) = {Head(q).id} \cup Ids(Tail(q))
  <2>1. Ids(q) \subseteq {Head(q).id} \cup Ids(Tail(q)) BY <1>1, <1>3 DEF Ids
  <2>2. {Head(q).id} \cup Ids(Tail(q)) \subseteq Ids(q) BY <1>1, <1>2, <1>3 DEF Ids
  <2>3. QED BY <2>1, <2>2
<1>5. \A i \in Ids(Tail(q)) : Head(q).id < i BY <1>1, <1>2, <1>3 DEF Ids, InLine
<1>6. InLine(Tail(q)) BY <1>2 DEF InLine
<1>7. QED BY <1>1, <1>4, <1>5, <1>6

(* Running a task keeps the history in order, if what ran before it and    *)
(* was posted after it was due earlier.                                    *)
LEMMA RanOk ==
  ASSUME HInv, NEW k \in PendingTask, k.id \notin Ids(ran), k.due <= now,
         \A i \in DOMAIN ran : k.id < ran[i].id => ran[i].due < k.due,
         ran' = Append(ran, [id |-> k.id, due |-> k.due, at |-> now])
  PROVE  /\ ran' \in Seq(RanTask)
         /\ Ids(ran') = Ids(ran) \cup {k.id}
         /\ Distinct(ran')
         /\ \A i \in DOMAIN ran' : \/ i \in DOMAIN ran /\ ran'[i] = ran[i]
                                   \/ ran'[i].id = k.id /\ ran'[i].due = k.due
         /\ RunsInOrder' /\ NotEarly'
<1> DEFINE r == [id |-> k.id, due |-> k.due, at |-> now]
<1>1. r \in RanTask /\ r.id = k.id /\ r.due = k.due /\ r.at = now
  BY DEF HInv, ClockIsBehind, RanTask, PendingTask
<1>2. ran \in Seq(RanTask) /\ ran' = Append(ran, r) BY DEF HInv, QueueTypes
<1> HIDE DEF r
<1>3. /\ ran' \in Seq(RanTask) /\ Len(ran) \in Nat /\ DOMAIN ran = 1 .. Len(ran)
      /\ DOMAIN ran' = DOMAIN ran \cup {Len(ran) + 1} /\ Len(ran) + 1 \notin DOMAIN ran
      /\ (\A i \in DOMAIN ran : ran'[i] = ran[i]) /\ ran'[Len(ran) + 1] = r
  BY <1>1, <1>2, AppendAt
<1>4. Ids(ran') = Ids(ran) \cup {k.id} BY <1>1, <1>2, IdsAppend
<1>5. Distinct(ran') BY <1>1, <1>2, DistinctAppend DEF HInv, Accounted
<1>6. \A i \in DOMAIN ran : ran[i].id \in Int /\ ran[i].due \in Int /\ ran[i].at \in Int
  <2>1. \A i \in DOMAIN ran : ran[i] \in RanTask BY <1>2, <1>3, ElementOfSeq
  <2>2. QED BY <2>1, MessagePumpAssumption DEF RanTask
<1>7. k.id \in Int /\ k.due \in Int BY MessagePumpAssumption DEF PendingTask
<1>8. RunsInOrder'
  <2>1. SUFFICES ASSUME NEW i \in DOMAIN ran', NEW j \in DOMAIN ran',
                        ran'[i].id < ran'[j].id, ran'[i].due <= ran'[j].due
                 PROVE  i < j
    BY DEF RunsInOrder
  <2>2. CASE i \in DOMAIN ran /\ j \in DOMAIN ran
    BY <1>3, <2>1, <2>2 DEF HInv, RunsInOrder
  <2>3. CASE i \in DOMAIN ran /\ j = Len(ran) + 1 BY <1>3, <2>3
  <2>4. CASE i = Len(ran) + 1 /\ j \in DOMAIN ran
    <3>1. k.id < ran[j].id /\ k.due <= ran[j].due BY <1>1, <1>3, <2>1, <2>4
    <3>2. QED BY <1>6, <1>7, <2>4, <3>1
  <2>5. CASE i = Len(ran) + 1 /\ j = Len(ran) + 1 BY <1>1, <1>3, <1>7, <2>1, <2>5
  <2>6. QED BY <1>3, <2>2, <2>3, <2>4, <2>5
<1>9. NotEarly' BY <1>1, <1>3 DEF HInv, NotEarly
<1>10. QED BY <1>1, <1>3, <1>4, <1>5, <1>8, <1>9

(* A push gives the next sequence number.                                  *)
LEMMA PushStep == ASSUME HInv, NEW t \in Thread, Push(t) PROVE HInv'
<1> USE DEF HInv
<1>1. PICK delay \in Delay, kind \in TaskKind :
        /\ now + delay <= MaxTime
        /\ incoming' = Append(incoming, [id |-> posted + 1, due |-> DelayedRuntime(delay),
                                         kind |-> kind])
  BY DEF Push
<1>2. /\ posted < MaxPosts /\ posted' = posted + 1
      /\ UNCHANGED <<work, delayed, recent_time, now, ran, dropped>>
  BY DEF Push, timing, world
<1>3. PICK k : k = [id |-> posted + 1, due |-> DelayedRuntime(delay), kind |-> kind] OBVIOUS
<1>4. k \in PendingTask /\ k.id = posted + 1
  <2>1. delay \in Nat /\ now \in Nat /\ MaxPosts \in Nat /\ posted \in Nat /\ MaxTime \in Nat
    BY MessagePumpAssumption DEF ClockIsBehind, QueueTypes
  <2>2. DelayedRuntime(delay) \in 0 .. MaxTime BY <1>1, <2>1 DEF DelayedRuntime
  <2>3. posted + 1 \in 1 .. MaxPosts BY <1>2, <2>1
  <2>4. QED BY <1>3, <2>2, <2>3 DEF PendingTask
<1>5. incoming' = Append(incoming, k) /\ incoming \in Seq(PendingTask) BY <1>1, <1>3 DEF QueueTypes
<1>6. incoming' \in Seq(PendingTask) BY <1>4, <1>5, AppendAt
<1>7. Ids(incoming') = Ids(incoming) \cup {posted + 1} BY <1>4, <1>5, IdsAppend
<1>8. posted \in Nat BY MessagePumpAssumption DEF QueueTypes
<1>9. Ids(incoming) \cup Ids(work) \cup Gone = 1 .. posted BY DEF Accounted
<1>10. \A i \in Ids(incoming) \cup Ids(work) \cup Gone : i < posted + 1 BY <1>8, <1>9
<1>11. InLine(incoming') BY <1>4, <1>5, <1>10, InLineAppend DEF FirstInFirstOut
<1>12. Gone' = Gone /\ DelayedIds' = DelayedIds BY <1>2 DEF Gone, DelayedIds
<1>13. FirstInFirstOut'
  BY <1>2, <1>7, <1>10, <1>11, <1>12 DEF FirstInFirstOut
<1>14. 1 .. posted' = Ids(incoming') \cup Ids(work') \cup Gone'
  <2>1. 1 .. posted + 1 = 1 .. posted \cup {posted + 1} BY <1>8
  <2>2. QED BY <1>2, <1>7, <1>9, <1>12, <2>1
<1>15. Accounted' BY <1>2, <1>12, <1>14 DEF Accounted
<1>16. QueueTypes' BY <1>2, <1>6, <1>8, MessagePumpAssumption DEF QueueTypes
<1>17. ClockIsBehind' /\ DelayedWaits' /\ RunsInOrder' /\ NotEarly'
  BY <1>2 DEF ClockIsBehind, DelayedWaits, RunsInOrder, NotEarly
<1>18. QED BY <1>13, <1>15, <1>16, <1>17

(* Steps that move no task.                                                *)
LEMMA SameQueues ==
  ASSUME HInv, UNCHANGED <<incoming, work, delayed, posted, ran, dropped>>, ClockIsBehind'
  PROVE  HInv'
<1>1. QueueTypes' BY DEF HInv, QueueTypes
<1>2. Gone' = Gone /\ DelayedIds' = DelayedIds BY DEF Gone, DelayedIds
<1>3. Accounted' BY <1>2 DEF HInv, Accounted
<1>4. FirstInFirstOut' BY <1>2 DEF HInv, FirstInFirstOut
<1>5. DelayedWaits' /\ RunsInOrder' /\ NotEarly'
  BY DEF HInv, DelayedWaits, RunsInOrder, NotEarly
<1>6. QED BY <1>1, <1>3, <1>4, <1>5 DEF HInv

(* The swap of the queues happens only when the loop's own is empty.       *)
LEMMA ReloadStep == ASSUME HInv, Reload PROVE HInv'
<1> USE DEF HInv
<1>1. /\ work = <<>> /\ incoming' = <<>> /\ work' = incoming
      /\ UNCHANGED <<delayed, posted, recent_time, now, ran, dropped>>
  BY DEF Reload, timing, world
<1>2. Gone' = Gone /\ DelayedIds' = DelayedIds BY <1>1 DEF Gone, DelayedIds
<1>3. Ids(incoming') = {} /\ InLine(incoming') /\ Ids(work) = {} /\ Ids(work') = Ids(incoming)
  BY <1>1, IdsEmpty
<1>4. QueueTypes' BY <1>1 DEF QueueTypes
<1>5. FirstInFirstOut' BY <1>1, <1>2, <1>3 DEF FirstInFirstOut
<1>6. 1 .. posted' = Ids(incoming') \cup Ids(work') \cup Gone' BY <1>1, <1>2, <1>3 DEF Accounted
<1>7. Accounted' BY <1>1, <1>2, <1>6 DEF Accounted
<1>8. ClockIsBehind' /\ DelayedWaits' /\ RunsInOrder' /\ NotEarly'
  BY <1>1 DEF ClockIsBehind, DelayedWaits, RunsInOrder, NotEarly
<1>9. QED BY <1>4, <1>5, <1>7, <1>8

(* The first task of the loop's queue is older than those behind it and    *)
(* younger than those that left.                                           *)
LEMMA FirstOfWork ==
  ASSUME HInv, work # <<>>, work' = Tail(work), UNCHANGED <<incoming, posted>>,
         Gone' = Gone \cup {Head(work).id}
  PROVE  /\ Head(work) \in PendingTask /\ work' \in Seq(PendingTask)
         /\ Head(work).id \notin Gone
         /\ \A g \in Gone : g < Head(work).id
         /\ FirstInFirstOut'
         /\ 1 .. posted' = Ids(incoming') \cup Ids(work') \cup Gone'
<1> USE DEF HInv
<1>1. /\ Head(work) \in PendingTask /\ work' \in Seq(PendingTask)
      /\ Ids(work) = {Head(work).id} \cup Ids(work')
      /\ \A i \in Ids(work') : Head(work).id < i
      /\ InLine(work')
  BY HeadFirst DEF QueueTypes, FirstInFirstOut
<1>2. \A g \in Gone : g < Head(work).id BY <1>1 DEF FirstInFirstOut
<1>3. Head(work).id \in Int BY <1>1, MessagePumpAssumption DEF PendingTask
<1>4. Head(work).id \notin Gone BY <1>2, <1>3
<1>5. FirstInFirstOut' BY <1>1 DEF FirstInFirstOut
<1>6. 1 .. posted' = Ids(incoming') \cup Ids(work') \cup Gone' BY <1>1 DEF Accounted
<1>7. QED BY <1>1, <1>2, <1>4, <1>5, <1>6

(* A delayed task goes to its queue, younger than all that ran.            *)
LEMMA PopDelayedStep == ASSUME HInv, PopDelayed PROVE HInv'
<1> USE DEF HInv
<1>1. /\ work # <<>> /\ Head(work).due > 0 /\ work' = Tail(work)
      /\ delayed' = delayed \cup {Head(work)}
      /\ UNCHANGED <<incoming, posted, recent_time, now, ran, dropped>>
  BY DEF PopDelayed, queue, world
<1>2. PICK k : k = Head(work) OBVIOUS
<1>3. DelayedIds' = DelayedIds \cup {k.id} BY <1>1, <1>2 DEF DelayedIds
<1>4. Gone' = Gone \cup {Head(work).id} BY <1>1, <1>2, <1>3 DEF Gone
<1>5. /\ k \in PendingTask /\ work' \in Seq(PendingTask) /\ k.id \notin Gone
      /\ (\A g \in Gone : g < k.id) /\ FirstInFirstOut'
      /\ 1 .. posted' = Ids(incoming') \cup Ids(work') \cup Gone'
  BY <1>1, <1>2, <1>4, FirstOfWork
<1>6. QueueTypes' BY <1>1, <1>2, <1>5 DEF QueueTypes
<1>7. Accounted'
  <2>1. \A a \in delayed : a.id # k.id BY <1>5 DEF Gone, DelayedIds
  <2>2. \A a, b \in delayed' : a.id = b.id => a = b BY <1>1, <1>2, <2>1 DEF Accounted
  <2>3. k.id \notin Ids(ran) /\ k.id \notin dropped BY <1>5 DEF Gone
  <2>4. QED BY <1>1, <1>3, <1>5, <2>2, <2>3 DEF Accounted
<1>8. DelayedWaits'
  <2>1. \A i \in DOMAIN ran : ran[i].id < k.id BY <1>5 DEF Gone, Ids
  <2>2. k.id \in Int BY <1>5, MessagePumpAssumption DEF PendingTask
  <2>3. \A i \in DOMAIN ran : ran[i].id \in Int
    <3>1. \A i \in DOMAIN ran : ran[i] \in RanTask BY ElementOfSeq, LenProperties DEF QueueTypes
    <3>2. QED BY <3>1, MessagePumpAssumption DEF RanTask
  <2>4. QED BY <1>1, <1>2, <2>1, <2>2, <2>3 DEF DelayedWaits
<1>9. ClockIsBehind' /\ RunsInOrder' /\ NotEarly'
  BY <1>1 DEF ClockIsBehind, RunsInOrder, NotEarly
<1>10. QED BY <1>5, <1>6, <1>7, <1>8, <1>9

(* A task without a delay runs, younger than all that ran.                 *)
LEMMA PopRunStep == ASSUME HInv, PopRun PROVE HInv'
<1> USE DEF HInv
<1>1. PICK k : k = Head(work) OBVIOUS
<1>2. /\ work # <<>> /\ k.due = 0 /\ work' = Tail(work)
      /\ ran' = Append(ran, [id |-> k.id, due |-> k.due, at |-> now])
      /\ UNCHANGED <<incoming, posted, delayed, recent_time, now, dropped>>
  BY <1>1 DEF PopRun, RunTask, queue, world, timing
<1>3. /\ k \in PendingTask /\ work' \in Seq(PendingTask) /\ k.id \notin Gone
      /\ \A g \in Gone : g < k.id
  <2>1. k \in PendingTask /\ work' \in Seq(PendingTask) /\ k.id \in Ids(work)
    BY <1>1, <1>2, HeadFirst DEF QueueTypes, FirstInFirstOut
  <2>2. \A g \in Gone : g < k.id BY <2>1 DEF FirstInFirstOut
  <2>3. k.id \in Int BY <2>1, MessagePumpAssumption DEF PendingTask
  <2>4. QED BY <2>1, <2>2, <2>3
<1>4. \A i \in DOMAIN ran : ran[i].id < k.id /\ ran[i].id \in Int
  <2>1. \A i \in DOMAIN ran : ran[i] \in RanTask BY ElementOfSeq, LenProperties DEF QueueTypes
  <2>2. QED BY <1>3, <2>1, MessagePumpAssumption DEF RanTask, Gone, Ids
<1>5. k.id \in Int /\ now \in Nat BY <1>3, MessagePumpAssumption DEF PendingTask, ClockIsBehind
<1>6. /\ ran' \in Seq(RanTask) /\ Ids(ran') = Ids(ran) \cup {k.id} /\ Distinct(ran')
      /\ \A i \in DOMAIN ran' : \/ i \in DOMAIN ran /\ ran'[i] = ran[i]
                                \/ ran'[i].id = k.id /\ ran'[i].due = k.due
      /\ RunsInOrder' /\ NotEarly'
  <2>1. k.id \notin Ids(ran) /\ k.due <= now BY <1>2, <1>3, <1>5 DEF Gone
  <2>2. \A i \in DOMAIN ran : k.id < ran[i].id => ran[i].due < k.due BY <1>4, <1>5
  <2>3. QED BY <1>2, <1>3, <2>1, <2>2, RanOk
<1>7. DelayedIds' = DelayedIds BY <1>2 DEF DelayedIds
<1>8. Gone' = Gone \cup {Head(work).id} BY <1>1, <1>2, <1>6, <1>7 DEF Gone
<1>9. FirstInFirstOut' /\ 1 .. posted' = Ids(incoming') \cup Ids(work') \cup Gone'
  BY <1>2, <1>8, FirstOfWork
<1>10. QueueTypes' BY <1>2, <1>3, <1>6 DEF QueueTypes
<1>11. Accounted'
  <2>1. k.id \notin DelayedIds /\ k.id \notin dropped BY <1>3 DEF Gone
  <2>2. QED BY <1>2, <1>6, <1>7, <1>9, <2>1 DEF Accounted
<1>12. DelayedWaits' BY <1>2, <1>6 DEF DelayedWaits
<1>13. ClockIsBehind' BY <1>2 DEF ClockIsBehind
<1>14. QED BY <1>6, <1>9, <1>10, <1>11, <1>12, <1>13

(* The top of the delayed queue runs: it is due by a clock that is behind, *)
(* and before every other that waits.                                      *)
LEMMA RunDueStep == ASSUME HInv, RunDue PROVE HInv'
<1> USE DEF HInv
<1>1. PICK k : k = Top(delayed) OBVIOUS
<1>2. /\ delayed # {} /\ k.due <= RecentTime(k.due) /\ recent_time' = RecentTime(k.due)
      /\ delayed' = delayed \ {k}
      /\ ran' = Append(ran, [id |-> k.id, due |-> k.due, at |-> now])
      /\ UNCHANGED <<incoming, posted, work, now, dropped>>
  BY <1>1 DEF RunDue, Due, RunTask, queue, world
<1>3. k \in delayed /\ k \in PendingTask /\ \A b \in delayed : Before(k, b)
  BY <1>1, <1>2, TopIsFirst DEF QueueTypes
<1>4. now \in Nat /\ RecentTime(k.due) \in 0 .. now /\ k.due <= now /\ k.id \in Int /\ k.due \in Int
  BY <1>2, <1>3, MessagePumpAssumption DEF ClockIsBehind, RecentTime, PendingTask
<1>5. k.id \in DelayedIds BY <1>3 DEF DelayedIds
<1>6. \A a \in delayed : a.id \in Int /\ a.due \in Int
  BY MessagePumpAssumption DEF QueueTypes, PendingTask
<1>7. /\ ran' \in Seq(RanTask) /\ Ids(ran') = Ids(ran) \cup {k.id} /\ Distinct(ran')
      /\ \A i \in DOMAIN ran' : \/ i \in DOMAIN ran /\ ran'[i] = ran[i]
                                \/ ran'[i].id = k.id /\ ran'[i].due = k.due
      /\ RunsInOrder' /\ NotEarly'
  <2>1. k.id \notin Ids(ran) BY <1>5 DEF Accounted
  <2>2. \A i \in DOMAIN ran : ran[i].id \in Int
    <3>1. \A i \in DOMAIN ran : ran[i] \in RanTask BY ElementOfSeq, LenProperties DEF QueueTypes
    <3>2. QED BY <3>1, MessagePumpAssumption DEF RanTask
  <2>3. \A i \in DOMAIN ran : k.id < ran[i].id => ran[i].due < k.due
    BY <1>3, <1>4, <2>2 DEF DelayedWaits
  <2>4. QED BY <1>2, <1>3, <1>4, <2>1, <2>3, RanOk
<1>8. DelayedIds' = DelayedIds \ {k.id}
  <2>1. \A a \in delayed : a.id = k.id => a = k BY <1>3 DEF Accounted
  <2>2. QED BY <1>2, <1>3, <2>1 DEF DelayedIds
<1>9. Gone' = Gone BY <1>2, <1>5, <1>7, <1>8 DEF Gone
<1>10. FirstInFirstOut' BY <1>2, <1>9 DEF FirstInFirstOut
<1>11. QueueTypes' BY <1>2, <1>7 DEF QueueTypes
<1>12. Accounted'
  <2>1. Ids(ran') \cap DelayedIds' = {} BY <1>7, <1>8 DEF Accounted
  <2>2. Ids(ran') \cap dropped = {} BY <1>5, <1>7 DEF Accounted
  <2>3. \A a, b \in delayed' : a.id = b.id => a = b BY <1>2 DEF Accounted
  <2>4. DelayedIds' \cap dropped = {} BY <1>8 DEF Accounted
  <2>5. 1 .. posted' = Ids(incoming') \cup Ids(work') \cup Gone' BY <1>2, <1>9 DEF Accounted
  <2>6. QED BY <1>2, <1>7, <2>1, <2>2, <2>3, <2>4, <2>5 DEF Accounted
<1>13. DelayedWaits'
  <2>1. SUFFICES ASSUME NEW a \in delayed'
                 PROVE  a.due > 0 /\ \A i \in DOMAIN ran' : ran'[i].id > a.id => ran'[i].due < a.due
    BY DEF DelayedWaits
  <2>2. a \in delayed /\ a # k BY <1>2, <2>1
  <2>3. k.id > a.id => k.due < a.due BY <1>3, <1>4, <1>6, <2>2 DEF Before
  <2>4. QED BY <1>7, <2>2, <2>3 DEF DelayedWaits
<1>14. ClockIsBehind' BY <1>2, <1>4 DEF ClockIsBehind
<1>15. QED BY <1>7, <1>10, <1>11, <1>12, <1>13, <1>14

(* What ~MessageLoop deletes has not run and does not run.                 *)
LEMMA DeletePendingTasksStep == ASSUME HInv, DeletePendingTasks PROVE HInv'
<1> USE DEF HInv
<1>1. /\ dropped' = dropped \cup Ids(incoming) \cup Ids(work) \cup DelayedIds
      /\ incoming' = <<>> /\ work' = <<>> /\ delayed' = {}
      /\ UNCHANGED <<posted, recent_time, now, ran>>
  BY DEF DeletePendingTasks, timing, world, DelayedIds
<1>2. DelayedIds' = {} BY <1>1 DEF DelayedIds
<1>3. Gone' = Ids(incoming) \cup Ids(work) \cup Gone BY <1>1, <1>2 DEF Gone
<1>4. Ids(incoming') = {} /\ InLine(incoming') /\ Ids(work') = {} /\ InLine(work')
  BY <1>1, IdsEmpty
<1>5. FirstInFirstOut' BY <1>4 DEF FirstInFirstOut
<1>6. 1 .. posted' = Ids(incoming') \cup Ids(work') \cup Gone' BY <1>1, <1>3, <1>4 DEF Accounted
<1>7. Ids(ran) \cap dropped' = {}
  <2>1. \A i \in Ids(ran) : i \in Gone BY DEF Gone
  <2>2. \A i \in Ids(ran) : i \in Int
    <3>1. \A i \in DOMAIN ran : ran[i] \in RanTask BY ElementOfSeq, LenProperties DEF QueueTypes
    <3>2. QED BY <3>1, MessagePumpAssumption DEF RanTask, Ids
  <2>3. \A i \in Ids(ran) : i \notin Ids(work) \cup Ids(incoming)
    BY <2>1, <2>2 DEF FirstInFirstOut
  <2>4. QED BY <1>1, <2>3 DEF Accounted
<1>8. Accounted' BY <1>1, <1>2, <1>6, <1>7 DEF Accounted
<1>9. QueueTypes'
  <2>1. <<>> \in Seq(PendingTask) OBVIOUS
  <2>2. Gone' \subseteq 1 .. MaxPosts
    <3>1. Gone' \subseteq 1 .. posted BY <1>3 DEF Accounted
    <3>2. QED BY <3>1, MessagePumpAssumption DEF QueueTypes
  <2>3. dropped' \subseteq 1 .. MaxPosts BY <2>2 DEF Gone
  <2>4. QED BY <1>1, <2>1, <2>3 DEF QueueTypes
<1>10. ClockIsBehind' /\ DelayedWaits' /\ RunsInOrder' /\ NotEarly'
  BY <1>1 DEF ClockIsBehind, DelayedWaits, RunsInOrder, NotEarly
<1>11. QED BY <1>5, <1>8, <1>9, <1>10

(* The other steps of the loop move no task.                               *)
LEMMA OtherLoopSteps ==
  ASSUME HInv, Poll \/ NothingDue \/ Idle \/ Wait \/ Return \/ Timeout \/ WillDestroy
  PROVE  HInv'
<1>1. UNCHANGED <<incoming, work, delayed, posted, ran, dropped, now>>
  BY DEF Poll, NothingDue, Idle, Wait, Return, Timeout, WillDestroy, queue, world
<1>2. recent_time' \in 0 .. now
  <2>1. CASE NothingDue
    <3>1. recent_time' \in {0, now, recent_time} BY <2>1 DEF NothingDue, RecentTime
    <3>2. QED BY <3>1 DEF HInv, ClockIsBehind
  <2>2. CASE ~NothingDue
    <3>1. recent_time' = recent_time
      BY <2>2 DEF Poll, Idle, Wait, Return, Timeout, WillDestroy, timing
    <3>2. QED BY <3>1 DEF HInv, ClockIsBehind
  <2>3. QED BY <2>1, <2>2
<1>3. ClockIsBehind' BY <1>1, <1>2 DEF HInv, ClockIsBehind
<1>4. QED BY <1>1, <1>3, SameQueues

(* The invariant holds at first, and every step keeps it.                  *)
LEMMA InitHInv == Init => HInv
<1> SUFFICES ASSUME Init PROVE HInv OBVIOUS
<1> USE DEF Init
<1>1. Ids(incoming) = {} /\ Ids(work) = {} /\ Ids(ran) = {} /\ InLine(incoming) /\ InLine(work)
      /\ Distinct(ran)
  BY IdsEmpty
<1>2. DelayedIds = {} BY DEF DelayedIds
<1>3. Gone = {} BY <1>1, <1>2 DEF Gone
<1>4. 1 .. posted = {} OBVIOUS
<1>5. Accounted BY <1>1, <1>2, <1>3, <1>4 DEF Accounted
<1>6. FirstInFirstOut BY <1>1, <1>3 DEF FirstInFirstOut
<1>7. QueueTypes
  <2>1. \A S : <<>> \in Seq(S) OBVIOUS
  <2>2. 0 \in 0 .. MaxPosts BY MessagePumpAssumption
  <2>3. QED BY <2>1, <2>2 DEF QueueTypes
<1>8. ClockIsBehind BY MessagePumpAssumption DEF ClockIsBehind
<1>9. DOMAIN ran = {} OBVIOUS
<1>10. DelayedWaits /\ RunsInOrder /\ NotEarly BY <1>9 DEF DelayedWaits, RunsInOrder, NotEarly
<1>11. QED BY <1>5, <1>6, <1>7, <1>8, <1>10 DEF HInv

LEMMA StepHInv == HInv /\ [Next]_vars => HInv'
<1> SUFFICES ASSUME HInv, [Next]_vars PROVE HInv' OBVIOUS
<1>1. ASSUME NEW t \in Thread, Push(t) PROVE HInv' BY <1>1, PushStep
<1>2. ASSUME NEW t \in Thread, Wake(t) PROVE HInv'
  <2>1. UNCHANGED <<incoming, work, delayed, posted, ran, dropped, recent_time, now>>
    BY <1>2 DEF Wake, timing, world
  <2>2. QED BY <2>1, SameQueues DEF HInv, ClockIsBehind
<1>3. CASE Loop
  BY <1>3, ReloadStep, PopDelayedStep, PopRunStep, RunDueStep, DeletePendingTasksStep,
     OtherLoopSteps DEF Loop
<1>4. ASSUME NEW f \in Fd, Arrive(f) PROVE HInv'
  <2>1. UNCHANGED <<incoming, work, delayed, posted, ran, dropped, recent_time, now>>
    BY <1>4 DEF Arrive, timing, queue
  <2>2. QED BY <2>1, SameQueues DEF HInv, ClockIsBehind
<1>5. CASE Tick
  <2>1. /\ UNCHANGED <<incoming, work, delayed, posted, ran, dropped, recent_time>>
        /\ now < MaxTime /\ now' = now + 1
    BY <1>5 DEF Tick, timing, queue
  <2>2. ClockIsBehind' BY <2>1, MessagePumpAssumption DEF HInv, ClockIsBehind
  <2>3. QED BY <2>1, <2>2, SameQueues
<1>6. CASE UNCHANGED vars
  <2>1. UNCHANGED <<incoming, work, delayed, posted, ran, dropped, recent_time, now>>
    BY <1>6 DEF vars, timing, queue, world
  <2>2. QED BY <2>1, SameQueues DEF HInv, ClockIsBehind
<1>7. QED BY <1>1, <1>2, <1>3, <1>4, <1>5, <1>6 DEF Next

One(b) == IF b THEN 1 ELSE 0

(* Distinct sequence numbers are counted once.                             *)
LEMMA CountIds ==
  ASSUME NEW q, Distinct(q), NEW i
  PROVE  Cardinality({j \in DOMAIN q : q[j].id = i}) = One(i \in Ids(q))
<1>1. CASE i \in Ids(q)
  <2>1. PICK j \in DOMAIN q : q[j].id = i BY <1>1 DEF Ids
  <2>2. {m \in DOMAIN q : q[m].id = i} = {j} BY <2>1 DEF Distinct
  <2>3. QED BY <1>1, <2>2, FS_Singleton DEF One
<1>2. CASE i \notin Ids(q)
  <2>1. {m \in DOMAIN q : q[m].id = i} = {} BY <1>2 DEF Ids
  <2>2. QED BY <1>2, <2>1, FS_EmptySet DEF One
<1>3. QED BY <1>1, <1>2

LEMMA InLineIsDistinct ==
  ASSUME NEW q \in Seq(PendingTask), InLine(q) PROVE Distinct(q)
<1>1. \A i \in DOMAIN q : q[i].id \in Int /\ i \in Int
  <2>1. \A i \in DOMAIN q : q[i] \in PendingTask /\ i \in Int BY ElementOfSeq, LenProperties
  <2>2. QED BY <2>1, MessagePumpAssumption DEF PendingTask
<1>2. \A i, j \in DOMAIN q : i < j \/ j < i \/ i = j BY <1>1
<1>3. QED BY <1>1, <1>2 DEF InLine, Distinct

(* Exactly one place for each posted task.                                 *)
LEMMA NoneIsLost == ASSUME HInv PROVE NothingLost
<1> USE DEF HInv
<1>1. SUFFICES ASSUME NEW i \in 1 .. posted
               PROVE  Cardinality({j \in DOMAIN incoming : incoming[j].id = i})
                        + Cardinality({j \in DOMAIN work : work[j].id = i})
                        + Cardinality({a \in delayed : a.id = i})
                        + Cardinality({j \in DOMAIN ran : ran[j].id = i})
                        + Cardinality({i} \cap dropped) = 1
  BY DEF NothingLost
<1>2. Distinct(incoming) /\ Distinct(work) /\ Distinct(ran)
  BY InLineIsDistinct DEF QueueTypes, FirstInFirstOut, Accounted
<1>3. /\ Cardinality({j \in DOMAIN incoming : incoming[j].id = i}) = One(i \in Ids(incoming))
      /\ Cardinality({j \in DOMAIN work : work[j].id = i}) = One(i \in Ids(work))
      /\ Cardinality({j \in DOMAIN ran : ran[j].id = i}) = One(i \in Ids(ran))
  BY <1>2, CountIds
<1>4. Cardinality({a \in delayed : a.id = i}) = One(i \in DelayedIds)
  <2>1. CASE i \in DelayedIds
    <3>1. PICK a \in delayed : a.id = i BY <2>1 DEF DelayedIds
    <3>2. {b \in delayed : b.id = i} = {a} BY <3>1 DEF Accounted
    <3>3. QED BY <2>1, <3>2, FS_Singleton DEF One
  <2>2. CASE i \notin DelayedIds
    <3>1. {b \in delayed : b.id = i} = {} BY <2>2 DEF DelayedIds
    <3>2. QED BY <2>2, <3>1, FS_EmptySet DEF One
  <2>3. QED BY <2>1, <2>2
<1>5. Cardinality({i} \cap dropped) = One(i \in dropped)
  <2>1. CASE i \in dropped
    <3>1. {i} \cap dropped = {i} BY <2>1
    <3>2. QED BY <2>1, <3>1, FS_Singleton DEF One
  <2>2. CASE i \notin dropped
    <3>1. {i} \cap dropped = {} BY <2>2
    <3>2. QED BY <2>2, <3>1, FS_EmptySet DEF One
  <2>3. QED BY <2>1, <2>2
<1>6. i \in Int /\ ~(i < i) BY DEF QueueTypes
<1>7. /\ \/ i \in Ids(incoming) \/ i \in Ids(work)
         \/ i \in DelayedIds \/ i \in Ids(ran) \/ i \in dropped
      /\ ~(i \in Ids(incoming) /\ i \in Ids(work))
      /\ i \in DelayedIds \/ i \in Ids(ran) \/ i \in dropped
           => i \notin Ids(incoming) /\ i \notin Ids(work)
      /\ ~(i \in Ids(ran) /\ i \in DelayedIds) /\ ~(i \in Ids(ran) /\ i \in dropped)
      /\ ~(i \in DelayedIds /\ i \in dropped)
  BY <1>6 DEF Accounted, FirstInFirstOut, Gone
<1>8. One(i \in Ids(incoming)) + One(i \in Ids(work)) + One(i \in DelayedIds) + One(i \in Ids(ran))
        + One(i \in dropped) = 1
  BY <1>7 DEF One
<1>9. QED BY <1>3, <1>4, <1>5, <1>8

(* Every accepted task is in exactly one place (queued, run or deleted),   *)
(* none runs twice; of two tasks the one posted first runs first unless it *)
(* asked for a later time; none runs early, although DoDelayedWork         *)
(* compares with recent_time_ (AddToIncomingQueue, ReloadWorkQueue,        *)
(* DoWork, DoDelayedWork, DeletePendingTasks).                             *)
THEOREM TasksRunOnceInTurn == Spec => []RunsOnceInTurn
<1>1. HInv => RunsOnceInTurn BY NoneIsLost DEF HInv, RunsOnceInTurn
<1>2. QED BY <1>1, InitHInv, StepHInv, PTL DEF Spec
=============================================================================
