---------------------------- MODULE TCPServerProofs ----------------------------
(***************************************************************************)
(* Proofs about TCPServer for any size of the pool, any clients and any    *)
(* number of failing accepts: no accepted connection is lost, the round    *)
(* robin is fair, and no reactor's thread outlives the pool.               *)
(***************************************************************************)
EXTENDS TCPServer, TLAPS

-----------------------------------------------------------------------------
(* The inductive invariant.                                                *)

(* Shutdown has come past reactor r, or is waiting for it to exit.         *)
Stopping(r) == \/ ~pooled
               \/ pc = "stop" /\ r < i
               \/ pc = "join" /\ r <= i

(* Where the main thread is says which threads it has started: those below *)
(* i while Start runs, all of them once it is done.                        *)
Progress ==
  /\ pooled => PoolSize > 0
  /\ pc \in {"spawn", "wait", "join"} => pooled /\ i < PoolSize
  /\ pc = "new" => i = 0
  /\ pc \in {"new", "spawn", "wait"} => \A r \in Reactors : started[r] <=> r < i
  /\ pc = "loop" /\ pooled => \A r \in Reactors : started[r]
  /\ pc = "join" => started[i]
  /\ pc = "gone" => ~pooled /\ ~watched

(* A thread that Stop would find started has signalled; any other was not  *)
(* created or was joined, but for the one Start is waiting for.            *)
StartedThread(r) ==
  /\ started[r] => Signalled(r) /\ pooled
  /\ ~started[r] => thread[r] \in {"none", "exited"} \/ (pc = "wait" /\ r = i)
  /\ started[r] /\ pc \in {"stop", "join"} => r >= i

StartedThreads == \A r \in Reactors : StartedThread(r)

(* x is among the tasks of the queue q.                                    *)
In(x, q) == \E k \in 1 .. Len(q) : q[k] = x

(* message_loop_ is set from ThreadMain's start to its end; only a looping *)
(* thread has tasks; and only Stop makes it quit.                          *)
LoopAgrees(r) ==
  /\ message_loop[r] <=> thread[r] \in {"ready", "looping", "leaving"}
  /\ queue[r] # <<>> => thread[r] = "looping"
  /\ quit[r] => Stopping(r)
  /\ In(QUIT, queue[r]) => Stopping(r)
  /\ thread[r] \in {"leaving", "exited"} => Stopping(r)

LoopsAgree == \A r \in Reactors : LoopAgrees(r)

(* The connection whose OnCreated is posted is in the queue of its loop.   *)
ConnsAgree ==
  /\ \A c \in Conns : conn[c] = "posted" => at[c] \in Reactors /\ In(c, queue[at[c]])
  /\ late # {} => pc = "gone"

(* The reactors before next_reactor have had one connection more.          *)
Turn(r) == IF r < next_reactor THEN 1 ELSE 0

RoundRobin == \A r, s \in Reactors : load[r] + Turn(s) = load[s] + Turn(r)

IInv ==
  /\ TypeOK
  /\ Progress
  /\ StartedThreads
  /\ LoopsAgree
  /\ ConnsAgree
  /\ EveryAcceptedIsAnnounced
  /\ RoundRobin
  /\ NoThreadOutlivesPool

-----------------------------------------------------------------------------
(* What a post and a run of a task do to a queue.                          *)

LEMMA InAppend ==
  ASSUME NEW S, NEW q \in Seq(S), NEW x \in S, NEW y
  PROVE  /\ Append(q, x) \in Seq(S) /\ Append(q, x) # <<>>
         /\ In(y, Append(q, x)) <=> In(y, q) \/ y = x
<1>1. Append(q, x) \in Seq(S) /\ Append(q, x) # <<>>
  <2>1. Append(q, x) \in Seq(S) /\ Len(Append(q, x)) = Len(q) + 1 OBVIOUS
  <2>2. Len(Append(q, x)) # Len(<<>>) BY <2>1
  <2>3. QED BY <2>1, <2>2, Zenon
<1>2. In(y, q) => In(y, Append(q, x)) BY DEF In
<1>3. In(x, Append(q, x))
  <2>1. /\ Len(q) + 1 \in 1 .. Len(Append(q, x))
        /\ Append(q, x)[Len(q) + 1] = x OBVIOUS
  <2>2. QED BY <2>1 DEF In
<1>4. In(y, Append(q, x)) => In(y, q) \/ y = x
  <2>1. SUFFICES ASSUME NEW k \in 1 .. Len(Append(q, x)), Append(q, x)[k] = y, y # x
                 PROVE  In(y, q)
    BY DEF In
  <2>2. k \in 1 .. Len(q) /\ q[k] = y BY <2>1
  <2>3. QED BY <2>2 DEF In
<1>5. QED BY <1>1, <1>2, <1>3, <1>4

LEMMA InTail ==
  ASSUME NEW S, NEW q \in Seq(S), q # <<>>, NEW y
  PROVE  /\ Tail(q) \in Seq(S) /\ Head(q) \in S
         /\ In(y, q) <=> In(y, Tail(q)) \/ y = Head(q)
<1>1. Tail(q) \in Seq(S) /\ Head(q) \in S OBVIOUS
<1>2. In(y, Tail(q)) => In(y, q)
  <2>1. SUFFICES ASSUME NEW k \in 1 .. Len(Tail(q)), Tail(q)[k] = y PROVE In(y, q)
    BY DEF In
  <2>2. k + 1 \in 1 .. Len(q) /\ q[k + 1] = y BY <2>1
  <2>3. QED BY <2>2 DEF In
<1>3. In(Head(q), q)
  <2>1. 1 \in 1 .. Len(q) /\ q[1] = Head(q) OBVIOUS
  <2>2. QED BY <2>1 DEF In
<1>4. In(y, q) => In(y, Tail(q)) \/ y = Head(q)
  <2>1. SUFFICES ASSUME NEW k \in 1 .. Len(q), q[k] = y, y # Head(q) PROVE In(y, Tail(q))
    BY DEF In
  <2>2. k - 1 \in 1 .. Len(Tail(q)) /\ Tail(q)[k - 1] = y BY <2>1
  <2>3. QED BY <2>2 DEF In
<1>5. QED BY <1>1, <1>2, <1>3, <1>4

LEMMA InEmpty == ASSUME NEW y PROVE ~In(y, <<>>)
BY DEF In

-----------------------------------------------------------------------------
(* The inductive invariant holds initially, and every action keeps it.     *)

LEMMA InitIInv == Init => IInv
<1> SUFFICES ASSUME Init PROVE IInv OBVIOUS
<1> USE ServerAssumption DEF Init
<1>1. pooled \in BOOLEAN /\ (pooled => PoolSize > 0)
  <2>1. PoolSize \in Nat /\ pooled = (PoolSize > 0) OBVIOUS
  <2> HIDE DEF Init
  <2>2. pooled \in BOOLEAN BY <2>1
  <2>3. pooled => PoolSize > 0 BY <2>1
  <2>4. QED BY <2>2, <2>3
<1>2. TypeOK /\ Progress
  <2> HIDE DEF Init
  <2>1. /\ pc = "new" /\ i = 0 /\ next_reactor = 0 /\ fails = 0 /\ late = {}
        /\ result = "none" /\ watched = FALSE /\ ending = FALSE
        /\ thread = [r \in Reactors |-> "none"]
        /\ message_loop = [r \in Reactors |-> FALSE]
        /\ started = [r \in Reactors |-> FALSE]
        /\ queue = [r \in Reactors |-> <<>>]
        /\ quit = [r \in Reactors |-> FALSE]
        /\ conn = [c \in Conns |-> "none"]
        /\ at = [c \in Conns |-> Main]
        /\ load = [r \in Reactors |-> 0]
    BY DEF Init
  <2>2. /\ i \in 0 .. PoolSize /\ next_reactor \in 0 .. PoolSize /\ fails \in 0 .. MaxFail
        /\ load \in [Reactors -> Nat] /\ queue \in [Reactors -> Seq(Conns \cup {QUIT})]
    BY <2>1
  <2>3. TypeOK BY <1>1, <2>1, <2>2, Zenon DEF TypeOK
  <2>4. Progress BY <1>1, <2>1 DEF Progress, Reactors
  <2>5. QED BY <2>3, <2>4
<1>3. StartedThreads BY DEF StartedThreads, StartedThread
<1>4. LoopsAgree BY InEmpty DEF LoopsAgree, LoopAgrees
<1>5. ConnsAgree BY DEF ConnsAgree
<1>6. EveryAcceptedIsAnnounced BY DEF EveryAcceptedIsAnnounced
<1>7. RoundRobin BY DEF RoundRobin, Turn
<1>8. NoThreadOutlivesPool BY DEF NoThreadOutlivesPool
<1>9. QED BY <1>2, <1>3, <1>4, <1>5, <1>6, <1>7, <1>8 DEF IInv

LEMMA CreateRefusedStep == ASSUME IInv, CreateRefused PROVE IInv'
<1> USE ServerAssumption DEF IInv, CreateRefused, mainVars, threadVars, connVars
<1>1. TypeOK' BY DEF TypeOK, Reactors, Main
<1>2. Progress' BY DEF Progress, Reactors
<1>3. StartedThreads' BY DEF StartedThreads, StartedThread, Signalled
<1>4. LoopsAgree' BY DEF LoopsAgree, LoopAgrees, Stopping
<1>5. ConnsAgree' BY DEF ConnsAgree
<1>6. EveryAcceptedIsAnnounced' BY DEF EveryAcceptedIsAnnounced
<1>7. RoundRobin' BY DEF RoundRobin, Turn
<1>8. NoThreadOutlivesPool' BY DEF NoThreadOutlivesPool
<1>9. QED BY <1>1, <1>2, <1>3, <1>4, <1>5, <1>6, <1>7, <1>8

LEMMA CreateStep == ASSUME IInv, Create PROVE IInv'
<1> USE ServerAssumption DEF IInv, Create, mainVars, threadVars, connVars
<1>1. TypeOK' BY DEF TypeOK, Reactors, Main
<1>2. Progress' BY DEF Progress, Reactors
<1>3. StartedThreads' BY DEF StartedThreads, StartedThread, Signalled
<1>4. LoopsAgree' BY DEF LoopsAgree, LoopAgrees, Stopping
<1>5. ConnsAgree' BY DEF ConnsAgree
<1>6. EveryAcceptedIsAnnounced' BY DEF EveryAcceptedIsAnnounced
<1>7. RoundRobin' BY DEF RoundRobin, Turn
<1>8. NoThreadOutlivesPool' BY DEF NoThreadOutlivesPool
<1>9. QED BY <1>1, <1>2, <1>3, <1>4, <1>5, <1>6, <1>7, <1>8

LEMMA SpawnStep == ASSUME IInv, Spawn PROVE IInv'
<1> USE ServerAssumption DEF IInv, Spawn, mainVars, threadVars, connVars
<1>1. TypeOK' BY DEF TypeOK, Reactors, Main
<1>2. Progress' BY DEF Progress, Reactors
<1>3. StartedThreads' BY DEF TypeOK, Progress, Reactors, StartedThreads, StartedThread, Signalled
<1>4. LoopsAgree'
  <2> SUFFICES ASSUME NEW r \in Reactors PROVE LoopAgrees(r)' BY DEF LoopsAgree
  <2>1. CASE r = i
    <3>1. ~Stopping(i) BY DEF Progress, Stopping
    <3>2. ~started[i] BY <2>1 DEF Progress, TypeOK, Reactors
    <3>3. thread[i] = "none" /\ LoopAgrees(i)
      BY <2>1, <3>1, <3>2 DEF StartedThreads, StartedThread, LoopsAgree, LoopAgrees
    <3>4. ~message_loop[i] /\ ~quit[i] /\ queue[i] = <<>> /\ ~In(QUIT, queue[i])
      BY <3>1, <3>3 DEF LoopAgrees
    <3>5. thread'[i] = "spawned" BY <2>1 DEF TypeOK
    <3>6. QED BY <2>1, <3>4, <3>5 DEF LoopAgrees
  <2>2. CASE r # i
    <3>1. thread'[r] = thread[r] /\ LoopAgrees(r) BY <2>2 DEF TypeOK, LoopsAgree
    <3>2. QED BY <3>1 DEF LoopAgrees, Stopping
  <2>3. QED BY <2>1, <2>2
<1>5. ConnsAgree' BY DEF ConnsAgree
<1>6. EveryAcceptedIsAnnounced' BY DEF EveryAcceptedIsAnnounced
<1>7. RoundRobin' BY DEF RoundRobin, Turn
<1>8. NoThreadOutlivesPool' BY DEF TypeOK, Progress, Reactors, NoThreadOutlivesPool
<1>9. QED BY <1>1, <1>2, <1>3, <1>4, <1>5, <1>6, <1>7, <1>8

LEMMA SpawnFailsStep == ASSUME IInv, SpawnFails PROVE IInv'
<1> USE ServerAssumption DEF IInv, SpawnFails, mainVars, threadVars, connVars
<1>1. TypeOK' BY DEF TypeOK, Reactors, Main
<1>2. Progress' BY DEF Progress, Reactors
<1>3. StartedThreads' BY DEF TypeOK, Progress, Reactors, StartedThreads, StartedThread, Signalled
<1>4. LoopsAgree' BY DEF LoopsAgree, LoopAgrees, Stopping
<1>5. ConnsAgree' BY DEF ConnsAgree
<1>6. EveryAcceptedIsAnnounced' BY DEF EveryAcceptedIsAnnounced
<1>7. RoundRobin' BY DEF RoundRobin, Turn
<1>8. NoThreadOutlivesPool' BY DEF NoThreadOutlivesPool
<1>9. QED BY <1>1, <1>2, <1>3, <1>4, <1>5, <1>6, <1>7, <1>8

LEMMA StartedStep == ASSUME IInv, Started PROVE IInv'
<1> USE ServerAssumption DEF IInv, Started, Signalled, mainVars, threadVars, connVars
<1>1. TypeOK' BY DEF TypeOK, Progress, Reactors, Main, StartedThreads, StartedThread
<1>2. Progress' BY DEF TypeOK, Progress, Reactors
<1>3. StartedThreads' BY DEF TypeOK, Progress, Reactors, StartedThreads, StartedThread, Signalled
<1>4. LoopsAgree' BY DEF LoopsAgree, LoopAgrees, Stopping
<1>5. ConnsAgree' BY DEF ConnsAgree
<1>6. EveryAcceptedIsAnnounced' BY DEF EveryAcceptedIsAnnounced
<1>7. RoundRobin' BY DEF RoundRobin, Turn
<1>8. NoThreadOutlivesPool' BY DEF NoThreadOutlivesPool
<1>9. QED BY <1>1, <1>2, <1>3, <1>4, <1>5, <1>6, <1>7, <1>8

LEMMA DestroyStep == ASSUME IInv, Destroy PROVE IInv'
<1> USE ServerAssumption DEF IInv, Destroy, mainVars, threadVars, connVars
<1>1. TypeOK' BY DEF TypeOK, Reactors, Main
<1>2. Progress' BY DEF Progress, Reactors
<1>3. StartedThreads' BY DEF TypeOK, Progress, Reactors, StartedThreads, StartedThread, Signalled
<1>4. LoopsAgree' BY DEF LoopsAgree, LoopAgrees, Stopping
<1>5. ConnsAgree' BY DEF ConnsAgree
<1>6. EveryAcceptedIsAnnounced' BY DEF EveryAcceptedIsAnnounced
<1>7. RoundRobin' BY DEF RoundRobin, Turn
<1>8. NoThreadOutlivesPool' BY DEF NoThreadOutlivesPool
<1>9. QED BY <1>1, <1>2, <1>3, <1>4, <1>5, <1>6, <1>7, <1>8

LEMMA StopNotStartedStep == ASSUME IInv, StopNotStarted PROVE IInv'
<1> USE ServerAssumption DEF IInv, StopNotStarted, Size, mainVars, threadVars, connVars
<1>1. TypeOK' BY DEF TypeOK, Reactors, Main
<1>2. Progress' BY DEF Progress, Reactors
<1>3. StartedThreads'
  <2> SUFFICES ASSUME NEW r \in Reactors PROVE StartedThread(r)' BY DEF StartedThreads
  <2>1. started[r] => r # i OBVIOUS
  <2>2. StartedThread(r) BY DEF StartedThreads
  <2>3. QED BY <2>1, <2>2 DEF StartedThread, Signalled, TypeOK, Reactors
<1>4. LoopsAgree' BY DEF TypeOK, Progress, Reactors, LoopsAgree, LoopAgrees, Stopping
<1>5. ConnsAgree' BY DEF ConnsAgree
<1>6. EveryAcceptedIsAnnounced' BY DEF EveryAcceptedIsAnnounced
<1>7. RoundRobin' BY DEF RoundRobin, Turn
<1>8. NoThreadOutlivesPool' BY DEF NoThreadOutlivesPool
<1>9. QED BY <1>1, <1>2, <1>3, <1>4, <1>5, <1>6, <1>7, <1>8

LEMMA StopSoonStep == ASSUME IInv, StopSoon PROVE IInv'
<1> USE ServerAssumption DEF IInv, StopSoon, Size, mainVars, threadVars, connVars
<1>1. TypeOK' BY DEF TypeOK, Reactors, Main
<1>2. Progress' BY DEF TypeOK, Progress, Reactors
<1>3. StartedThreads' BY DEF StartedThreads, StartedThread, Signalled
<1>4. LoopsAgree'
  <2>1. i \in Reactors /\ pooled /\ ~Stopping(i)
    BY DEF TypeOK, Reactors, Stopping, StartedThreads, StartedThread
  <2>2. thread[i] = "looping" /\ message_loop[i]
    BY <2>1 DEF StartedThreads, StartedThread, Signalled, LoopsAgree, LoopAgrees
  <2>3. queue' = [queue EXCEPT ![i] = Append(@, QUIT)] BY <2>2
  <2> SUFFICES ASSUME NEW r \in Reactors PROVE LoopAgrees(r)' BY DEF LoopsAgree
  <2>4. LoopAgrees(r) BY DEF LoopsAgree
  <2>5. CASE r = i
    <3>1. Stopping(i)' BY <2>1 DEF Stopping, TypeOK
    <3>2. QED BY <2>2, <2>4, <2>5, <3>1 DEF LoopAgrees
  <2>6. CASE r # i
    <3>1. queue'[r] = queue[r] BY <2>3, <2>6 DEF TypeOK
    <3>2. Stopping(r) => Stopping(r)' BY DEF Stopping, TypeOK, Reactors
    <3>3. QED BY <2>4, <3>1, <3>2 DEF LoopAgrees
  <2>7. QED BY <2>5, <2>6
<1>5. ConnsAgree'
  <2>1. i \in Reactors /\ pooled /\ ~Stopping(i)
    BY DEF TypeOK, Reactors, Stopping, StartedThreads, StartedThread
  <2>2. thread[i] = "looping" /\ message_loop[i]
    BY <2>1 DEF StartedThreads, StartedThread, Signalled, LoopsAgree, LoopAgrees
  <2>3. queue' = [queue EXCEPT ![i] = Append(@, QUIT)] BY <2>2
  <2>4. ASSUME NEW c \in Conns, conn[c] = "posted" PROVE In(c, queue'[at[c]])
    <3>1. at[c] \in Reactors /\ In(c, queue[at[c]]) BY <2>4 DEF ConnsAgree
    <3>2. queue[i] \in Seq(Conns \cup {QUIT}) BY <2>1 DEF TypeOK
    <3>3. In(c, queue[i]) => In(c, Append(queue[i], QUIT)) BY <3>2, InAppend
    <3>4. QED BY <2>3, <3>1, <3>3 DEF TypeOK
  <2>5. QED BY <2>4 DEF ConnsAgree
<1>6. EveryAcceptedIsAnnounced' BY DEF EveryAcceptedIsAnnounced
<1>7. RoundRobin' BY DEF RoundRobin, Turn
<1>8. NoThreadOutlivesPool' BY DEF NoThreadOutlivesPool
<1>9. QED BY <1>1, <1>2, <1>3, <1>4, <1>5, <1>6, <1>7, <1>8

LEMMA JoinStep == ASSUME IInv, Join PROVE IInv'
<1> USE ServerAssumption DEF IInv, Join, Joined, mainVars, threadVars, connVars
<1>1. TypeOK' BY DEF TypeOK, Progress, Reactors, Main
<1>2. Progress' BY DEF Progress, Reactors
<1>3. StartedThreads' BY DEF TypeOK, Progress, Reactors, StartedThreads, StartedThread, Signalled
<1>4. LoopsAgree' BY DEF TypeOK, Progress, Reactors, LoopsAgree, LoopAgrees, Stopping
<1>5. ConnsAgree' BY DEF ConnsAgree
<1>6. EveryAcceptedIsAnnounced' BY DEF EveryAcceptedIsAnnounced
<1>7. RoundRobin' BY DEF RoundRobin, Turn
<1>8. NoThreadOutlivesPool' BY DEF NoThreadOutlivesPool
<1>9. QED BY <1>1, <1>2, <1>3, <1>4, <1>5, <1>6, <1>7, <1>8

LEMMA ShutdownEndsStep == ASSUME IInv, ShutdownEnds PROVE IInv'
<1> USE ServerAssumption DEF IInv, ShutdownEnds, Size, mainVars, threadVars, connVars
<1>1. TypeOK' BY DEF TypeOK, Reactors, Main
<1>2. Progress' BY DEF Progress, Reactors
<1>3. StartedThreads' BY DEF TypeOK, Progress, Reactors, StartedThreads, StartedThread, Signalled
<1>4. LoopsAgree' BY DEF LoopsAgree, LoopAgrees, Stopping
<1>5. ConnsAgree' BY DEF ConnsAgree
<1>6. EveryAcceptedIsAnnounced'
  <2>1. ASSUME NEW c \in Conns PROVE conn[c] # "posted"
    <3>1. SUFFICES ASSUME at[c] \in Reactors, In(c, queue[at[c]]) PROVE FALSE
      BY <2>1 DEF ConnsAgree
    <3>2. queue[at[c]] # <<>> BY <3>1, InEmpty
    <3>3. thread[at[c]] = "looping" BY <3>1, <3>2 DEF LoopsAgree, LoopAgrees
    <3>4. pooled /\ started[at[c]]
      BY <3>1, <3>3 DEF StartedThreads, StartedThread, NoThreadOutlivesPool
    <3>5. QED BY <3>1, <3>4 DEF StartedThreads, StartedThread, Reactors, TypeOK
  <2>2. QED BY <2>1 DEF EveryAcceptedIsAnnounced, TypeOK
<1>7. RoundRobin' BY DEF RoundRobin, Turn
<1>8. NoThreadOutlivesPool'
  BY DEF TypeOK, Reactors, NoThreadOutlivesPool, StartedThreads, StartedThread
<1>9. QED BY <1>1, <1>2, <1>3, <1>4, <1>5, <1>6, <1>7, <1>8

LEMMA AcceptFailsStep == ASSUME IInv, AcceptFails PROVE IInv'
<1> USE ServerAssumption DEF IInv, AcceptFails, Readable, mainVars, threadVars, connVars
<1>1. TypeOK' BY DEF TypeOK, Reactors, Main
<1>2. Progress' BY DEF Progress, Reactors
<1>3. StartedThreads' BY DEF StartedThreads, StartedThread, Signalled
<1>4. LoopsAgree' BY DEF LoopsAgree, LoopAgrees, Stopping
<1>5. ConnsAgree' BY DEF ConnsAgree
<1>6. EveryAcceptedIsAnnounced' BY DEF EveryAcceptedIsAnnounced
<1>7. RoundRobin' BY DEF RoundRobin, Turn
<1>8. NoThreadOutlivesPool' BY DEF NoThreadOutlivesPool
<1>9. QED BY <1>1, <1>2, <1>3, <1>4, <1>5, <1>6, <1>7, <1>8

LEMMA AcceptHereStep == ASSUME IInv, NEW c \in Conns, AcceptHere(c) PROVE IInv'
<1> USE ServerAssumption DEF IInv, AcceptHere, Readable, mainVars, threadVars, connVars
<1>1. TypeOK' BY DEF TypeOK, Reactors, Main
<1>2. Progress' BY DEF Progress, Reactors
<1>3. StartedThreads' BY DEF StartedThreads, StartedThread, Signalled
<1>4. LoopsAgree' BY DEF LoopsAgree, LoopAgrees, Stopping
<1>5. ConnsAgree' BY DEF ConnsAgree
<1>6. EveryAcceptedIsAnnounced' BY DEF EveryAcceptedIsAnnounced
<1>7. RoundRobin' BY DEF RoundRobin, Turn
<1>8. NoThreadOutlivesPool' BY DEF NoThreadOutlivesPool
<1>9. QED BY <1>1, <1>2, <1>3, <1>4, <1>5, <1>6, <1>7, <1>8

LEMMA AcceptForPoolStep == ASSUME IInv, NEW c \in Conns, AcceptForPool(c) PROVE IInv'
<1> USE ServerAssumption
    DEF IInv, AcceptForPool, Readable, NextReactor, mainVars, threadVars, connVars
<1>1. TypeOK'
  <2>1. NextReactor \in Reactors /\ NextReactor + 1 \in 0 .. PoolSize
    BY DEF Progress, TypeOK, Reactors, NextReactor
  <2>2. Append(queue[NextReactor], c) \in Seq(Conns \cup {QUIT}) BY <2>1 DEF TypeOK
  <2>3. load[NextReactor] + 1 \in Nat BY <2>1 DEF TypeOK
  <2>4. queue' \in [Reactors -> Seq(Conns \cup {QUIT})] BY <2>2 DEF TypeOK
  <2>5. load' \in [Reactors -> Nat] BY <2>3 DEF TypeOK
  <2>6. at' \in [Conns -> Reactors \cup {Main}] BY <2>1 DEF TypeOK
  <2>7. conn' \in [Conns -> {"none", "backlog", "posted", "open", "closed", "lost"}]
    <3>1. \/ conn' = [conn EXCEPT ![c] = "posted"]
          \/ conn' = [conn EXCEPT ![c] = "lost"] OBVIOUS
    <3>2. QED BY <3>1 DEF TypeOK
  <2>8. QED BY <2>1, <2>4, <2>5, <2>6, <2>7 DEF TypeOK
<1>2. Progress' BY DEF Progress, Reactors
<1>3. StartedThreads' BY DEF StartedThreads, StartedThread, Signalled
<1>4. LoopsAgree'
  <2>1. NextReactor \in Reactors BY DEF Progress, TypeOK, Reactors
  <2>2. ~Stopping(NextReactor) /\ started[NextReactor] BY <2>1 DEF Progress, Stopping
  <2>3. thread[NextReactor] = "looping" /\ message_loop[NextReactor]
    BY <2>1, <2>2 DEF StartedThreads, StartedThread, Signalled, LoopsAgree, LoopAgrees
  <2>4. queue[NextReactor] \in Seq(Conns \cup {QUIT}) BY <2>1 DEF TypeOK
  <2> SUFFICES ASSUME NEW r \in Reactors PROVE LoopAgrees(r)' BY DEF LoopsAgree
  <2>5. LoopAgrees(r) BY DEF LoopsAgree
  <2>6. CASE r = NextReactor
    <3>1. queue'[r] = Append(queue[r], c) BY <2>1, <2>3, <2>6 DEF TypeOK
    <3>2. ~In(QUIT, queue'[r]) BY <2>2, <2>4, <2>5, <2>6, <3>1, InAppend DEF LoopAgrees
    <3>3. QED BY <2>3, <2>5, <2>6, <3>2 DEF LoopAgrees, Stopping
  <2>7. CASE r # NextReactor
    <3>1. queue'[r] = queue[r] BY <2>7 DEF TypeOK
    <3>2. QED BY <2>5, <3>1 DEF LoopAgrees, Stopping
  <2>8. QED BY <2>6, <2>7
<1>5. ConnsAgree'
  <2>1. NextReactor \in Reactors BY DEF Progress, TypeOK, Reactors
  <2>2. ~Stopping(NextReactor) /\ started[NextReactor] BY <2>1 DEF Progress, Stopping
  <2>3. thread[NextReactor] = "looping" /\ message_loop[NextReactor]
    BY <2>1, <2>2 DEF StartedThreads, StartedThread, Signalled, LoopsAgree, LoopAgrees
  <2>4. queue[NextReactor] \in Seq(Conns \cup {QUIT}) BY <2>1 DEF TypeOK
  <2>5. queue'[NextReactor] = Append(queue[NextReactor], c) BY <2>1, <2>3 DEF TypeOK
  <2>6. \A y : In(y, Append(queue[NextReactor], c)) <=> In(y, queue[NextReactor]) \/ y = c
    <3> DEFINE Q == Conns \cup {QUIT}
    <3>1. c \in Q /\ queue[NextReactor] \in Seq(Q) BY <2>4
    <3> HIDE DEF Q
    <3>2. QED BY <3>1, InAppend
  <2>7. ASSUME NEW d \in Conns, conn'[d] = "posted"
        PROVE  at'[d] \in Reactors /\ In(d, queue'[at'[d]])
    <3>1. CASE d = c
      <4>1. at'[d] = NextReactor BY <3>1 DEF TypeOK
      <4>2. In(d, queue'[NextReactor]) BY <2>5, <2>6, <3>1
      <4>3. QED BY <2>1, <4>1, <4>2
    <3>2. CASE d # c
      <4>1. conn[d] = "posted" /\ at'[d] = at[d] BY <2>7, <3>2 DEF TypeOK
      <4>2. at[d] \in Reactors /\ In(d, queue[at[d]]) BY <4>1 DEF ConnsAgree
      <4>3. In(d, queue'[at[d]])
        <5>1. CASE at[d] = NextReactor BY <2>5, <2>6, <4>2, <5>1
        <5>2. CASE at[d] # NextReactor BY <4>2, <5>2 DEF TypeOK
        <5>3. QED BY <5>1, <5>2
      <4>4. QED BY <4>1, <4>2, <4>3
    <3>3. QED BY <3>1, <3>2
  <2>8. late' = {} BY DEF ConnsAgree
  <2>9. QED BY <2>7, <2>8 DEF ConnsAgree
<1>6. EveryAcceptedIsAnnounced'
  BY DEF TypeOK, Progress, Reactors, EveryAcceptedIsAnnounced, StartedThreads,
    StartedThread, Signalled, LoopsAgree, LoopAgrees, Stopping
<1>7. RoundRobin'
  <2>1. NextReactor \in Reactors BY DEF Progress, TypeOK, Reactors
  <2> DEFINE n == NextReactor
  <2>2. \A r \in Reactors : load[r] \in Nat /\ load'[r] = IF r = n THEN load[r] + 1 ELSE load[r]
    BY <2>1 DEF TypeOK
  <2>3. ASSUME NEW r \in Reactors, NEW s \in Reactors
        PROVE  load'[r] + Turn(s)' = load'[s] + Turn(r)'
    <3>1. load[r] + Turn(s) = load[s] + Turn(r) BY DEF RoundRobin
    <3>2. r \in Int /\ s \in Int /\ r < PoolSize /\ s < PoolSize /\ r >= 0 /\ s >= 0
      BY DEF Reactors
    <3>3. next_reactor \in 0 .. PoolSize BY DEF TypeOK
    <3>4. QED BY <2>2, <3>1, <3>2, <3>3 DEF Turn
  <2>4. QED BY <2>3 DEF RoundRobin
<1>8. NoThreadOutlivesPool'
  <2>1. late' = {} BY DEF ConnsAgree
  <2>2. QED BY <2>1 DEF NoThreadOutlivesPool
<1>9. QED BY <1>1, <1>2, <1>3, <1>4, <1>5, <1>6, <1>7, <1>8

LEMMA ThreadInitStep == ASSUME IInv, NEW t \in Reactors, ThreadInit(t) PROVE IInv'
<1> USE ServerAssumption DEF IInv, ThreadInit, mainVars, threadVars, connVars
<1>1. TypeOK' BY DEF TypeOK, Reactors, Main
<1>2. Progress' BY DEF Progress, Reactors
<1>3. StartedThreads' BY DEF StartedThreads, StartedThread, Signalled
<1>4. LoopsAgree' BY DEF TypeOK, LoopsAgree, LoopAgrees, Stopping
<1>5. ConnsAgree' BY DEF ConnsAgree
<1>6. EveryAcceptedIsAnnounced' BY DEF EveryAcceptedIsAnnounced
<1>7. RoundRobin' BY DEF RoundRobin, Turn
<1>8. NoThreadOutlivesPool' BY DEF NoThreadOutlivesPool
<1>9. QED BY <1>1, <1>2, <1>3, <1>4, <1>5, <1>6, <1>7, <1>8

LEMMA ThreadSignalStep == ASSUME IInv, NEW t \in Reactors, ThreadSignal(t) PROVE IInv'
<1> USE ServerAssumption DEF IInv, ThreadSignal, mainVars, threadVars, connVars
<1>1. TypeOK' BY DEF TypeOK, Reactors, Main
<1>2. Progress' BY DEF Progress, Reactors
<1>3. StartedThreads' BY DEF StartedThreads, StartedThread, Signalled
<1>4. LoopsAgree' BY DEF LoopsAgree, LoopAgrees, Stopping
<1>5. ConnsAgree' BY DEF ConnsAgree
<1>6. EveryAcceptedIsAnnounced' BY DEF EveryAcceptedIsAnnounced
<1>7. RoundRobin' BY DEF RoundRobin, Turn
<1>8. NoThreadOutlivesPool' BY DEF NoThreadOutlivesPool
<1>9. QED BY <1>1, <1>2, <1>3, <1>4, <1>5, <1>6, <1>7, <1>8

LEMMA RunTaskStep == ASSUME IInv, NEW t \in Reactors, RunTask(t) PROVE IInv'
<1> USE ServerAssumption DEF IInv, RunTask, mainVars, threadVars, connVars
<1>1. TypeOK'
  <2>1. queue[t] \in Seq(Conns \cup {QUIT}) /\ queue[t] # <<>> BY DEF TypeOK
  <2>2. Tail(queue[t]) \in Seq(Conns \cup {QUIT}) /\ Head(queue[t]) \in Conns \cup {QUIT}
    BY <2>1, InTail
  <2>3. queue' \in [Reactors -> Seq(Conns \cup {QUIT})] BY <2>2 DEF TypeOK
  <2>4. quit' \in [Reactors -> BOOLEAN] BY DEF TypeOK
  <2>5. conn' \in [Conns -> {"none", "backlog", "posted", "open", "closed", "lost"}]
    BY DEF TypeOK
  <2>6. QED BY <2>3, <2>4, <2>5 DEF TypeOK
<1>2. Progress' BY DEF Progress, Reactors
<1>3. StartedThreads' BY DEF StartedThreads, StartedThread, Signalled
<1>4. LoopsAgree'
  <2>1. queue[t] \in Seq(Conns \cup {QUIT}) /\ queue[t] # <<>> BY DEF TypeOK
  <2>2. Tail(queue[t]) \in Seq(Conns \cup {QUIT}) /\ Head(queue[t]) \in Conns \cup {QUIT}
    BY <2>1, InTail
  <2> SUFFICES ASSUME NEW r \in Reactors PROVE LoopAgrees(r)' BY DEF LoopsAgree
  <2>3. LoopAgrees(r) BY DEF LoopsAgree
  <2>4. CASE r = t
    <3>1. queue'[t] = Tail(queue[t]) BY DEF TypeOK
    <3>2. In(QUIT, queue'[t]) => In(QUIT, queue[t]) BY <2>1, <3>1, InTail
    <3>3. quit'[t] => quit[t] \/ In(QUIT, queue[t]) BY <2>1, InTail DEF TypeOK
    <3>4. QED BY <2>3, <2>4, <3>2, <3>3 DEF LoopAgrees, Stopping
  <2>5. CASE r # t
    <3>1. queue'[r] = queue[r] /\ quit'[r] = quit[r] BY <2>5 DEF TypeOK
    <3>2. QED BY <2>3, <3>1 DEF LoopAgrees, Stopping
  <2>6. QED BY <2>4, <2>5
<1>5. ConnsAgree'
  <2>1. queue[t] \in Seq(Conns \cup {QUIT}) /\ queue[t] # <<>> BY DEF TypeOK
  <2>2. Tail(queue[t]) \in Seq(Conns \cup {QUIT}) /\ Head(queue[t]) \in Conns \cup {QUIT}
    BY <2>1, InTail
  <2>3. ASSUME NEW c \in Conns, conn'[c] = "posted"
        PROVE  at[c] \in Reactors /\ In(c, queue'[at[c]])
    <3>1. conn[c] = "posted" /\ c # Head(queue[t]) BY <2>3 DEF TypeOK
    <3>2. at[c] \in Reactors /\ In(c, queue[at[c]]) BY <3>1 DEF ConnsAgree
    <3>3. CASE at[c] = t
      <4>1. queue'[t] = Tail(queue[t]) BY DEF TypeOK
      <4>2. QED BY <2>1, <3>1, <3>2, <3>3, <4>1, InTail
    <3>4. CASE at[c] # t BY <3>2, <3>4 DEF TypeOK
    <3>5. QED BY <3>3, <3>4
  <2>4. QED BY <2>3 DEF ConnsAgree
<1>6. EveryAcceptedIsAnnounced' BY DEF TypeOK, EveryAcceptedIsAnnounced
<1>7. RoundRobin' BY DEF RoundRobin, Turn
<1>8. NoThreadOutlivesPool' BY DEF NoThreadOutlivesPool
<1>9. QED BY <1>1, <1>2, <1>3, <1>4, <1>5, <1>6, <1>7, <1>8

LEMMA LeaveStep == ASSUME IInv, NEW t \in Reactors, Leave(t) PROVE IInv'
<1> USE ServerAssumption DEF IInv, Leave, MayQuit, mainVars, threadVars, connVars
<1>1. TypeOK' BY DEF TypeOK, Reactors, Main
<1>2. Progress' BY DEF Progress, Reactors
<1>3. StartedThreads' BY DEF StartedThreads, StartedThread, Signalled
<1>4. LoopsAgree' BY DEF LoopsAgree, LoopAgrees, Stopping
<1>5. ConnsAgree' BY DEF ConnsAgree
<1>6. EveryAcceptedIsAnnounced' BY DEF EveryAcceptedIsAnnounced
<1>7. RoundRobin' BY DEF RoundRobin, Turn
<1>8. NoThreadOutlivesPool' BY DEF NoThreadOutlivesPool
<1>9. QED BY <1>1, <1>2, <1>3, <1>4, <1>5, <1>6, <1>7, <1>8

LEMMA ThreadExitStep == ASSUME IInv, NEW t \in Reactors, ThreadExit(t) PROVE IInv'
<1> USE ServerAssumption DEF IInv, ThreadExit, mainVars, threadVars, connVars
<1>1. TypeOK' BY DEF TypeOK, Reactors, Main
<1>2. Progress' BY DEF Progress, Reactors
<1>3. StartedThreads' BY DEF StartedThreads, StartedThread, Signalled
<1>4. LoopsAgree' BY DEF TypeOK, LoopsAgree, LoopAgrees, Stopping
<1>5. ConnsAgree' BY DEF ConnsAgree
<1>6. EveryAcceptedIsAnnounced'
  <2>1. queue[t] = <<>> BY DEF LoopsAgree, LoopAgrees
  <2>2. ASSUME NEW c \in Conns PROVE ~(conn[c] = "posted" /\ at[c] = t)
    BY <2>1, InEmpty DEF ConnsAgree
  <2>3. conn' = conn BY <2>2 DEF TypeOK
  <2>4. QED BY <2>3 DEF EveryAcceptedIsAnnounced
<1>7. RoundRobin' BY DEF RoundRobin, Turn
<1>8. NoThreadOutlivesPool' BY DEF NoThreadOutlivesPool
<1>9. QED BY <1>1, <1>2, <1>3, <1>4, <1>5, <1>6, <1>7, <1>8

LEMMA ConnectStep == ASSUME IInv, NEW c \in Conns, Connect(c) PROVE IInv'
<1> USE ServerAssumption DEF IInv, Connect, mainVars, threadVars, connVars
<1>1. TypeOK' BY DEF TypeOK, Reactors, Main
<1>2. Progress' BY DEF Progress, Reactors
<1>3. StartedThreads' BY DEF StartedThreads, StartedThread, Signalled
<1>4. LoopsAgree' BY DEF LoopsAgree, LoopAgrees, Stopping
<1>5. ConnsAgree' BY DEF ConnsAgree
<1>6. EveryAcceptedIsAnnounced' BY DEF TypeOK, Progress, Reactors, EveryAcceptedIsAnnounced
<1>7. RoundRobin' BY DEF RoundRobin, Turn
<1>8. NoThreadOutlivesPool' BY DEF NoThreadOutlivesPool
<1>9. QED BY <1>1, <1>2, <1>3, <1>4, <1>5, <1>6, <1>7, <1>8

LEMMA UpcallStep == ASSUME IInv, NEW c \in Conns, NEW end \in BOOLEAN, Upcall(c, end) PROVE IInv'
<1> USE ServerAssumption DEF IInv, Upcall, LoopRuns, mainVars, threadVars, connVars
<1>1. TypeOK' BY DEF TypeOK, Reactors, Main
<1>2. Progress' BY DEF Progress, Reactors
<1>3. StartedThreads' BY DEF StartedThreads, StartedThread, Signalled
<1>4. LoopsAgree' BY DEF LoopsAgree, LoopAgrees, Stopping
<1>5. ConnsAgree' BY DEF ConnsAgree
<1>6. EveryAcceptedIsAnnounced' BY DEF EveryAcceptedIsAnnounced
<1>7. RoundRobin' BY DEF RoundRobin, Turn
<1>8. NoThreadOutlivesPool' BY DEF TypeOK, Progress, Reactors, NoThreadOutlivesPool
<1>9. QED BY <1>1, <1>2, <1>3, <1>4, <1>5, <1>6, <1>7, <1>8

-----------------------------------------------------------------------------
LEMMA NextStep == IInv /\ [Next]_vars => IInv'
<1> SUFFICES ASSUME IInv, [Next]_vars PROVE IInv' OBVIOUS
<1>1. CASE MainStep
  BY <1>1, CreateRefusedStep, CreateStep, SpawnStep, SpawnFailsStep, StartedStep,
     StopNotStartedStep, StopSoonStep, JoinStep, ShutdownEndsStep, DestroyStep DEF MainStep
<1>2. CASE Accept BY <1>2, AcceptFailsStep, AcceptHereStep, AcceptForPoolStep DEF Accept
<1>3. ASSUME NEW r \in Reactors, ThreadStep(r) PROVE IInv'
  BY <1>3, ThreadInitStep, ThreadSignalStep, RunTaskStep, LeaveStep, ThreadExitStep DEF ThreadStep
<1>4. ASSUME NEW c \in Conns, Connect(c) PROVE IInv' BY <1>4, ConnectStep
<1>5. ASSUME NEW c \in Conns, NEW end \in BOOLEAN, Upcall(c, end) PROVE IInv'
  BY <1>5, UpcallStep
<1>6. CASE UNCHANGED vars
  BY <1>6 DEF vars, mainVars, threadVars, connVars, IInv, TypeOK, Progress, StartedThreads,
    StartedThread, Signalled, LoopsAgree, LoopAgrees, Stopping, ConnsAgree,
    EveryAcceptedIsAnnounced, RoundRobin, Turn, NoThreadOutlivesPool
<1>7. QED BY <1>1, <1>2, <1>3, <1>4, <1>5, <1>6 DEF Next

LEMMA ServerInvariant == Spec => []IInv
BY InitIInv, NextStep, PTL DEF Spec

(* Every connection OnCreateConnection hands to a reactor reaches a loop   *)
(* that is there, and its OnCreated is run before the thread ends, however *)
(* Start, accepting and the destructor interleave with the reactors.       *)
THEOREM AcceptedAreAnnounced == Spec => []EveryAcceptedIsAnnounced
<1>1. IInv => EveryAcceptedIsAnnounced BY DEF IInv
<1>2. QED BY <1>1, ServerInvariant, PTL

(* GetNextMessageLoop never lets one reactor get two connections ahead of  *)
(* another, for pools of any size.                                         *)
THEOREM LoadIsBalanced == Spec => []Balanced
<1>1. IInv => Balanced
  <2> SUFFICES ASSUME IInv, NEW r \in Reactors, NEW s \in Reactors
               PROVE  load[r] <= load[s] + 1
    BY DEF Balanced
  <2>1. load[r] + Turn(s) = load[s] + Turn(r) BY DEF IInv, RoundRobin
  <2>2. load[r] \in Nat /\ load[s] \in Nat BY DEF IInv, TypeOK
  <2>3. Turn(r) \in 0 .. 1 /\ Turn(s) \in 0 .. 1 BY DEF Turn
  <2>4. QED BY <2>1, <2>2, <2>3
<1>2. QED BY <1>1, ServerInvariant, PTL

(* Shutdown, also the one of a Start that failed half-way, leaves no       *)
(* reactor's thread running, so none of them can call a deleted server.    *)
THEOREM ThreadsEndWithPool == Spec => []NoThreadOutlivesPool
<1>1. IInv => NoThreadOutlivesPool BY DEF IInv
<1>2. QED BY <1>1, ServerInvariant, PTL
=============================================================================
