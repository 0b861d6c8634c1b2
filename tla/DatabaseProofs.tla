---------------------------- MODULE DatabaseProofs ----------------------------
(***************************************************************************)
(* Proofs about db/: the connection pool, for any set of handles and any   *)
(* pool sizes, and the MySQL driver behind its connections, for any        *)
(* writes, any number of transactions and of dropped connections, and any  *)
(* depth of the reconnections.                                             *)
(***************************************************************************)
EXTENDS ConnPool, MySQLDatabase, FiniteSetTheorems, SequenceTheorems, TLAPS

-----------------------------------------------------------------------------
(***************************************************************************)
(* The pool.  The inductive invariant is the conjunction of the type       *)
(* invariant, the exclusiveness of the leases and the agreement between    *)
(* slot states, leases and opened connections; none of the last three is   *)
(* inductive alone, because a returned slot becomes Idle whatever it was   *)
(* before.                                                                 *)
(***************************************************************************)

(* Before Initialize nothing is counted or open, and outside the time from *)
(* Initialize to Shutdown no handle holds a connection.                    *)
StageAgrees ==
  /\ stage = "raw" => conned_pointer = 0 /\ opened = {}
  /\ stage # "ready" => \A h \in Handle : db_conn[h] = NULL

PoolInv ==
  /\ PoolTypeOK
  /\ ExclusiveLease
  /\ BusyIffHeld
  /\ ConnectedIffUsable
  /\ StageAgrees

(* The eager slots are counted by a number between 0 and max_conn_count:   *)
(* what Initialize adds to conned_pointer_ stays inside the vector.        *)
LEMMA InitialCountBound ==
  /\ InitialCount \in 0 .. MaxConn
  /\ \A i \in Eager : i < InitialCount
<1> USE ConnPoolAssumption
<1> DEFINE n == IF MinConn < MaxConn THEN MinConn ELSE MaxConn
<1>1. n \in 0 .. MaxConn
  OBVIOUS
<1>2. Eager = 0 .. n - 1
  BY DEF Eager, Slot
<1>3. Cardinality(0 .. n - 1) = n
  <2>1. CASE n = 0
    <3>1. 0 .. n - 1 = {}
      BY <2>1
    <3> QED BY <2>1, <3>1, FS_EmptySet
  <2>2. CASE n > 0
    <3>1. Cardinality(0 .. n - 1) = n - 1 - 0 + 1
      BY <2>2, <1>1, FS_Interval
    <3> QED BY <3>1, <1>1
  <2> QED BY <1>1, <2>1, <2>2
<1>4. InitialCount = n
  BY <1>2, <1>3 DEF InitialCount
<1> QED BY <1>1, <1>2, <1>4

(* The initial state satisfies the inductive invariant.                    *)
LEMMA PoolInitInv == PoolInit => PoolInv
BY ConnPoolAssumption DEF PoolInit, PoolInv, PoolTypeOK, ExclusiveLease, BusyIffHeld,
  ConnectedIffUsable, StageAgrees, Slot, DBConnState

(* Every step of the pool and of its handles preserves it.                 *)
LEMMA PoolStepInv == PoolInv /\ [PoolNext]_poolVars => PoolInv'
<1> SUFFICES ASSUME PoolInv, [PoolNext]_poolVars PROVE PoolInv'
  OBVIOUS
<1> USE ConnPoolAssumption DEF PoolInv
<1>1. ASSUME NEW ok \in SUBSET Eager, Initialize(ok) PROVE PoolInv'
  <2>1. PoolTypeOK'
    BY <1>1, InitialCountBound DEF Initialize, PoolTypeOK, StageAgrees, Eager, Slot, DBConnState
  <2>2. ExclusiveLease' /\ BusyIffHeld' /\ StageAgrees'
    BY <1>1 DEF Initialize, PoolTypeOK, ExclusiveLease, BusyIffHeld, StageAgrees, Slot
  <2>3. ConnectedIffUsable'
    BY <1>1, InitialCountBound DEF Initialize, PoolTypeOK, ConnectedIffUsable, StageAgrees, Eager, Slot
  <2> QED BY <2>1, <2>2, <2>3
<1>2. ASSUME NEW h \in Handle, Get(h) PROVE PoolInv'
  <2>1. ASSUME NEW i \in Slot, GetIdle(h, i) PROVE PoolInv'
    BY <1>2, <2>1 DEF Get, GetIdle, FirstIdle, IdleSlots, PoolTypeOK, ExclusiveLease,
      BusyIffHeld, ConnectedIffUsable, StageAgrees, Slot, DBConnState
  <2>2. ASSUME GetNew(h) PROVE PoolInv'
    <3>1. conned_pointer \in Slot /\ conn_pool[conned_pointer] = "Created"
      BY <2>2 DEF GetNew, CanGrow, PoolTypeOK, Slot
    <3> QED BY <1>2, <2>2, <3>1 DEF Get, GetNew, PoolTypeOK, ExclusiveLease,
      BusyIffHeld, ConnectedIffUsable, StageAgrees, Slot, DBConnState
  <2>3. ASSUME GetNothing PROVE PoolInv'
    BY <1>2, <2>3 DEF Get, GetNothing, PoolTypeOK, ExclusiveLease, BusyIffHeld,
      ConnectedIffUsable, StageAgrees
  <2> QED BY <1>2, <2>1, <2>2, <2>3 DEF Get, GetFreeConnection
<1>3. ASSUME NEW h \in Handle, Release(h) PROVE PoolInv'
  <2>1. db_conn[h] \in Slot /\ db_conn[h] < conned_pointer /\ stage = "ready"
    BY <1>3 DEF Release, PoolTypeOK, BusyIffHeld, ConnectedIffUsable, StageAgrees
  <2>2. PoolTypeOK'
    BY <1>3, <2>1 DEF Release, SetFreeConnection, PoolTypeOK, DBConnState
  <2>3. ExclusiveLease'
    BY <1>3 DEF Release, PoolTypeOK, ExclusiveLease
  <2>4. BusyIffHeld'
    BY <1>3, <2>1 DEF Release, SetFreeConnection, PoolTypeOK, ExclusiveLease, BusyIffHeld, Slot
  <2>5. ConnectedIffUsable'
    BY <1>3, <2>1 DEF Release, SetFreeConnection, PoolTypeOK, BusyIffHeld, ConnectedIffUsable, Slot
  <2>6. StageAgrees'
    BY <1>3, <2>1 DEF Release, StageAgrees
  <2> QED BY <2>2, <2>3, <2>4, <2>5, <2>6
<1>4. CASE Shutdown
  BY <1>4 DEF Shutdown, PoolTypeOK, ExclusiveLease, BusyIffHeld, ConnectedIffUsable,
    StageAgrees, Slot, DBConnState
<1>5. CASE UNCHANGED poolVars
  BY <1>5 DEF poolVars, PoolTypeOK, ExclusiveLease, BusyIffHeld, ConnectedIffUsable, StageAgrees
<1> QED BY <1>1, <1>2, <1>3, <1>4, <1>5 DEF PoolNext

(* The pool keeps its types, never lends a connection twice, marks Busy    *)
(* exactly what is held, and lends only connected slots, for every number  *)
(* of handles and all sizes of the pool (GetFreeConnection and             *)
(* SetFreeConnection under mutex_).                                        *)
THEOREM PoolInvariant ==
  PoolSpec => [](PoolTypeOK /\ ExclusiveLease /\ StatesTellTruth)
<1>1. PoolInv => PoolTypeOK /\ ExclusiveLease /\ StatesTellTruth
  BY DEF PoolInv, StatesTellTruth
<1> QED BY <1>1, PoolInitInv, PoolStepInv, PTL DEF PoolSpec

(* The pool implements the exclusive leasing of module ConnLease: each     *)
(* step hands out a connection nobody holds, takes one back, or leaves all *)
(* leases alone.                                                           *)
THEOREM PoolImplementsLease == PoolSpec => ImplementsLease
<1>1. PoolInit => Lease!Init
  BY DEF PoolInit, Lease!Init
<1>2. ASSUME PoolInv, [PoolNext]_poolVars PROVE [Lease!Next]_db_conn
  <2> USE <1>2, ConnPoolAssumption DEF PoolInv
  <2>1. ASSUME NEW h \in Handle, Get(h) PROVE [Lease!Next]_db_conn
    <3>1. ASSUME NEW i \in Slot, GetIdle(h, i) PROVE Lease!Acquire(h, i)
      BY <2>1, <3>1 DEF Get, GetIdle, FirstIdle, IdleSlots, Lease!Acquire,
        BusyIffHeld, PoolTypeOK
    <3>2. ASSUME GetNew(h)
          PROVE  conned_pointer \in Slot /\ Lease!Acquire(h, conned_pointer)
      BY <2>1, <3>2 DEF Get, GetNew, CanGrow, Lease!Acquire, BusyIffHeld, PoolTypeOK, Slot
    <3> QED BY <2>1, <3>1, <3>2 DEF Get, GetFreeConnection, GetNothing, Lease!Next
  <2>2. ASSUME NEW h \in Handle, Release(h) PROVE Lease!Next
    BY <2>2 DEF Release, Lease!Next, Lease!Return
  <2>3. CASE (\E ok \in SUBSET Eager : Initialize(ok)) \/ Shutdown \/ UNCHANGED poolVars
    BY <2>3 DEF Initialize, Shutdown, poolVars
  <2> QED BY <2>1, <2>2, <2>3 DEF PoolNext
<1> QED BY <1>1, <1>2, PoolInitInv, PoolStepInv, PTL DEF PoolSpec, ImplementsLease, Lease!Spec

-----------------------------------------------------------------------------
(***************************************************************************)
(* The driver: what a user is told is true, no transaction is left open    *)
(* for the next user, a write is repeated only if its answer was lost, and *)
(* my_ is null in a library call only after a loss during set-up.          *)
(*                                                                         *)
(* The inductive invariant LInv ties three views of one connection: the    *)
(* calls in progress (StackOk, CallFits), the server's session             *)
(* (SessionFits) and the history of what was told (Ledger).  SessionFits   *)
(* is the link: exactly when the user is in a transaction on the           *)
(* connection that began it does the server have a transaction open, and   *)
(* then it holds the writes the user was told of.  Two further invariants  *)
(* rest on it: SetUpFits describes the stack as long as no connection was  *)
(* lost while it was being set up, and CountFits how often a write may be  *)
(* on the server at each place of the call that makes it.                  *)
(***************************************************************************)

(* A call in progress.                                                     *)
Frame == [fn : {"Execute", "Build"}, q : Statements \cup {"none"}, at : Places]

(* Lengths.                                                                *)
LEMMA NatOne == ASSUME NEW n \in Nat \ {0}, n <= 1 PROVE n = 1
OBVIOUS

LEMMA NatMore == ASSUME NEW n \in Nat \ {0}, n # 1 PROVE 1 \in 1 .. n - 1
OBVIOUS

LEMMA NatLast == ASSUME NEW n \in Nat \ {0}, n # 1 PROVE n \in 2 .. n
OBVIOUS

LEMMA AtMostOne == ASSUME NEW n, n \in {0, 1} PROVE n <= 1
OBVIOUS

(* The stack after a return, after a step within the innermost call, and   *)
(* after a call.                                                           *)
LEMMA TailFacts ==
  ASSUME NEW S, NEW s \in Seq(S), s # <<>>
  PROVE  /\ Tail(s) \in Seq(S) /\ Head(s) \in S /\ Head(s) = s[1]
         /\ Len(s) \in Nat \ {0} /\ Len(Tail(s)) = Len(s) - 1
         /\ \A i \in 1 .. Len(s) - 1 : Tail(s)[i] = s[i + 1]
         /\ \A i \in 1 .. Len(s) : s[i] \in S
BY HeadTailProperties, LenProperties, EmptySeq, ElementOfSeq

LEMMA GotoFacts ==
  ASSUME NEW S, NEW s \in Seq(S), s # <<>>, NEW f \in S, NEW r, r = <<f>> \o Tail(s)
  PROVE  /\ r \in Seq(S) /\ Len(r) = Len(s) /\ r[1] = f
         /\ \A i \in 2 .. Len(s) : r[i] = s[i]
<1>1. /\ Tail(s) \in Seq(S) /\ Len(s) \in Nat \ {0} /\ Len(Tail(s)) = Len(s) - 1
      /\ \A i \in 1 .. Len(s) - 1 : Tail(s)[i] = s[i + 1]
  BY TailFacts
<1>2. <<f>> \in Seq(S) /\ Len(<<f>>) = 1 /\ <<f>>[1] = f OBVIOUS
<1>3. r \in Seq(S) /\ Len(r) = 1 + (Len(s) - 1)
      /\ \A i \in 1 .. 1 + (Len(s) - 1) : r[i] = IF i <= 1 THEN <<f>>[i] ELSE Tail(s)[i - 1]
  BY <1>1, <1>2, ConcatProperties
<1>4. r[1] = f BY <1>1, <1>2, <1>3
<1>5. ASSUME NEW i \in 2 .. Len(s) PROVE r[i] = s[i]
  <2>1. i - 1 \in 1 .. Len(s) - 1 /\ (i - 1) + 1 = i /\ i \in 1 .. 1 + (Len(s) - 1) /\ ~(i <= 1)
    BY <1>1
  <2>2. r[i] = Tail(s)[i - 1] BY <1>3, <2>1
  <2>3. QED BY <1>1, <2>1, <2>2
<1>6. QED BY <1>1, <1>3, <1>4, <1>5

LEMMA CallFacts ==
  ASSUME NEW S, NEW s \in Seq(S), s # <<>>, NEW f \in S, NEW g \in S, NEW r,
         r = <<g, f>> \o Tail(s)
  PROVE  /\ r \in Seq(S) /\ Len(r) = Len(s) + 1 /\ r[1] = g /\ r[2] = f
         /\ \A i \in 2 .. Len(s) : r[i + 1] = s[i]
<1>1. /\ Tail(s) \in Seq(S) /\ Len(s) \in Nat \ {0} /\ Len(Tail(s)) = Len(s) - 1
      /\ \A i \in 1 .. Len(s) - 1 : Tail(s)[i] = s[i + 1]
  BY TailFacts
<1>2. <<g, f>> \in Seq(S) /\ Len(<<g, f>>) = 2 /\ <<g, f>>[1] = g /\ <<g, f>>[2] = f OBVIOUS
<1>3. r \in Seq(S) /\ Len(r) = 2 + (Len(s) - 1)
      /\ \A i \in 1 .. 2 + (Len(s) - 1) : r[i] = IF i <= 2 THEN <<g, f>>[i] ELSE Tail(s)[i - 2]
  BY <1>1, <1>2, ConcatProperties
<1>4. r[1] = g /\ r[2] = f BY <1>1, <1>2, <1>3
<1>5. ASSUME NEW i \in 2 .. Len(s) PROVE r[i + 1] = s[i]
  <2>1. i - 1 \in 1 .. Len(s) - 1 /\ (i - 1) + 1 = i /\ i + 1 \in 1 .. 2 + (Len(s) - 1)
        /\ ~(i + 1 <= 2) /\ (i + 1) - 2 = i - 1
    BY <1>1
  <2>2. r[i + 1] = Tail(s)[i - 1] BY <1>3, <2>1
  <2>3. QED BY <1>1, <2>1, <2>2
<1>6. QED BY <1>1, <1>3, <1>4, <1>5

(* The statement of the user's own call, the outermost.                    *)
UserQ == stack[Len(stack)].q

(* The outermost call is the user's; every other Execute is one of         *)
(* BuildConnection's, for the character set.                               *)
Nested ==
  stack # <<>> =>
    /\ stack[Len(stack)].fn = "Execute" /\ UserQ \in Writes \cup TxnControl
    /\ \A k \in 1 .. Len(stack) - 1 : stack[k].fn = "Execute" => stack[k].q \in SetUp

StackOk == stack \in Seq(Frame) /\ Nested

(* A step that does not begin another user's call.                         *)
SameCall == stack' # <<>> => stack # <<>> /\ UserQ' = UserQ

(* Return, Goto and Call keep the shape of the stack and the user's        *)
(* statement.                                                              *)
LEMMA PopOk ==
  ASSUME StackOk, stack # <<>>, stack' = Tail(stack) PROVE StackOk' /\ SameCall
<1>1. /\ stack' \in Seq(Frame) /\ Len(stack) \in Nat \ {0} /\ Len(stack') = Len(stack) - 1
      /\ \A i \in 1 .. Len(stack) - 1 : stack'[i] = stack[i + 1]
  BY TailFacts DEF StackOk
<1>2. ASSUME stack' # <<>>
      PROVE  /\ stack'[Len(stack')] = stack[Len(stack)]
             /\ \A k \in 1 .. Len(stack') - 1 : k + 1 \in 1 .. Len(stack) - 1
                                                /\ stack'[k] = stack[k + 1]
  <2>1. Len(stack') # 0 BY <1>1, <1>2, EmptySeq
  <2>2. QED BY <1>1, <2>1
<1>3. SameCall BY <1>2 DEF SameCall, UserQ
<1>4. Nested' BY <1>2 DEF StackOk, Nested, UserQ
<1>5. QED BY <1>1, <1>3, <1>4 DEF StackOk

LEMMA GotoOk ==
  ASSUME StackOk, stack # <<>>, NEW place \in Places, Goto(place)
  PROVE  /\ StackOk' /\ SameCall /\ stack' # <<>> /\ Len(stack') = Len(stack)
         /\ stack'[1].fn = stack[1].fn /\ stack'[1].at = place
         /\ \A i \in 2 .. Len(stack) : stack'[i] = stack[i]
<1>1. /\ stack \in Seq(Frame) /\ Len(stack) \in Nat \ {0}
      /\ Head(stack) \in Frame /\ Head(stack) = stack[1]
  BY TailFacts DEF StackOk
<1>2. PICK f : f = [Head(stack) EXCEPT !.at = place] OBVIOUS
<1>3. f \in Frame /\ f.fn = stack[1].fn /\ f.q = stack[1].q /\ f.at = place BY <1>1, <1>2 DEF Frame
<1>4. /\ stack' \in Seq(Frame) /\ Len(stack') = Len(stack) /\ stack'[1] = f
      /\ \A i \in 2 .. Len(stack) : stack'[i] = stack[i]
  BY <1>1, <1>2, <1>3, GotoFacts DEF Goto
<1>5. stack' # <<>> BY <1>1, <1>4, EmptySeq
<1>6. \A i \in 1 .. Len(stack) : stack'[i].fn = stack[i].fn /\ stack'[i].q = stack[i].q
  <2>1. \A i \in 1 .. Len(stack) : i = 1 \/ i \in 2 .. Len(stack) BY <1>1
  <2>2. QED BY <1>3, <1>4, <2>1
<1>7. Len(stack) \in 1 .. Len(stack) /\ \A k \in 1 .. Len(stack) - 1 : k \in 1 .. Len(stack) BY <1>1
<1>8. SameCall BY <1>4, <1>6, <1>7 DEF SameCall, UserQ
<1>9. Nested' BY <1>4, <1>6, <1>7 DEF StackOk, Nested, UserQ
<1>10. QED BY <1>3, <1>4, <1>5, <1>8, <1>9 DEF StackOk

LEMMA CallOk ==
  ASSUME StackOk, stack # <<>>, NEW place \in Places, NEW g \in Frame, Call(g, place),
         g.fn = "Execute" => g.q \in SetUp
  PROVE  /\ StackOk' /\ SameCall /\ Len(stack') = Len(stack) + 1
         /\ stack'[1] = g /\ stack'[2].fn = stack[1].fn /\ stack'[2].at = place
<1>1. /\ stack \in Seq(Frame) /\ Len(stack) \in Nat \ {0}
      /\ Head(stack) \in Frame /\ Head(stack) = stack[1]
  BY TailFacts DEF StackOk
<1>2. PICK f : f = [Head(stack) EXCEPT !.at = place] OBVIOUS
<1>3. f \in Frame /\ f.fn = stack[1].fn /\ f.q = stack[1].q /\ f.at = place BY <1>1, <1>2 DEF Frame
<1>4. /\ stack' \in Seq(Frame) /\ Len(stack') = Len(stack) + 1 /\ stack'[1] = g /\ stack'[2] = f
      /\ \A i \in 2 .. Len(stack) : stack'[i + 1] = stack[i]
  BY <1>1, <1>2, <1>3, CallFacts DEF Call
<1>5. \A i \in 1 .. Len(stack) : stack'[i + 1].fn = stack[i].fn /\ stack'[i + 1].q = stack[i].q
  <2>1. \A i \in 1 .. Len(stack) : i = 1 \/ i \in 2 .. Len(stack) BY <1>1
  <2>2. 1 + 1 = 2 OBVIOUS
  <2>3. QED BY <1>3, <1>4, <2>1, <2>2
<1>6. Len(stack) \in 1 .. Len(stack) BY <1>1
<1>7. UserQ' = UserQ /\ stack'[Len(stack')].fn = stack[Len(stack)].fn BY <1>4, <1>5, <1>6 DEF UserQ
<1>8. ASSUME NEW k \in 1 .. Len(stack') - 1, stack'[k].fn = "Execute" PROVE stack'[k].q \in SetUp
  <2>1. CASE k = 1 BY <1>4, <1>8, <2>1
  <2>2. CASE k # 1
    <3>1. k - 1 \in 1 .. Len(stack) - 1 /\ k - 1 \in 1 .. Len(stack) /\ (k - 1) + 1 = k
      BY <1>1, <1>4, <2>2
    <3>2. stack'[k].fn = stack[k - 1].fn /\ stack'[k].q = stack[k - 1].q BY <1>5, <3>1
    <3>3. QED BY <1>8, <3>1, <3>2 DEF StackOk, Nested
  <2>3. QED BY <2>1, <2>2
<1>9. Nested' BY <1>7, <1>8 DEF StackOk, Nested
<1>10. QED BY <1>3, <1>4, <1>7, <1>9 DEF StackOk, SameCall

-----------------------------------------------------------------------------
(* The part of TypeOK the proofs rest on.                                  *)
Types ==
  /\ my \in {"null", "live", "dead"}
  /\ ret \in BOOLEAN /\ crashed \in BOOLEAN /\ in_txn \in BOOLEAN
  /\ believes \in BOOLEAN /\ broken \in BOOLEAN /\ unsettled \in BOOLEAN
  /\ pending \in Seq(Writes) /\ db \in Seq(Writes)
  /\ used \subseteq Writes

Pending == ToSet(pending)

(* The user's call against what the users were told: its write is one      *)
(* nobody was told of, a begin is made outside a transaction, and within   *)
(* one the write is not yet durable.                                       *)
CallFits ==
  stack # <<>> =>
    /\ UserQ \in Writes => UserQ \in used /\ UserQ \notin mine \cup durable \cup undone
    /\ UserQ = "begin" => ~believes
    /\ believes /\ ~broken /\ my = "live" => UserQ \notin Stored

(* The server's session against the user's belief: a transaction is open   *)
(* exactly when the user believes so on the connection that began it, and  *)
(* its pending writes include those the user was told of.                  *)
SessionFits ==
  /\ in_txn => believes /\ ~broken /\ my = "live"
  /\ ~in_txn => pending = <<>>
  /\ believes /\ ~broken /\ my = "live" => in_txn /\ mine \subseteq Pending /\ mine \cap Stored = {}

(* Every write on record was made by a user; the durable ones are in the   *)
(* database, the undone ones neither there nor pending.                    *)
Ledger ==
  /\ mine \cup durable \cup undone \cup Pending \cup Stored \subseteq used
  /\ durable \subseteq Stored
  /\ undone \cap (Stored \cup Pending) = {}

(* As long as no connection was lost while being set up, the calls are at  *)
(* most Execute, BuildConnection, Execute, and my_ is live from the moment *)
(* BuildConnection connected until it ends.                                *)
SetUpFits ==
  ~unsettled =>
    /\ ~crashed
    /\ \/ Len(stack) <= 1
       \/ Len(stack) = 2 /\ stack[1].fn = "Build" /\ (stack[1].at # "connect" => my = "live")
       \/ /\ Len(stack) = 3 /\ my = "live"
          /\ stack[1].fn = "Execute" /\ stack[1].at \in {"check", "first"}
          /\ stack[2].fn = "Build" /\ stack[2].at # "connect"

LInv == StackOk /\ Types /\ CallFits /\ SessionFits /\ Ledger

(* The writes of a sequence that grows.                                    *)
LEMMA AppendSet ==
  ASSUME NEW S, NEW s \in Seq(S), NEW x \in S
  PROVE  Append(s, x) \in Seq(S) /\ ToSet(Append(s, x)) = ToSet(s) \cup {x}
<1>1. /\ Append(s, x) \in Seq(S) /\ Len(Append(s, x)) = Len(s) + 1 /\ Len(s) \in Nat
      /\ DOMAIN s = 1 .. Len(s) /\ DOMAIN Append(s, x) = 1 .. Len(s) + 1
      /\ (\A i \in 1 .. Len(s) : Append(s, x)[i] = s[i]) /\ Append(s, x)[Len(s) + 1] = x
  BY AppendProperties, LenProperties
<1>2. 1 .. Len(s) + 1 = 1 .. Len(s) \cup {Len(s) + 1} BY <1>1
<1>3. QED BY <1>1, <1>2 DEF ToSet

LEMMA ConcatSet ==
  ASSUME NEW S, NEW s \in Seq(S), NEW t \in Seq(S)
  PROVE  s \o t \in Seq(S) /\ ToSet(s \o t) = ToSet(s) \cup ToSet(t)
<1>1. /\ s \o t \in Seq(S) /\ Len(s) \in Nat /\ Len(t) \in Nat
      /\ DOMAIN s = 1 .. Len(s) /\ DOMAIN t = 1 .. Len(t) /\ DOMAIN (s \o t) = 1 .. Len(s) + Len(t)
      /\ \A i \in 1 .. Len(s) + Len(t) : (s \o t)[i] = IF i <= Len(s) THEN s[i] ELSE t[i - Len(s)]
  BY ConcatProperties, LenProperties
<1>2. ASSUME NEW x \in ToSet(s \o t) PROVE x \in ToSet(s) \cup ToSet(t)
  <2>1. PICK i \in 1 .. Len(s) + Len(t) : x = (s \o t)[i] BY <1>1, <1>2 DEF ToSet
  <2>2. CASE i <= Len(s)
    <3>1. i \in DOMAIN s /\ x = s[i] BY <1>1, <2>1, <2>2
    <3>2. QED BY <3>1 DEF ToSet
  <2>3. CASE ~(i <= Len(s))
    <3>1. i - Len(s) \in DOMAIN t /\ x = t[i - Len(s)] BY <1>1, <2>1, <2>3
    <3>2. QED BY <3>1 DEF ToSet
  <2>4. QED BY <2>2, <2>3
<1>3. ASSUME NEW x \in ToSet(s) PROVE x \in ToSet(s \o t)
  <2>1. PICK i \in DOMAIN s : x = s[i] BY <1>3 DEF ToSet
  <2>2. i \in DOMAIN (s \o t) /\ (s \o t)[i] = x BY <1>1, <2>1
  <2>3. QED BY <2>2 DEF ToSet
<1>4. ASSUME NEW x \in ToSet(t) PROVE x \in ToSet(s \o t)
  <2>1. PICK i \in DOMAIN t : x = t[i] BY <1>4 DEF ToSet
  <2>2. i + Len(s) \in 1 .. Len(s) + Len(t) /\ ~(i + Len(s) <= Len(s)) /\ (i + Len(s)) - Len(s) = i
    BY <1>1, <2>1
  <2>3. (s \o t)[i + Len(s)] = t[i] BY <1>1, <2>2
  <2>4. QED BY <1>1, <2>1, <2>2, <2>3 DEF ToSet
<1>5. QED BY <1>1, <1>2, <1>3, <1>4

LEMMA EmptySet == ToSet(<<>>) = {}
BY DEF ToSet

LEMMA EmptyWrites == <<>> \in Seq(Writes)
OBVIOUS

(* What a statement adds to the database.                                  *)
LEMMA AppliedOk ==
  ASSUME LInv, NEW q \in Statements
  PROVE  /\ Applied(q) \in Seq(Writes)
         /\ q \in {"begin", "commit"} => ToSet(Applied(q)) = Stored \cup Pending
         /\ q \in Writes /\ ~in_txn => ToSet(Applied(q)) = Stored \cup {q}
         /\ q \in SetUp \cup {"rollback"} \/ (q \in Writes /\ in_txn) => Applied(q) = db
<1>1. db \in Seq(Writes) /\ pending \in Seq(Writes) BY DEF LInv, Types
<1>2. CASE q \in {"begin", "commit"}
  <2>1. q \notin Writes /\ q \notin SetUp \cup {"rollback"}
    BY <1>2, MySQLAssumption DEF TxnControl, SetUp
  <2>2. Applied(q) = db \o pending BY <1>2, <2>1 DEF Applied
  <2>3. QED BY <1>1, <1>2, <2>2, <2>1, ConcatSet DEF Stored, Pending
<1>3. CASE q \in Writes /\ ~in_txn
  <2>1. q \notin {"begin", "commit"} /\ q \notin SetUp \cup {"rollback"}
    BY <1>3, MySQLAssumption DEF TxnControl
  <2>2. Applied(q) = Append(db, q) BY <1>3, <2>1 DEF Applied
  <2>3. QED BY <1>1, <1>3, <2>1, <2>2, AppendSet DEF Stored
<1>4. CASE q \notin {"begin", "commit"} /\ ~(q \in Writes /\ ~in_txn)
  <2>1. Applied(q) = db BY <1>4 DEF Applied
  <2>2. QED BY <1>1, <1>4, <2>1
<1>5. QED BY <1>2, <1>3, <1>4

(* A step that changes neither the session nor what the users know.        *)
SameLedger == UNCHANGED <<pending, db, in_txn, used, believes, mine, durable, undone>>

(* Such a step keeps LInv if it leaves the connection alone.               *)
LEMMA SessionKept ==
  ASSUME LInv, StackOk', SameCall, SameLedger, my' = my, broken' = broken,
         ret' \in BOOLEAN, crashed' \in BOOLEAN, unsettled' \in BOOLEAN
  PROVE  LInv'
<1>1. Types' BY DEF LInv, Types, SameLedger
<1>2. Pending' = Pending /\ Stored' = Stored BY DEF Pending, Stored, SameLedger
<1>3. SessionFits' BY <1>2 DEF LInv, SessionFits, SameLedger, Types
<1>4. Ledger' BY <1>2 DEF LInv, Ledger, SameLedger
<1>5. CallFits' BY <1>2 DEF SameCall, LInv, CallFits, SameLedger
<1>6. QED BY <1>1, <1>3, <1>4, <1>5 DEF LInv

(* A step that ends the session keeps LInv: either the connection is not   *)
(* live after it, or it is another one and breaks the user's transaction.  *)
LEMMA SessionLost ==
  ASSUME LInv, StackOk', SameCall, SessionEnds, my' \in {"null", "live", "dead"},
         UNCHANGED <<db, used, believes, mine, durable, undone>>,
         \/ my' # "live" /\ broken' = broken
         \/ broken' = (broken \/ believes),
         ret' \in BOOLEAN, crashed' \in BOOLEAN, unsettled' \in BOOLEAN
  PROVE  LInv'
<1>1. in_txn' = FALSE /\ pending' = <<>> BY DEF SessionEnds
<1>2. Types'
  <2>1. broken' \in BOOLEAN BY DEF LInv, Types
  <2>2. QED BY <1>1, <2>1, EmptyWrites DEF LInv, Types
<1>3. Pending' = {} /\ Stored' = Stored BY <1>1, EmptySet DEF Pending, Stored
<1>4. ~(believes' /\ ~broken' /\ my' = "live") OBVIOUS
<1>5. SessionFits' BY <1>1, <1>4 DEF SessionFits
<1>6. Ledger' BY <1>3 DEF LInv, Ledger
<1>7. CallFits' BY <1>4 DEF SameCall, LInv, CallFits
<1>8. QED BY <1>2, <1>5, <1>6, <1>7 DEF LInv

-----------------------------------------------------------------------------
(* One lemma per action that does more than these.                         *)
LEMMA UserCallsKeeps ==
  ASSUME LInv, NEW q \in Writes \cup TxnControl, UserCalls(q) PROVE LInv'
<1>1. /\ stack = <<>> /\ (q \in Writes => q \notin used) /\ (q = "begin" => ~believes)
      /\ stack' = <<Execute(q)>> /\ used' = used \cup ({q} \cap Writes)
      /\ UNCHANGED <<my, ret, crashed, in_txn, pending, db, believes, broken, mine, durable,
                     undone, unsettled>>
  BY DEF UserCalls, server
<1>2. PICK f : f = Execute(q) OBVIOUS
<1>3. f \in Frame /\ f.fn = "Execute" /\ f.q = q BY <1>2 DEF Execute, Frame, Statements, Places
<1>4. stack' = <<f>> /\ stack' \in Seq(Frame) /\ Len(stack') = 1 /\ stack'[1] = f
  BY <1>1, <1>2, <1>3
<1>5. UserQ' = q BY <1>3, <1>4 DEF UserQ
<1>6. StackOk' BY <1>3, <1>4, <1>5 DEF StackOk, Nested
<1>7. Types' BY <1>1 DEF LInv, Types
<1>8. Pending' = Pending /\ Stored' = Stored BY <1>1 DEF Pending, Stored
<1>9. SessionFits' BY <1>1, <1>8 DEF LInv, SessionFits
<1>10. Ledger' BY <1>1, <1>8 DEF LInv, Ledger
<1>11. q \notin Writes => q \notin Stored BY DEF LInv, Types, Ledger
<1>12. q \in Writes => q \notin mine \cup durable \cup undone \cup Stored BY <1>1 DEF LInv, Ledger
<1>13. CallFits' BY <1>1, <1>5, <1>8, <1>11, <1>12 DEF CallFits
<1>14. QED BY <1>6, <1>7, <1>9, <1>10, <1>13 DEF LInv

(* The innermost call is the user's if it is the only one, and one of      *)
(* BuildConnection's otherwise.                                            *)
LEMMA TopOfStack ==
  ASSUME StackOk, stack # <<>>
  PROVE  /\ Head(stack) = stack[1] /\ Head(stack) \in Frame /\ Len(stack) \in Nat \ {0}
         /\ Len(stack) = 1 => stack[1].fn = "Execute" /\ UserQ = stack[1].q
         /\ Len(stack) # 1 /\ stack[1].fn = "Execute" => stack[1].q \in SetUp
<1>1. Head(stack) = stack[1] /\ Head(stack) \in Frame /\ Len(stack) \in Nat \ {0}
  BY TailFacts DEF StackOk
<1>2. CASE Len(stack) = 1 BY <1>1, <1>2 DEF StackOk, Nested, UserQ
<1>3. CASE Len(stack) # 1
  <2>1. 1 \in 1 .. Len(stack) - 1 BY <1>1, <1>3, NatMore
  <2>2. QED BY <1>1, <1>3, <2>1 DEF StackOk, Nested
<1>4. QED BY <1>2, <1>3

(* A statement of BuildConnection succeeds.                                *)
LEMMA TellNested ==
  ASSUME LInv, Sending, my = "live", QuerySucceeds, Len(stack) # 1 PROVE LInv'
<1>1. stack # <<>> /\ stack[1].fn = "Execute" /\ StackOk /\ stack' = Tail(stack) /\ ret' = TRUE
  BY TopOfStack DEF Sending, At, LInv, QuerySucceeds, Return
<1>2. Statement \in SetUp BY <1>1, TopOfStack DEF Statement
<1>3. Statement \notin Writes /\ Statement \notin TxnControl
  BY <1>2, MySQLAssumption DEF SetUp, TxnControl
<1>4. UNCHANGED <<pending, db, in_txn>>
  BY <1>3 DEF QuerySucceeds, Apply, Applied, TxnControl
<1>5. SameLedger BY <1>4 DEF SameLedger, QuerySucceeds, Tell
<1>6. my' = my /\ broken' = broken /\ UNCHANGED <<crashed, unsettled>> BY DEF QuerySucceeds, Tell
<1>7. StackOk' /\ SameCall BY <1>1, PopOk
<1>8. QED BY <1>1, <1>5, <1>6, <1>7, SessionKept DEF LInv, Types

(* A user's statement succeeds, and the user is told.                      *)
LEMMA TellUser ==
  ASSUME LInv, Sending, my = "live", QuerySucceeds, Len(stack) = 1 PROVE LInv'
<1> DEFINE q == UserQ
<1>1. stack # <<>> /\ StackOk BY DEF Sending, At, LInv
<1>2. Statement = q /\ q \in Writes \cup TxnControl
  BY <1>1, TopOfStack DEF Statement, StackOk, Nested
<1>3. /\ stack' = Tail(stack) /\ Apply(q) /\ Told(q, TRUE) /\ ret' = TRUE
      /\ UNCHANGED <<my, crashed, used, unsettled>>
  BY <1>2 DEF QuerySucceeds, Return, Tell
<1>4. StackOk' /\ stack' = <<>>
  <2>1. Len(stack') = 0 /\ stack' \in Seq(Frame) BY <1>1, <1>3, TailFacts DEF StackOk
  <2>2. QED BY <1>1, <1>3, <2>1, PopOk, EmptySeq
<1>5. CallFits' BY <1>4 DEF CallFits
<1>6. q \in Writes => q \in used /\ q \notin mine \cup durable \cup undone
  BY <1>1 DEF LInv, CallFits
<1>7. /\ q \in Statements
      /\ (q \in Writes => q \notin TxnControl /\ q \notin {"begin", "commit", "rollback"})
      /\ (q \notin Writes => q \in {"begin", "commit", "rollback"})
  BY <1>2, MySQLAssumption DEF Statements, TxnControl
<1> HIDE DEF q
<1>8. db' = Applied(q) BY <1>3 DEF Apply
<1>9. db \in Seq(Writes) /\ pending \in Seq(Writes) /\ used \subseteq Writes
      /\ believes \in BOOLEAN /\ broken \in BOOLEAN /\ in_txn \in BOOLEAN
  BY DEF LInv, Types
<1>10. db' \in Seq(Writes) BY <1>7, <1>8, AppliedOk
<1>11. CASE q = "begin"
  <2>1. ~believes BY <1>1, <1>11 DEF LInv, CallFits, q
  <2>2. ~in_txn /\ pending = <<>> BY <2>1 DEF LInv, SessionFits
  <2>3. in_txn' = TRUE /\ pending' = <<>> BY <1>3, <1>7, <1>11 DEF Apply, TxnControl
  <2>4. /\ believes' = TRUE /\ broken' = FALSE /\ mine' = {}
        /\ durable' = durable /\ undone' = undone
    BY <1>3, <1>7, <1>11 DEF Told, TxnControl
  <2>5. Pending = {} /\ Pending' = {} BY <2>2, <2>3, EmptySet DEF Pending
  <2>6. Stored' = Stored BY <1>7, <1>8, <1>11, <2>5, AppliedOk DEF Stored
  <2>7. SessionFits' BY <1>3, <2>3, <2>4, <2>5 DEF SessionFits
  <2>8. Ledger' BY <1>3, <2>4, <2>5, <2>6 DEF LInv, Ledger
  <2>9. Types' BY <1>3, <1>10, <2>3, <2>4, EmptyWrites DEF LInv, Types
  <2>10. QED BY <1>4, <1>5, <2>7, <2>8, <2>9 DEF LInv
<1>12. CASE q = "commit"
  <2>1. in_txn' = FALSE /\ pending' = <<>> BY <1>3, <1>7, <1>12 DEF Apply, TxnControl
  <2>2. /\ believes' = FALSE /\ broken' = broken /\ mine' = {} /\ undone' = undone
        /\ durable' = IF believes /\ ~broken THEN durable \cup mine ELSE durable
    BY <1>3, <1>7, <1>12 DEF Told, TxnControl
  <2>3. Pending' = {} BY <2>1, EmptySet DEF Pending
  <2>4. Stored' = Stored \cup Pending BY <1>7, <1>8, <1>12, AppliedOk DEF Stored
  <2>5. SessionFits' BY <2>1, <2>2 DEF SessionFits
  <2>6. believes /\ ~broken => mine \subseteq Pending BY DEF LInv, SessionFits
  <2>7. Ledger' BY <1>3, <2>2, <2>3, <2>4, <2>6 DEF LInv, Ledger
  <2>8. Types' BY <1>3, <1>10, <2>1, <2>2, EmptyWrites DEF LInv, Types
  <2>9. QED BY <1>4, <1>5, <2>5, <2>7, <2>8 DEF LInv
<1>13. CASE q = "rollback"
  <2>1. in_txn' = FALSE /\ pending' = <<>> BY <1>3, <1>7, <1>13 DEF Apply, TxnControl
  <2>2. /\ believes' = FALSE /\ broken' = broken /\ mine' = {} /\ durable' = durable
        /\ undone' = IF believes /\ ~broken THEN undone \cup mine ELSE undone
    BY <1>3, <1>7, <1>13 DEF Told, TxnControl
  <2>3. Pending' = {} BY <2>1, EmptySet DEF Pending
  <2>4. Stored' = Stored BY <1>7, <1>8, <1>13, AppliedOk DEF Stored
  <2>5. SessionFits' BY <2>1, <2>2 DEF SessionFits
  <2>6. believes /\ ~broken => mine \cap Stored = {} BY DEF LInv, SessionFits
  <2>7. Ledger' BY <1>3, <2>2, <2>3, <2>4, <2>6 DEF LInv, Ledger
  <2>8. Types' BY <1>3, <1>10, <2>1, <2>2, EmptyWrites DEF LInv, Types
  <2>9. QED BY <1>4, <1>5, <2>5, <2>7, <2>8 DEF LInv
<1>14. CASE q \in Writes
  <2>1. in_txn' = in_txn /\ pending' = IF in_txn THEN Append(pending, q) ELSE pending
    BY <1>3, <1>7, <1>14 DEF Apply
  <2>2. /\ believes' = believes /\ broken' = broken /\ undone' = undone
        /\ mine' = (IF believes THEN mine \cup {q} ELSE mine)
        /\ durable' = (IF believes THEN durable ELSE durable \cup {q})
    BY <1>3, <1>7, <1>14, <1>9 DEF Told
  <2>3. CASE in_txn
    <3>1. believes /\ ~broken BY <2>3 DEF LInv, SessionFits
    <3>2. pending' \in Seq(Writes) /\ Pending' = Pending \cup {q}
      BY <1>9, <1>14, <2>1, <2>3, AppendSet DEF Pending
    <3>3. Stored' = Stored BY <1>7, <1>8, <1>14, <2>3, AppliedOk DEF Stored
    <3>4. q \notin Stored BY <1>1, <3>1 DEF LInv, CallFits, q
    <3>5. SessionFits' BY <1>3, <2>1, <2>2, <2>3, <3>1, <3>2, <3>3, <3>4 DEF LInv, SessionFits
    <3>6. Ledger' BY <1>3, <1>6, <1>14, <2>2, <3>1, <3>2, <3>3 DEF LInv, Ledger, q
    <3>7. Types' BY <1>3, <1>10, <2>1, <2>2, <3>2 DEF LInv, Types
    <3>8. QED BY <1>4, <1>5, <3>5, <3>6, <3>7 DEF LInv
  <2>4. CASE ~in_txn
    <3>1. ~believes \/ broken BY <2>4 DEF LInv, SessionFits
    <3>2. pending' = pending /\ Pending' = Pending BY <2>1, <2>4 DEF Pending
    <3>3. Stored' = Stored \cup {q} BY <1>7, <1>8, <1>14, <2>4, AppliedOk DEF Stored
    <3>4. Pending = {} BY <2>4, EmptySet DEF LInv, SessionFits, Pending
    <3>5. SessionFits' BY <1>3, <2>1, <2>2, <2>4, <3>1, <3>2 DEF LInv, SessionFits
    <3>6. Ledger' BY <1>3, <1>6, <1>14, <2>2, <3>2, <3>3, <3>4 DEF LInv, Ledger, q
    <3>7. Types' BY <1>3, <1>10, <2>1, <2>2, <3>2 DEF LInv, Types
    <3>8. QED BY <1>4, <1>5, <3>5, <3>6, <3>7 DEF LInv
  <2>5. QED BY <1>9, <2>3, <2>4
<1>15. QED BY <1>7, <1>11, <1>12, <1>13, <1>14

(* The error path of SafeQuery.                                            *)
LEMMA AfterLossOk ==
  ASSUME StackOk, Sending, AfterLoss, ret \in BOOLEAN
  PROVE  StackOk' /\ SameCall /\ ret' \in BOOLEAN
<1>1. stack # <<>> BY DEF Sending, At
<1>2. CASE At("Execute", "first")
  <2>1. Call(BuildConnection, "rebuilt") /\ ret' = ret BY <1>2 DEF AfterLoss
  <2>2. PICK g : g = BuildConnection OBVIOUS
  <2>3. g \in Frame /\ g.fn = "Build" /\ "rebuilt" \in Places
    BY <2>2 DEF BuildConnection, Frame, Places
  <2>4. QED BY <1>1, <2>1, <2>2, <2>3, CallOk
<1>3. CASE ~At("Execute", "first")
  <2>1. stack' = Tail(stack) /\ ret' = FALSE BY <1>3 DEF AfterLoss, Return
  <2>2. QED BY <1>1, <2>1, PopOk
<1>4. QED BY <1>2, <1>3

(* The statement took effect and its answer was lost: the write may be in  *)
(* the database without anyone having been told, never the other way       *)
(* round.                                                                  *)
LEMMA QueryLostKeeps == ASSUME LInv, QueryLost PROVE LInv'
<1>1. /\ Sending /\ my = "live" /\ my' = "dead" /\ db' = Applied(Statement)
      /\ in_txn' = FALSE /\ pending' = <<>> /\ AfterLoss
      /\ unsettled' = (unsettled \/ SettingUp)
      /\ UNCHANGED <<crashed, used, believes, broken, mine, durable, undone>>
  BY DEF QueryLost, SessionEnds
<1>2. StackOk' /\ SameCall /\ ret' \in BOOLEAN BY <1>1, AfterLossOk DEF LInv, Types
<1>3. stack # <<>> /\ stack[1].fn = "Execute" /\ Statement = stack[1].q
  BY <1>1, TopOfStack DEF Sending, At, Statement, LInv
<1>4. (Statement = UserQ /\ UserQ \in Writes \cup TxnControl) \/ Statement \in SetUp
  BY <1>3, TopOfStack DEF LInv, StackOk, Nested
<1>5. Statement \in Statements BY <1>4 DEF Statements
<1>6. Statement \in Writes => Statement = UserQ BY <1>4, MySQLAssumption
<1>7. db' \in Seq(Writes) BY <1>1, <1>5, AppliedOk
<1>8. unsettled' \in BOOLEAN BY <1>1 DEF LInv, Types, SettingUp
<1>9. Types' BY <1>1, <1>2, <1>7, <1>8, EmptyWrites DEF LInv, Types
<1>10. Pending' = {} BY <1>1, EmptySet DEF Pending
<1>11. /\ Stored \subseteq Stored'
       /\ Stored' \subseteq Stored \cup Pending \cup ({Statement} \cap Writes)
  <2>1. Stored' = ToSet(Applied(Statement)) BY <1>1 DEF Stored
  <2>2. CASE Statement \in {"begin", "commit"} BY <1>5, <2>1, <2>2, AppliedOk
  <2>3. CASE Statement \in Writes /\ ~in_txn BY <1>5, <2>1, <2>3, AppliedOk
  <2>4. CASE Statement \in SetUp \cup {"rollback"} \/ (Statement \in Writes /\ in_txn)
    <3>1. Applied(Statement) = db BY <1>5, <2>4, AppliedOk
    <3>2. QED BY <2>1, <3>1 DEF Stored
  <2>5. QED BY <1>5, <2>2, <2>3, <2>4 DEF Statements, TxnControl
<1>12. Statement \in Writes => Statement \in used /\ Statement \notin undone
  BY <1>3, <1>6 DEF LInv, CallFits
<1>13. Ledger' BY <1>1, <1>10, <1>11, <1>12 DEF LInv, Ledger
<1>14. SessionFits' BY <1>1 DEF SessionFits
<1>15. CallFits' BY <1>1, <1>2 DEF LInv, CallFits, SameCall
<1>16. QED BY <1>2, <1>9, <1>13, <1>14, <1>15 DEF LInv

LEMMA InitLInv == Init => LInv
<1> SUFFICES ASSUME Init PROVE LInv OBVIOUS
<1> USE DEF Init
<1>1. \A S : <<>> \in Seq(S) OBVIOUS
<1>2. StackOk BY <1>1 DEF StackOk, Nested
<1>3. Types BY <1>1 DEF Types
<1>4. Pending = {} /\ Stored = {} BY EmptySet DEF Pending, Stored
<1>5. CallFits /\ SessionFits /\ Ledger BY <1>4 DEF CallFits, SessionFits, Ledger
<1>6. QED BY <1>2, <1>3, <1>5 DEF LInv

LEMMA StepKeeps == ASSUME LInv, Step PROVE LInv'
<1>1. StackOk /\ Types BY DEF LInv
<1> USE DEF server, history
<1>2. CASE CheckConnection
  <2>1. stack # <<>> /\ (Goto("first") \/ Call(BuildConnection, "checked"))
        /\ UNCHANGED <<my, ret, crashed, broken, unsettled>> /\ SameLedger
    BY <1>2 DEF CheckConnection, At, SameLedger
  <2>2. PICK g : g = BuildConnection OBVIOUS
  <2>3. g \in Frame /\ g.fn = "Build" /\ "checked" \in Places /\ "first" \in Places
    BY <2>2 DEF BuildConnection, Frame, Places
  <2>4. StackOk' /\ SameCall BY <1>1, <2>1, <2>2, <2>3, CallOk, GotoOk
  <2>5. QED BY <1>1, <2>1, <2>4, SessionKept DEF Types
<1>3. CASE Checked \/ Rebuilt
  <2>1. /\ stack # <<>> /\ UNCHANGED <<my, crashed, broken, unsettled>> /\ SameLedger
        /\ \/ Goto("first") /\ ret' = ret
           \/ Goto("retry") /\ ret' = ret
           \/ stack' = Tail(stack) /\ ret' = FALSE
    BY <1>3 DEF Checked, Rebuilt, At, SameLedger, Return
  <2>2. "first" \in Places /\ "retry" \in Places BY DEF Places
  <2>3. StackOk' /\ SameCall BY <1>1, <2>1, <2>2, GotoOk, PopOk
  <2>4. QED BY <1>1, <2>1, <2>3, SessionKept DEF Types
<1>4. CASE QuerySucceeds
  <2>1. Sending /\ my = "live" BY <1>4 DEF QuerySucceeds
  <2>2. QED BY <1>4, <2>1, TellNested, TellUser
<1>5. CASE QueryRefused
  <2>1. /\ stack # <<>> /\ UNCHANGED <<my, crashed, broken, unsettled>> /\ SameLedger
        /\ stack' = Tail(stack) /\ ret' = FALSE
    BY <1>5 DEF QueryRefused, Sending, At, SameLedger, Return
  <2>2. QED BY <1>1, <2>1, PopOk, SessionKept DEF Types
<1>6. CASE QueryGone
  <2>1. Sending /\ AfterLoss /\ UNCHANGED <<my, crashed, broken, unsettled>> /\ SameLedger
    BY <1>6 DEF QueryGone, SameLedger
  <2>2. QED BY <1>1, <2>1, AfterLossOk, SessionKept DEF Types
<1>7. CASE LibraryReconnects
  <2>1. /\ my = "dead" /\ my' = "live" /\ broken' = (broken \/ believes) /\ stack' = stack
        /\ UNCHANGED <<ret, crashed, unsettled>> /\ SameLedger
    BY <1>7 DEF LibraryReconnects, SameLedger
  <2>2. ~in_txn /\ pending = <<>> BY <2>1 DEF LInv, SessionFits
  <2>3. SessionEnds BY <1>1, <2>1, <2>2 DEF SessionEnds, SameLedger, Types
  <2>4. StackOk' /\ SameCall BY <1>1, <2>1 DEF StackOk, Nested, SameCall, UserQ
  <2>5. QED BY <1>1, <2>1, <2>3, <2>4, SessionLost DEF Types, SameLedger
<1>8. CASE Connects
  <2>1. /\ stack # <<>> /\ my' = "live" /\ SessionEnds /\ broken' = (broken \/ believes)
        /\ Goto("names") /\ UNCHANGED <<ret, crashed, db, used, believes, mine, durable, undone,
                                        unsettled>>
    BY <1>8 DEF Connects, At
  <2>2. StackOk' /\ SameCall
    <3>1. "names" \in Places BY DEF Places
    <3>2. QED BY <1>1, <2>1, <3>1, GotoOk
  <2>3. QED BY <1>1, <2>1, <2>2, SessionLost DEF Types
<1>9. CASE ConnectFails
  <2>1. /\ stack # <<>> /\ my' = "null" /\ SessionEnds /\ stack' = Tail(stack) /\ ret' = FALSE
        /\ UNCHANGED <<crashed, db, used, believes, broken, mine, durable, undone, unsettled>>
    BY <1>9 DEF ConnectFails, At, Return
  <2>2. QED BY <1>1, <2>1, PopOk, SessionLost DEF Types
<1>10. CASE SetNames \/ SetCharset
  <2>1. PICK q \in SetUp, place \in {"charset", "options"} : Call(Execute(q), place)
    BY <1>10 DEF SetNames, SetCharset, SetUp
  <2>2. stack # <<>> /\ UNCHANGED <<my, ret, crashed, broken, unsettled>> /\ SameLedger
    BY <1>10 DEF SetNames, SetCharset, At, SameLedger
  <2>3. PICK g : g = Execute(q) OBVIOUS
  <2>4. g \in Frame /\ g.q \in SetUp /\ place \in Places
    BY <2>1, <2>3 DEF Execute, Frame, Places, Statements
  <2>5. StackOk' /\ SameCall BY <1>1, <2>1, <2>2, <2>3, <2>4, CallOk
  <2>6. QED BY <1>1, <2>2, <2>5, SessionKept DEF Types
<1>11. CASE SetOptions
  <2>1. /\ stack # <<>> /\ UNCHANGED <<my, broken, unsettled>> /\ SameLedger
        /\ \/ crashed' = TRUE /\ stack' = stack /\ ret' = ret
           \/ crashed' = crashed /\ stack' = Tail(stack) /\ ret' = TRUE
    BY <1>11 DEF SetOptions, At, SameLedger, Return
  <2>2. stack' = stack => StackOk' /\ SameCall BY <1>1 DEF StackOk, Nested, SameCall, UserQ
  <2>3. StackOk' /\ SameCall BY <1>1, <2>1, <2>2, PopOk
  <2>4. QED BY <1>1, <2>1, <2>3, SessionKept DEF Types
<1>12. QED
  BY <1>2, <1>3, <1>4, <1>5, <1>6, <1>7, <1>8, <1>9, <1>10, <1>11 DEF Step

LEMMA NextKeeps == LInv /\ [Next]_vars => LInv'
<1> SUFFICES ASSUME LInv, [Next]_vars PROVE LInv' OBVIOUS
<1>1. StackOk /\ Types BY DEF LInv
<1>2. CASE Drop
  <2>1. /\ my' = "dead" /\ SessionEnds /\ unsettled' = (unsettled \/ SettingUp) /\ stack' = stack
        /\ UNCHANGED <<ret, crashed, db, used, believes, broken, mine, durable, undone>>
    BY <1>2 DEF Drop
  <2>2. unsettled' \in BOOLEAN BY <1>1, <2>1 DEF Types, SettingUp
  <2>3. StackOk' /\ SameCall BY <1>1, <2>1 DEF StackOk, Nested, SameCall, UserQ
  <2>4. QED BY <1>1, <2>1, <2>2, <2>3, SessionLost DEF Types
<1>3. CASE UNCHANGED vars
  <2>1. stack' = stack /\ SameLedger /\ UNCHANGED <<my, broken, ret, crashed, unsettled>>
    BY <1>3 DEF vars, client, server, history, SameLedger
  <2>2. StackOk' /\ SameCall BY <1>1, <2>1 DEF StackOk, Nested, SameCall, UserQ
  <2>3. QED BY <1>1, <2>1, <2>2, SessionKept DEF Types
<1>4. QED BY <1>2, <1>3, UserCallsKeeps, StepKeeps, QueryLostKeeps DEF Next

(* Whatever connections are lost, replaced or reconnected between or       *)
(* within the steps of Execute, SafeQuery and BuildConnection, a write     *)
(* whose success was reported is in the database (at once, or since its    *)
(* commit on the connection that began the transaction), and one rolled    *)
(* back on its own connection is not.                                      *)
THEOREM ToldTheTruth == Spec => []ToldIsTrue
<1>1. LInv => ToldIsTrue BY DEF LInv, Ledger, ToldIsTrue
<1>2. QED BY <1>1, InitLInv, NextKeeps, PTL DEF Spec

(* A connection between two calls, whose user was told of no open          *)
(* transaction, has none open on the server: the next user ConnPool lends  *)
(* it to begins afresh.                                                    *)
THEOREM NoneLeftOpen == Spec => []NoTransactionLeftOpen
<1>1. LInv => NoTransactionLeftOpen BY DEF LInv, SessionFits, NoTransactionLeftOpen
<1>2. QED BY <1>1, InitLInv, NextKeeps, PTL DEF Spec

-----------------------------------------------------------------------------
(* What SetUpFits says of the innermost call.                              *)
LEMMA Shape ==
  ASSUME StackOk, SetUpFits, ~unsettled, stack # <<>>
  PROVE  /\ ~crashed /\ Head(stack) = stack[1] /\ Len(stack) \in {1, 2, 3}
         /\ stack[1].fn = "Execute" =>
              \/ Len(stack) = 1
              \/ /\ Len(stack) = 3 /\ my = "live" /\ stack[1].at \in {"check", "first"}
                 /\ stack[2].fn = "Build" /\ stack[2].at # "connect"
         /\ stack[1].fn = "Build" =>
              Len(stack) = 2 /\ (stack[1].at # "connect" => my = "live")
<1>1. /\ Head(stack) = stack[1] /\ Len(stack) \in Nat \ {0}
      /\ Len(stack) = 1 => stack[1].fn = "Execute"
  BY TopOfStack
<1>2. ~crashed BY DEF SetUpFits
<1>3. CASE Len(stack) <= 1
  <2>1. Len(stack) = 1 BY <1>1, <1>3, NatOne
  <2>2. QED BY <1>1, <1>2, <2>1
<1>4. CASE Len(stack) = 2 /\ stack[1].fn = "Build" /\ (stack[1].at # "connect" => my = "live")
  BY <1>1, <1>2, <1>4
<1>5. CASE /\ Len(stack) = 3 /\ my = "live"
           /\ stack[1].fn = "Execute" /\ stack[1].at \in {"check", "first"}
           /\ stack[2].fn = "Build" /\ stack[2].at # "connect"
  BY <1>1, <1>2, <1>5
<1>6. QED BY <1>3, <1>4, <1>5 DEF SetUpFits

(* The ways SetUpFits is restored.                                         *)
LEMMA ShortFits == ASSUME ~crashed', Len(stack') \in {0, 1} PROVE SetUpFits'
<1>1. Len(stack') <= 1 BY AtMostOne
<1>2. QED BY <1>1 DEF SetUpFits

LEMMA PopShape ==
  ASSUME StackOk, stack # <<>>, stack' = Tail(stack)
  PROVE  /\ Len(stack') = Len(stack) - 1
         /\ Len(stack) = 3 => stack'[1] = stack[2]
<1>1. /\ Len(stack) \in Nat \ {0} /\ Len(Tail(stack)) = Len(stack) - 1
      /\ \A i \in 1 .. Len(stack) - 1 : Tail(stack)[i] = stack[i + 1]
  BY TailFacts DEF StackOk
<1>2. Len(stack) = 3 => 1 \in 1 .. Len(stack) - 1 /\ 1 + 1 = 2 OBVIOUS
<1>3. QED BY <1>1, <1>2

LEMMA BuildFits ==
  ASSUME StackOk, stack # <<>>, Len(stack) = 1, ~crashed', NEW place \in Places,
         Call(BuildConnection, place)
  PROVE  SetUpFits'
<1>1. PICK g : g = BuildConnection OBVIOUS
<1>2. g \in Frame /\ g.fn = "Build" /\ g.at = "connect"
  BY <1>1 DEF BuildConnection, Frame, Places
<1>3. Len(stack') = Len(stack) + 1 /\ stack'[1] = g BY <1>1, <1>2, CallOk
<1>4. Len(stack') = 2 BY <1>3
<1>5. QED BY <1>2, <1>3, <1>4 DEF SetUpFits

LEMMA LossFits ==
  ASSUME StackOk, Sending, AfterLoss, Len(stack) = 1, ~crashed' PROVE SetUpFits'
<1>1. stack # <<>> BY DEF Sending, At
<1>2. CASE At("Execute", "first")
  <2>1. Call(BuildConnection, "rebuilt") /\ "rebuilt" \in Places BY <1>2 DEF AfterLoss, Places
  <2>2. QED BY <1>1, <2>1, BuildFits
<1>3. CASE ~At("Execute", "first")
  <2>1. stack' = Tail(stack) BY <1>3 DEF AfterLoss, Return
  <2>2. Len(stack') = 0 BY <1>1, <2>1, PopShape
  <2>3. QED BY <2>2, ShortFits
<1>4. QED BY <1>2, <1>3

LEMMA StepFits == ASSUME LInv, SetUpFits, Step PROVE SetUpFits'
<1> SUFFICES ASSUME ~unsettled' PROVE SetUpFits' BY DEF SetUpFits
<1>1. unsettled' = unsettled /\ stack # <<>> /\ StackOk
  BY DEF Step, CheckConnection, Checked, QuerySucceeds, QueryRefused, QueryGone, LibraryReconnects,
         Rebuilt, Connects, ConnectFails, SetNames, SetCharset, SetOptions, Sending, At, history,
         LInv
<1>2. /\ ~crashed /\ Head(stack) = stack[1] /\ Len(stack) \in {1, 2, 3}
      /\ stack[1].fn = "Execute" =>
           \/ Len(stack) = 1
           \/ /\ Len(stack) = 3 /\ my = "live" /\ stack[1].at \in {"check", "first"}
              /\ stack[2].fn = "Build" /\ stack[2].at # "connect"
      /\ stack[1].fn = "Build" =>
           Len(stack) = 2 /\ (stack[1].at # "connect" => my = "live")
  BY <1>1, Shape
<1>3. CASE CheckConnection
  <2>1. stack[1].fn = "Execute" /\ my' = my /\ ~crashed'
        /\ IF my # "null" THEN Goto("first") ELSE Call(BuildConnection, "checked")
    BY <1>2, <1>3 DEF CheckConnection, At
  <2>2. "first" \in Places /\ "checked" \in Places BY DEF Places
  <2>3. CASE my = "null"
    <3>1. Len(stack) = 1 BY <1>2, <2>1, <2>3
    <3>2. QED BY <1>1, <2>1, <2>2, <2>3, <3>1, BuildFits
  <2>4. CASE my # "null"
    <3>1. /\ Len(stack') = Len(stack) /\ stack'[1].fn = "Execute" /\ stack'[1].at = "first"
          /\ \A i \in 2 .. Len(stack) : stack'[i] = stack[i]
      BY <1>1, <2>1, <2>2, <2>4, GotoOk
    <3>2. CASE Len(stack) = 1 BY <2>1, <3>1, <3>2, ShortFits
    <3>3. CASE Len(stack) = 3
      <4>1. stack'[2] = stack[2] BY <3>1, <3>3
      <4>2. QED BY <1>2, <2>1, <3>1, <3>3, <4>1 DEF SetUpFits
    <3>4. QED BY <1>2, <2>1, <3>2, <3>3
  <2>5. QED BY <2>3, <2>4
<1>4. CASE Checked \/ Rebuilt
  <2>1. /\ Len(stack) = 1 /\ ~crashed'
        /\ Goto("first") \/ Goto("retry") \/ stack' = Tail(stack)
    BY <1>2, <1>4 DEF Checked, Rebuilt, At, Return
  <2>2. "first" \in Places /\ "retry" \in Places BY DEF Places
  <2>3. Len(stack') \in {0, 1} BY <1>1, <2>1, <2>2, GotoOk, PopShape
  <2>4. QED BY <2>1, <2>3, ShortFits
<1>5. CASE QuerySucceeds \/ QueryRefused
  <2>1. stack[1].fn = "Execute" /\ stack' = Tail(stack) /\ my' = my /\ ~crashed'
    <3>1. Sending /\ stack' = Tail(stack) /\ my' = my /\ crashed' = crashed
      BY <1>5 DEF QuerySucceeds, QueryRefused, Return
    <3>2. QED BY <1>2, <3>1 DEF Sending, At
  <2>2. Len(stack') = Len(stack) - 1 /\ (Len(stack) = 3 => stack'[1] = stack[2])
    BY <1>1, <2>1, PopShape
  <2>3. CASE Len(stack) = 1 BY <2>1, <2>2, <2>3, ShortFits
  <2>4. CASE Len(stack) = 3
    <3>1. Len(stack') = 2 BY <2>2, <2>4
    <3>2. QED BY <1>2, <2>1, <2>2, <2>4, <3>1 DEF SetUpFits
  <2>5. QED BY <1>2, <2>1, <2>3, <2>4
<1>6. CASE QueryGone
  <2>1. Sending /\ AfterLoss /\ ~crashed' /\ Len(stack) = 1
    BY <1>2, <1>6 DEF QueryGone, Sending, At
  <2>2. QED BY <1>1, <2>1, LossFits
<1>7. CASE LibraryReconnects
  <2>1. stack' = stack /\ ~crashed' /\ Len(stack) = 1
    BY <1>2, <1>7 DEF LibraryReconnects, Sending, At
  <2>2. QED BY <2>1, ShortFits
<1>8. CASE Connects
  <2>1. stack[1].fn = "Build" /\ my' = "live" /\ ~crashed' /\ Goto("names")
    BY <1>2, <1>8 DEF Connects, At
  <2>2. "names" \in Places BY DEF Places
  <2>3. Len(stack') = Len(stack) /\ stack'[1].fn = "Build" BY <1>1, <2>1, <2>2, GotoOk
  <2>4. QED BY <1>2, <2>1, <2>3 DEF SetUpFits
<1>9. CASE ConnectFails
  <2>1. Len(stack) = 2 /\ stack' = Tail(stack) /\ ~crashed'
    BY <1>2, <1>9 DEF ConnectFails, At, Return
  <2>2. Len(stack') = 1 BY <1>1, <2>1, PopShape
  <2>3. QED BY <2>1, <2>2, ShortFits
<1>10. CASE SetNames \/ SetCharset
  <2>1. PICK q \in SetUp, place \in {"charset", "options"} : Call(Execute(q), place)
    BY <1>10 DEF SetNames, SetCharset, SetUp
  <2>2. /\ Len(stack) = 2 /\ stack[1].fn = "Build" /\ my = "live" /\ my' = my /\ ~crashed'
    BY <1>2, <1>10 DEF SetNames, SetCharset, At
  <2>3. PICK g : g = Execute(q) OBVIOUS
  <2>4. g \in Frame /\ g.fn = "Execute" /\ g.q \in SetUp /\ g.at = "check" /\ place \in Places
    BY <2>1, <2>3 DEF Execute, Frame, Places, Statements
  <2>5. /\ Len(stack') = Len(stack) + 1 /\ stack'[1] = g /\ stack'[2].fn = "Build"
        /\ stack'[2].at = place
    BY <1>1, <2>1, <2>2, <2>3, <2>4, CallOk
  <2>6. Len(stack') = 3 /\ place # "connect" BY <2>2, <2>5
  <2>7. QED BY <2>2, <2>4, <2>5, <2>6 DEF SetUpFits
<1>11. CASE SetOptions
  <2>1. Len(stack) = 2 /\ my = "live" BY <1>2, <1>11 DEF SetOptions, At
  <2>2. stack' = Tail(stack) /\ ~crashed' BY <1>2, <1>11, <2>1 DEF SetOptions, Return
  <2>3. Len(stack') = 1 BY <1>1, <2>1, <2>2, PopShape
  <2>4. QED BY <2>2, <2>3, ShortFits
<1>12. QED
  BY <1>3, <1>4, <1>5, <1>6, <1>7, <1>8, <1>9, <1>10, <1>11 DEF Step

LEMMA NextFits == LInv /\ SetUpFits /\ [Next]_vars => SetUpFits'
<1> SUFFICES ASSUME LInv, SetUpFits, [Next]_vars, ~unsettled' PROVE SetUpFits'
  BY DEF SetUpFits
<1>1. StackOk /\ unsettled \in BOOLEAN BY DEF LInv, Types
<1>2. CASE UNCHANGED vars BY <1>2 DEF SetUpFits, vars, client, history
<1>3. ASSUME NEW q \in Writes \cup TxnControl, UserCalls(q) PROVE SetUpFits'
  <2>1. ~crashed' /\ stack' = <<Execute(q)>> BY <1>3 DEF UserCalls
  <2>2. Len(stack') = 1 BY <2>1
  <2>3. QED BY <2>1, <2>2, ShortFits
<1>4. CASE QueryLost \/ Drop
  <2>1. ~unsettled /\ ~SettingUp BY <1>1, <1>4 DEF QueryLost, Drop
  <2>2. CASE stack = <<>>
    <3>1. stack' = stack /\ crashed' = crashed BY <1>4, <2>2 DEF QueryLost, Drop, Sending, At
    <3>2. Len(stack') = 0 /\ ~crashed' BY <2>1, <2>2, <3>1 DEF SetUpFits
    <3>3. QED BY <3>2, ShortFits
  <2>3. CASE stack # <<>>
    <3>1. /\ ~crashed /\ Len(stack) \in {1, 2, 3}
          /\ stack[1].fn = "Execute" => Len(stack) = 1 \/ (Len(stack) = 3 /\ stack[2].fn = "Build")
          /\ stack[1].fn = "Build" => Len(stack) = 2
          /\ stack[1].fn \in {"Execute", "Build"}
      <4>1. stack[1] \in Frame BY <1>1, <2>3, TopOfStack
      <4>2. stack[1].fn \in {"Execute", "Build"} BY <4>1 DEF Frame
      <4>3. /\ ~crashed /\ Len(stack) \in {1, 2, 3}
            /\ stack[1].fn = "Execute" =>
                 \/ Len(stack) = 1
                 \/ /\ Len(stack) = 3 /\ my = "live" /\ stack[1].at \in {"check", "first"}
                    /\ stack[2].fn = "Build" /\ stack[2].at # "connect"
            /\ stack[1].fn = "Build" =>
                 Len(stack) = 2 /\ (stack[1].at # "connect" => my = "live")
        BY <1>1, <2>1, <2>3, Shape
      <4>4. QED BY <4>2, <4>3
    <3>2. stack[1].fn # "Build" /\ (Len(stack) = 3 => stack[2].fn # "Build")
      BY <2>1, <3>1 DEF SettingUp
    <3>3. Len(stack) = 1 BY <3>1, <3>2
    <3>4. CASE QueryLost
      <4>1. Sending /\ AfterLoss /\ ~crashed' BY <3>1, <3>4 DEF QueryLost
      <4>2. QED BY <1>1, <3>3, <4>1, LossFits
    <3>5. CASE Drop
      <4>1. stack' = stack /\ ~crashed' BY <3>1, <3>5 DEF Drop
      <4>2. QED BY <3>3, <4>1, ShortFits
    <3>6. QED BY <1>4, <3>4, <3>5
  <2>4. QED BY <2>2, <2>3
<1>5. QED BY <1>2, <1>3, <1>4, StepFits DEF Next

(* BuildConnection calls mysql_options on a null my_ only if the server    *)
(* dropped a connection while BuildConnection was setting one up: a        *)
(* failing mysql_real_connect or a refused SET alone never leads there.    *)
THEOREM NullAfterLossOnly == Spec => []NullOnlyIfLostInSetUp
<1>1. Init => SetUpFits
  <2>1. Init => stack = <<>> /\ ~crashed BY DEF Init
  <2>2. Len(<<>>) <= 1 OBVIOUS
  <2>3. QED BY <2>1, <2>2 DEF SetUpFits
<1>2. SetUpFits => NullOnlyIfLostInSetUp BY DEF SetUpFits, NullOnlyIfLostInSetUp
<1>3. QED BY <1>1, <1>2, InitLInv, NextKeeps, NextFits, PTL DEF Spec

-----------------------------------------------------------------------------
(* How often a write is on the server.                                     *)
LEMMA OccurrencesType ==
  ASSUME NEW S, NEW s \in Seq(S), NEW w
  PROVE  IsFiniteSet({k \in 1 .. Len(s) : s[k] = w}) /\ Occurrences(s, w) \in Nat
<1>1. Len(s) \in Int /\ 1 \in Int BY LenProperties
<1>2. IsFiniteSet(1 .. Len(s)) BY <1>1, FS_Interval
<1>3. {k \in 1 .. Len(s) : s[k] = w} \in SUBSET (1 .. Len(s)) OBVIOUS
<1>4. IsFiniteSet({k \in 1 .. Len(s) : s[k] = w}) BY <1>2, <1>3, FS_Subset
<1>5. QED BY <1>4, FS_CardinalityType DEF Occurrences

LEMMA OccurrencesAppend ==
  ASSUME NEW S, NEW s \in Seq(S), NEW x \in S, NEW w
  PROVE  Occurrences(Append(s, x), w) = Occurrences(s, w) + (IF x = w THEN 1 ELSE 0)
<1> DEFINE t == Append(s, x)
           n == Len(s) + 1
           K == {k \in 1 .. Len(s) : s[k] = w}
           L == {k \in 1 .. Len(t) : t[k] = w}
<1>1. /\ Len(t) = n /\ Len(s) \in Nat /\ t[n] = x
      /\ \A i \in 1 .. Len(s) : t[i] = s[i]
  BY AppendProperties, LenProperties
<1>2. IsFiniteSet(K) /\ Cardinality(K) \in Nat BY OccurrencesType DEF Occurrences
<1>3. n \notin K BY <1>1
<1> HIDE DEF t
<1>4. CASE x = w
  <2>1. L = K \cup {n} BY <1>1, <1>4
  <2>2. Cardinality(K \cup {n}) = Cardinality(K) + 1 BY <1>2, <1>3, FS_AddElement
  <2>3. QED BY <1>4, <2>1, <2>2 DEF Occurrences, t
<1>5. CASE x # w
  <2>1. L = K BY <1>1, <1>5
  <2>2. Occurrences(t, w) = Occurrences(s, w) /\ Occurrences(s, w) \in Nat
    BY <1>2, <2>1 DEF Occurrences
  <2>3. QED BY <1>5, <2>2 DEF t
<1>6. QED BY <1>4, <1>5

LEMMA OccurrencesPrefix ==
  ASSUME NEW S, NEW s \in Seq(S), NEW t \in Seq(S), NEW w
  PROVE  Occurrences(s, w) <= Occurrences(s \o t, w)
<1> DEFINE u == s \o t
           K == {k \in 1 .. Len(s) : s[k] = w}
           L == {k \in 1 .. Len(u) : u[k] = w}
<1>1. /\ u \in Seq(S) /\ Len(u) = Len(s) + Len(t) /\ Len(s) \in Nat /\ Len(t) \in Nat
      /\ \A i \in 1 .. Len(s) + Len(t) : u[i] = IF i <= Len(s) THEN s[i] ELSE t[i - Len(s)]
  BY ConcatProperties, LenProperties
<1>2. IsFiniteSet(L) BY <1>1, OccurrencesType
<1> HIDE DEF u
<1>3. K \in SUBSET L BY <1>1
<1>4. Cardinality(K) <= Cardinality(L) BY <1>2, <1>3, FS_Subset
<1>5. QED BY <1>4 DEF Occurrences, u

(* Where the user's call is.                                               *)
UserAt == stack[Len(stack)].at

Unsent == {"check", "checked", "first"}

(* A write is on the server not before its call sends it, before its       *)
(* second attempt only if the answer to the first was lost, and afterwards *)
(* as often as RepeatedOnlyIfAnswerLost allows.                            *)
CountFits ==
  /\ \A w \in Writes \ used : Times(w) = 0
  /\ RepeatedOnlyIfAnswerLost
  /\ stack # <<>> /\ UserQ \in Writes =>
       /\ UserAt \in Unsent => Times(UserQ) = 0
       /\ UserAt \notin Unsent => Times(UserQ) <= IF UserQ \in resent THEN 1 ELSE 0

LEMMA TimesType ==
  /\ Types => \A w : Times(w) \in Nat
  /\ Types' => \A w : Times(w)' \in Nat
<1>1. ASSUME NEW s \in Seq(Writes), NEW t \in Seq(Writes), NEW w
      PROVE  Occurrences(s \o t, w) \in Nat
  <2>1. s \o t \in Seq(Writes) BY ConcatProperties
  <2>2. QED BY <2>1, OccurrencesType
<1>2. QED BY <1>1 DEF Types, Times

(* Nothing is written, and the user's call does not go back to its first   *)
(* attempt.                                                                *)
LEMMA CountKept ==
  ASSUME CountFits, Types, Types', \A w \in Writes : Times(w)' <= Times(w),
         used' = used, resent \subseteq resent', SameCall,
         stack' # <<>> /\ UserAt' \in Unsent => UserAt \in Unsent
  PROVE  CountFits'
<1>1. \A w \in Writes : Times(w) \in Nat /\ Times(w)' \in Nat
  BY TimesType
<1>2. ASSUME NEW w \in Writes
      PROVE  /\ w \notin used' => Times(w)' = 0
             /\ Times(w)' <= IF w \in resent' THEN 2 ELSE 1
  BY <1>1 DEF CountFits, RepeatedOnlyIfAnswerLost
<1>3. ASSUME stack' # <<>>, UserQ' \in Writes
      PROVE  /\ UserAt' \in Unsent => Times(UserQ)' = 0
             /\ UserAt' \notin Unsent => Times(UserQ)' <= IF UserQ' \in resent' THEN 1 ELSE 0
  <2>1. PICK w \in Writes : w = UserQ /\ w = UserQ' /\ stack # <<>> BY <1>3 DEF SameCall
  <2>2. /\ UserAt \in Unsent => Times(w) = 0
        /\ UserAt \notin Unsent => Times(w) <= IF w \in resent THEN 1 ELSE 0
    BY <2>1 DEF CountFits
  <2>3. /\ Times(w)' <= Times(w) /\ Times(w) \in Nat /\ Times(w)' \in Nat BY <1>1
  <2>4. Times(UserQ)' = Times(w)' BY <2>1 DEF Times
  <2>5. CASE UserAt \in Unsent BY <1>3, <2>1, <2>2, <2>3, <2>4, <2>5
  <2>6. CASE UserAt \notin Unsent BY <1>3, <2>1, <2>2, <2>3, <2>4, <2>6
  <2>7. QED BY <2>5, <2>6
<1>4. QED BY <1>2, <1>3 DEF CountFits, RepeatedOnlyIfAnswerLost

(* The user's call does not go back to its first attempt.                  *)
Onward == stack' # <<>> /\ UserAt' \in Unsent => UserAt \in Unsent

LEMMA PopOnward == ASSUME StackOk, stack # <<>>, stack' = Tail(stack) PROVE Onward
<1>1. /\ stack' \in Seq(Frame) /\ Len(stack) \in Nat \ {0} /\ Len(stack') = Len(stack) - 1
      /\ \A i \in 1 .. Len(stack) - 1 : stack'[i] = stack[i + 1]
  BY TailFacts DEF StackOk
<1>2. ASSUME stack' # <<>> PROVE stack'[Len(stack')] = stack[Len(stack)]
  <2>1. Len(stack') # 0 BY <1>1, <1>2, EmptySeq
  <2>2. QED BY <1>1, <2>1
<1>3. QED BY <1>2 DEF Onward, UserAt

LEMMA GotoOnward ==
  ASSUME StackOk, stack # <<>>, NEW place \in Places, Goto(place),
         place \in Unsent => stack[1].at \in Unsent
  PROVE  Onward
<1>1. /\ Len(stack') = Len(stack) /\ stack'[1].at = place
      /\ \A i \in 2 .. Len(stack) : stack'[i] = stack[i]
  BY GotoOk
<1>2. Len(stack) \in Nat \ {0} BY TopOfStack
<1>3. CASE Len(stack) = 1 BY <1>1, <1>3 DEF Onward, UserAt
<1>4. CASE Len(stack) # 1
  <2>1. Len(stack) \in 2 .. Len(stack) BY <1>2, <1>4, NatLast
  <2>2. QED BY <1>1, <2>1 DEF Onward, UserAt
<1>5. QED BY <1>3, <1>4

LEMMA CallOnward ==
  ASSUME StackOk, stack # <<>>, NEW place \in Places, NEW g \in Frame, Call(g, place),
         place \in Unsent => stack[1].at \in Unsent
  PROVE  Onward /\ (Len(stack) = 1 => UserAt' = place)
<1>1. /\ stack \in Seq(Frame) /\ Len(stack) \in Nat \ {0}
      /\ Head(stack) \in Frame /\ Head(stack) = stack[1]
  BY TailFacts DEF StackOk
<1>2. PICK f : f = [Head(stack) EXCEPT !.at = place] OBVIOUS
<1>3. f \in Frame /\ f.at = place BY <1>1, <1>2 DEF Frame
<1>4. /\ Len(stack') = Len(stack) + 1 /\ stack'[2] = f
      /\ \A i \in 2 .. Len(stack) : stack'[i + 1] = stack[i]
  BY <1>1, <1>2, <1>3, CallFacts DEF Call
<1>5. CASE Len(stack) = 1
  <2>1. Len(stack') = 2 BY <1>4, <1>5
  <2>2. UserAt' = place /\ UserAt = stack[1].at BY <1>3, <1>4, <1>5, <2>1 DEF UserAt
  <2>3. QED BY <2>2 DEF Onward
<1>6. CASE Len(stack) # 1
  <2>1. Len(stack) \in 2 .. Len(stack) BY <1>1, <1>6, NatLast
  <2>2. UserAt' = UserAt BY <1>4, <2>1 DEF UserAt
  <2>3. QED BY <1>6, <2>2 DEF Onward
<1>7. QED BY <1>5, <1>6

LEMMA LossOnward == ASSUME StackOk, Sending, AfterLoss PROVE Onward
<1>1. stack # <<>> BY DEF Sending, At
<1>2. CASE At("Execute", "first")
  <2>1. Call(BuildConnection, "rebuilt") BY <1>2 DEF AfterLoss
  <2>2. PICK g : g = BuildConnection OBVIOUS
  <2>3. g \in Frame /\ "rebuilt" \in Places /\ "rebuilt" \notin Unsent
    BY <2>2 DEF BuildConnection, Frame, Places, Unsent
  <2>4. QED BY <1>1, <2>1, <2>2, <2>3, CallOnward
<1>3. CASE ~At("Execute", "first")
  <2>1. stack' = Tail(stack) BY <1>3 DEF AfterLoss, Return
  <2>2. QED BY <1>1, <2>1, PopOnward
<1>4. QED BY <1>2, <1>3

(* What becomes of the writes on the server.                               *)
LEMMA OccurrencesEnd ==
  ASSUME NEW s \in Seq(Writes), NEW t \in Seq(Writes), NEW x \in Writes, NEW w
  PROVE  /\ Occurrences(s \o <<>>, w) = Occurrences(s, w)
         /\ Occurrences(s, w) <= Occurrences(s \o t, w)
         /\ Occurrences(s \o Append(t, x), w)
              = Occurrences(s \o t, w) + (IF x = w THEN 1 ELSE 0)
<1>1. s \o <<>> = s BY ConcatEmptySeq
<1>2. s \o t \in Seq(Writes) BY ConcatProperties
<1>3. s \o Append(t, x) = Append(s \o t, x)
  <2>1. <<x>> \in Seq(Writes) OBVIOUS
  <2>2. Append(t, x) = t \o <<x>> BY AppendIsConcat
  <2>3. Append(s \o t, x) = (s \o t) \o <<x>> BY <1>2, AppendIsConcat
  <2>4. (s \o t) \o <<x>> = s \o (t \o <<x>>) BY <2>1, ConcatAssociative
  <2>5. QED BY <2>2, <2>3, <2>4
<1>4. Occurrences(Append(s \o t, x), w)
        = Occurrences(s \o t, w) + (IF x = w THEN 1 ELSE 0)
  <2>1. PICK u : u = s \o t OBVIOUS
  <2>2. u \in Seq(Writes) BY <1>2, <2>1
  <2>3. Occurrences(Append(u, x), w) = Occurrences(u, w) + (IF x = w THEN 1 ELSE 0)
    BY <2>2, OccurrencesAppend
  <2>4. QED BY <2>1, <2>3
<1>5. Occurrences(s, w) <= Occurrences(s \o t, w) BY OccurrencesPrefix
<1>6. QED BY <1>1, <1>3, <1>4, <1>5

LEMMA TimesEnds ==
  ASSUME Types, SessionEnds, db' = db PROVE \A w \in Writes : Times(w)' <= Times(w)
<1> TAKE w \in Writes
<1>1. pending' = <<>> /\ db \in Seq(Writes) /\ pending \in Seq(Writes)
  BY DEF SessionEnds, Types
<1>2. Occurrences(db \o <<>>, w) = Occurrences(db, w)
      /\ Occurrences(db, w) <= Occurrences(db \o pending, w)
  BY <1>1, OccurrencesEnd
<1>3. QED BY <1>1, <1>2 DEF Times

LEMMA TimesApplied ==
  ASSUME LInv, NEW q \in Statements, db' = Applied(q),
         Apply(q) \/ pending' = <<>>
  PROVE  \A w \in Writes : Times(w)' <= Times(w) + (IF q = w THEN 1 ELSE 0)
<1> TAKE w \in Writes
<1>1. db \in Seq(Writes) /\ pending \in Seq(Writes) /\ in_txn \in BOOLEAN BY DEF LInv, Types
<1>2. Times(w) \in Nat BY TimesType DEF LInv
<1>3. Times(w)' = Occurrences(db' \o pending', w) /\ Times(w) = Occurrences(db \o pending, w)
  BY DEF Times
<1>4. CASE q \in {"begin", "commit"}
  <2>1. q \notin Writes BY <1>4, MySQLAssumption DEF TxnControl
  <2>2. db' = db \o pending /\ pending' = <<>>
    BY <1>4, <2>1 DEF Applied, Apply, TxnControl
  <2>3. db \o pending \in Seq(Writes) BY <1>1, ConcatProperties
  <2>4. Times(w)' = Times(w) BY <1>3, <2>2, <2>3, OccurrencesEnd
  <2>5. QED BY <1>2, <2>1, <2>4
<1>5. CASE q \in SetUp \cup {"rollback"}
  <2>1. q \notin Writes /\ q \notin {"begin", "commit"}
    BY <1>5, MySQLAssumption DEF TxnControl, SetUp
  <2>2. db' = db /\ pending' \in {pending, <<>>}
    BY <1>5, <2>1 DEF Applied, Apply, TxnControl
  <2>3. Times(w)' <= Times(w)
    <3>1. CASE pending' = pending BY <1>2, <1>3, <2>2, <3>1
    <3>2. CASE pending' = <<>>
      <4>1. Occurrences(db \o <<>>, w) <= Occurrences(db \o pending, w)
        BY <1>1, OccurrencesEnd
      <4>2. QED BY <1>3, <2>2, <3>2, <4>1
    <3>3. QED BY <2>2, <3>1, <3>2
  <2>4. q # w BY <2>1
  <2>5. QED BY <1>2, <2>3, <2>4
<1>6. CASE q \in Writes
  <2>1. q \notin TxnControl /\ q \notin {"begin", "commit"} /\ q \notin {"commit", "rollback"}
    BY <1>6, MySQLAssumption DEF TxnControl
  <2>2. CASE in_txn
    <3>1. db' = db /\ pending' \in {<<>>, Append(pending, q)}
      BY <1>6, <2>1, <2>2 DEF Applied, Apply
    <3>2. CASE pending' = <<>>
      <4>1. Occurrences(db \o <<>>, w) <= Occurrences(db \o pending, w)
        BY <1>1, OccurrencesEnd
      <4>2. Times(w)' <= Times(w) BY <1>3, <3>1, <3>2, <4>1
      <4>3. Times(w)' \in Nat
        <5>1. Occurrences(db \o <<>>, w) \in Nat
          BY <1>1, ConcatEmptySeq, OccurrencesType
        <5>2. QED BY <1>3, <3>1, <3>2, <5>1
      <4>4. QED BY <1>2, <4>2, <4>3
    <3>3. CASE pending' = Append(pending, q)
      <4>1. Occurrences(db \o Append(pending, q), w)
              = Occurrences(db \o pending, w) + (IF q = w THEN 1 ELSE 0)
        BY <1>1, <1>6, OccurrencesEnd
      <4>2. Times(w)' = Times(w) + (IF q = w THEN 1 ELSE 0) BY <1>3, <3>1, <3>3, <4>1
      <4>3. QED BY <1>2, <4>2
    <3>4. QED BY <3>1, <3>2, <3>3
  <2>3. CASE ~in_txn
    <3>1. pending = <<>> BY <2>3 DEF LInv, SessionFits
    <3>2. db' = Append(db, q) /\ pending' = <<>>
      BY <1>6, <2>1, <2>3, <3>1 DEF Applied, Apply
    <3>3. Append(db, q) \in Seq(Writes) BY <1>1, <1>6, AppendProperties
    <3>4. Times(w)' = Occurrences(Append(db, q), w) BY <1>3, <3>2, <3>3, ConcatEmptySeq
    <3>5. Times(w) = Occurrences(db, w) BY <1>1, <1>3, <3>1, ConcatEmptySeq
    <3>6. Times(w)' = Times(w) + (IF q = w THEN 1 ELSE 0)
      BY <1>1, <1>6, <3>4, <3>5, OccurrencesAppend
    <3>7. QED BY <1>2, <3>6
  <2>4. QED BY <1>1, <2>2, <2>3
<1>7. QED BY <1>4, <1>5, <1>6 DEF Statements, TxnControl

LEMMA TimesSame ==
  ASSUME Types, UNCHANGED <<db, pending>> PROVE \A w \in Writes : Times(w)' <= Times(w)
<1>1. \A w : Times(w)' = Times(w) /\ Times(w) \in Nat BY TimesType DEF Times
<1>2. QED BY <1>1

(* A statement succeeds: the user's write, or one that writes nothing.     *)
LEMMA SucceedsCounts ==
  ASSUME LInv, LInv', CountFits, QuerySucceeds PROVE CountFits'
<1>1. /\ Sending /\ Apply(Statement) /\ db' = Applied(Statement) /\ stack' = Tail(stack)
      /\ UNCHANGED <<used, resent>>
  BY DEF QuerySucceeds, Apply, Return
<1>2. StackOk /\ Types /\ Types' /\ stack # <<>> /\ stack[1].fn = "Execute"
      /\ stack[1].at \in {"first", "retry"} /\ Statement = stack[1].q
  BY <1>1, TopOfStack DEF LInv, Sending, At, Statement
<1>3. StackOk' /\ SameCall /\ Onward BY <1>1, <1>2, PopOk, PopOnward
<1>4. CASE Len(stack) # 1
  <2>1. Statement \in SetUp BY <1>2, <1>4, TopOfStack
  <2>2. Statement \in Statements /\ Statement \notin Writes
    BY <2>1, MySQLAssumption DEF Statements
  <2>3. \A w \in Writes : Times(w)' <= Times(w) + (IF Statement = w THEN 1 ELSE 0)
    BY <1>1, <2>2, TimesApplied
  <2>4. \A w \in Writes : Times(w) \in Nat BY <1>2, TimesType
  <2>5. ASSUME NEW w \in Writes PROVE Times(w)' <= Times(w)
    <3>1. Times(w)' <= Times(w) + 0 BY <2>2, <2>3
    <3>2. QED BY <2>4, <3>1
  <2>6. QED BY <1>1, <1>2, <1>3, <2>5, CountKept DEF Onward
<1>5. CASE Len(stack) = 1
  <2>1. Statement = UserQ /\ UserQ \in Writes \cup TxnControl /\ UserAt = stack[1].at
    BY <1>2, <1>5, TopOfStack DEF StackOk, Nested, UserAt
  <2>2. Statement \in Statements BY <2>1 DEF Statements
  <2>3. stack' = <<>>
    <3>1. Len(stack') = 0 /\ stack' \in Seq(Frame) BY <1>1, <1>2, <1>5, TailFacts DEF StackOk
    <3>2. QED BY <3>1, EmptySeq
  <2>4. ASSUME NEW w \in Writes
        PROVE  /\ w \notin used' => Times(w)' = 0
               /\ Times(w)' <= IF w \in resent' THEN 2 ELSE 1
    <3>1. Times(w)' <= Times(w) + (IF Statement = w THEN 1 ELSE 0)
      BY <1>1, <2>2, TimesApplied
    <3>2. Times(w) \in Nat /\ Times(w)' \in Nat BY <1>2, TimesType
    <3>3. CASE Statement = w
      <4>1. w \in used BY <1>2, <2>1, <3>3 DEF LInv, CallFits
      <4>2. Times(w) <= IF w \in resent THEN 1 ELSE 0
        <5>1. /\ UserAt \in Unsent => Times(w) = 0
              /\ UserAt \notin Unsent => Times(w) <= IF w \in resent THEN 1 ELSE 0
          BY <1>2, <2>1, <3>3 DEF CountFits
        <5>2. QED BY <5>1
      <4>3. Times(w)' <= Times(w) + 1 BY <3>1, <3>3
      <4>4. QED BY <1>1, <3>2, <4>1, <4>2, <4>3
    <3>4. CASE Statement # w
      <4>1. Times(w)' <= Times(w) BY <3>1, <3>2, <3>4
      <4>2. /\ w \notin used => Times(w) = 0
            /\ Times(w) <= IF w \in resent THEN 2 ELSE 1
        BY DEF CountFits, RepeatedOnlyIfAnswerLost
      <4>3. QED BY <1>1, <3>2, <4>1, <4>2
    <3>5. QED BY <3>3, <3>4
  <2>5. QED BY <2>3, <2>4 DEF CountFits, RepeatedOnlyIfAnswerLost
<1>6. QED BY <1>4, <1>5

(* The answer to a statement is lost: the write is counted once more, and  *)
(* may now be repeated.                                                    *)
LEMMA LostCounts ==
  ASSUME LInv, LInv', CountFits, QueryLost PROVE CountFits'
<1>1. /\ Sending /\ db' = Applied(Statement) /\ pending' = <<>> /\ AfterLoss
      /\ resent' = resent \cup ({Statement} \cap Writes) /\ used' = used
  BY DEF QueryLost, SessionEnds
<1>2. StackOk /\ Types /\ Types' /\ stack # <<>> /\ stack[1].fn = "Execute"
      /\ stack[1].at \in {"first", "retry"} /\ Statement = stack[1].q
  BY <1>1, TopOfStack DEF LInv, Sending, At, Statement
<1>3. SameCall /\ Onward BY <1>1, <1>2, AfterLossOk, LossOnward DEF Types
<1>4. CASE Statement \notin Writes
  <2>1. Statement \in Statements
    BY <1>2, TopOfStack DEF StackOk, Nested, Statements
  <2>2. ASSUME NEW w \in Writes PROVE Times(w)' <= Times(w)
    <3>1. Times(w)' <= Times(w) + (IF Statement = w THEN 1 ELSE 0)
      BY <1>1, <2>1, TimesApplied
    <3>2. Times(w) \in Nat BY <1>2, TimesType
    <3>3. Times(w)' <= Times(w) + 0 BY <1>4, <3>1
    <3>4. QED BY <3>2, <3>3
  <2>3. resent \subseteq resent' BY <1>1
  <2>4. QED BY <1>1, <1>2, <1>3, <2>2, <2>3, CountKept DEF Onward
<1>5. CASE Statement \in Writes
  <2>1. Len(stack) = 1 /\ Statement \in Statements
    BY <1>2, <1>5, TopOfStack, MySQLAssumption DEF Statements
  <2>2. Statement = UserQ /\ UserAt = stack[1].at
    BY <1>2, <2>1, TopOfStack DEF UserAt
  <2>3. PICK u \in Writes : u = Statement BY <1>5
  <2>4. u \in used /\ u \in resent' BY <1>1, <1>2, <2>2, <2>3 DEF LInv, CallFits
  <2>5. /\ UserAt = "first" => Times(u) = 0
        /\ UserAt = "retry" => Times(u) <= IF u \in resent THEN 1 ELSE 0
    BY <1>2, <2>2, <2>3 DEF CountFits, Unsent
  <2>6. \A w : Times(w) \in Nat /\ Times(w)' \in Nat BY <1>2, TimesType
  <2>7. Times(u)' <= Times(u) + 1
    <3>1. Times(u)' <= Times(u) + (IF Statement = u THEN 1 ELSE 0)
      BY <1>1, <2>1, TimesApplied
    <3>2. QED BY <2>3, <3>1
  <2>8. ASSUME NEW w \in Writes
        PROVE  /\ w \notin used' => Times(w)' = 0
               /\ Times(w)' <= IF w \in resent' THEN 2 ELSE 1
    <3>1. CASE w = u
      <4>1. Times(w) \in Nat /\ Times(w)' \in Nat /\ Times(w)' <= Times(w) + 1 /\ Times(w) <= 1
        BY <1>2, <2>2, <2>5, <2>6, <2>7, <3>1
      <4>2. QED BY <1>1, <2>4, <3>1, <4>1
    <3>2. CASE w # u
      <4>1. Times(w)' <= Times(w) + (IF Statement = w THEN 1 ELSE 0)
        BY <1>1, <2>1, TimesApplied
      <4>2. Times(w)' <= Times(w) BY <2>3, <2>6, <3>2, <4>1
      <4>3. /\ w \notin used => Times(w) = 0
            /\ Times(w) <= IF w \in resent THEN 2 ELSE 1
        BY DEF CountFits, RepeatedOnlyIfAnswerLost
      <4>4. w \in resent <=> w \in resent' BY <1>1, <2>3, <3>2
      <4>5. QED BY <1>1, <2>6, <4>2, <4>3, <4>4
    <3>3. QED BY <3>1, <3>2
  <2>9. ASSUME stack' # <<>>, UserQ' \in Writes
        PROVE  /\ UserAt' \in Unsent => Times(UserQ)' = 0
               /\ UserAt' \notin Unsent => Times(UserQ)' <= IF UserQ' \in resent' THEN 1 ELSE 0
    <3>1. At("Execute", "first")
      <4>1. SUFFICES ASSUME ~At("Execute", "first") PROVE stack' = <<>> BY <2>9
      <4>2. stack' = Tail(stack) BY <1>1, <4>1 DEF AfterLoss, Return
      <4>3. Len(stack') = 0 /\ stack' \in Seq(Frame) BY <1>2, <2>1, <4>2, TailFacts DEF StackOk
      <4>4. QED BY <4>3, EmptySeq
    <3>2. UserAt' = "rebuilt"
      <4>1. Call(BuildConnection, "rebuilt") BY <1>1, <3>1 DEF AfterLoss
      <4>2. PICK g : g = BuildConnection OBVIOUS
      <4>3. g \in Frame /\ "rebuilt" \in Places /\ "rebuilt" \notin Unsent
        BY <4>2 DEF BuildConnection, Frame, Places, Unsent
      <4>4. QED BY <1>2, <2>1, <4>1, <4>2, <4>3, CallOnward
    <3>3. UserAt = "first" BY <1>2, <2>2, <3>1, TopOfStack DEF At
    <3>4. UserQ' = u BY <1>3, <2>2, <2>3, <2>9 DEF SameCall
    <3>5. Times(UserQ)' = Times(u)' BY <3>4 DEF Times
    <3>6. Times(u)' <= 1 BY <2>5, <2>6, <2>7, <3>3
    <3>7. QED BY <2>4, <3>2, <3>4, <3>5, <3>6 DEF Unsent
  <2>10. QED BY <2>8, <2>9 DEF CountFits, RepeatedOnlyIfAnswerLost
<1>6. QED BY <1>4, <1>5

LEMMA StepCounts == ASSUME LInv, LInv', CountFits, Step PROVE CountFits'
<1>1. StackOk /\ Types /\ Types' /\ ret \in BOOLEAN BY DEF LInv, Types
<1> USE DEF server, history
<1>2. ASSUME StackOk', SameCall, Onward, UNCHANGED <<db, pending, used, resent>> PROVE CountFits'
  <2>1. \A w \in Writes : Times(w)' <= Times(w) BY <1>1, <1>2, TimesSame
  <2>2. QED BY <1>1, <1>2, <2>1, CountKept DEF Onward
<1>3. ASSUME StackOk', SameCall, Onward, SessionEnds, UNCHANGED <<db, used, resent>>
      PROVE  CountFits'
  <2>1. \A w \in Writes : Times(w)' <= Times(w) BY <1>1, <1>3, TimesEnds
  <2>2. QED BY <1>1, <1>3, <2>1, CountKept DEF Onward
<1>4. CASE CheckConnection
  <2>1. stack # <<>> /\ Head(stack).at = "check"
        /\ (Goto("first") \/ Call(BuildConnection, "checked"))
        /\ UNCHANGED <<db, pending, used, resent>>
    BY <1>4 DEF CheckConnection, At
  <2>2. PICK g : g = BuildConnection OBVIOUS
  <2>3. g \in Frame /\ g.fn = "Build" /\ "checked" \in Places /\ "first" \in Places
    BY <2>2 DEF BuildConnection, Frame, Places
  <2>4. stack[1].at \in Unsent BY <1>1, <2>1, TopOfStack DEF Unsent
  <2>5. StackOk' /\ SameCall BY <1>1, <2>1, <2>2, <2>3, CallOk, GotoOk
  <2>6. Onward BY <1>1, <2>1, <2>2, <2>3, <2>4, CallOnward, GotoOnward
  <2>7. QED BY <1>2, <2>1, <2>5, <2>6
<1>5. CASE Checked \/ Rebuilt
  <2>1. /\ stack # <<>> /\ UNCHANGED <<db, pending, used, resent>>
        /\ \/ Goto("first") /\ Head(stack).at = "checked"
           \/ Goto("retry")
           \/ stack' = Tail(stack)
    BY <1>5 DEF Checked, Rebuilt, At, Return
  <2>2. "first" \in Places /\ "retry" \in Places /\ "retry" \notin Unsent BY DEF Places, Unsent
  <2>3. Head(stack).at = "checked" => stack[1].at \in Unsent
    BY <1>1, <2>1, TopOfStack DEF Unsent
  <2>4. StackOk' /\ SameCall BY <1>1, <2>1, <2>2, GotoOk, PopOk
  <2>5. Onward BY <1>1, <2>1, <2>2, <2>3, GotoOnward, PopOnward
  <2>6. QED BY <1>2, <2>1, <2>4, <2>5
<1>6. CASE QueryRefused
  <2>1. /\ stack # <<>> /\ stack' = Tail(stack) /\ UNCHANGED <<db, pending, used, resent>>
    BY <1>6 DEF QueryRefused, Sending, At, Return
  <2>2. QED BY <1>1, <1>2, <2>1, PopOk, PopOnward
<1>7. CASE QueryGone
  <2>1. Sending /\ AfterLoss /\ UNCHANGED <<db, pending, used, resent>> BY <1>7 DEF QueryGone
  <2>2. QED BY <1>1, <1>2, <2>1, AfterLossOk, LossOnward
<1>8. CASE LibraryReconnects
  <2>1. stack' = stack /\ stack # <<>> /\ UNCHANGED <<db, pending, used, resent>>
    BY <1>8 DEF LibraryReconnects, Sending, At
  <2>2. StackOk' /\ SameCall /\ Onward
    BY <1>1, <2>1 DEF StackOk, Nested, SameCall, UserQ, Onward, UserAt
  <2>3. QED BY <1>2, <2>1, <2>2
<1>9. CASE Connects
  <2>1. stack # <<>> /\ SessionEnds /\ Goto("names") /\ UNCHANGED <<db, used, resent>>
    BY <1>9 DEF Connects, At
  <2>2. "names" \in Places /\ "names" \notin Unsent BY DEF Places, Unsent
  <2>3. StackOk' /\ SameCall BY <1>1, <2>1, <2>2, GotoOk
  <2>4. Onward BY <1>1, <2>1, <2>2, GotoOnward
  <2>5. QED BY <1>3, <2>1, <2>3, <2>4
<1>10. CASE ConnectFails
  <2>1. stack # <<>> /\ SessionEnds /\ stack' = Tail(stack) /\ UNCHANGED <<db, used, resent>>
    BY <1>10 DEF ConnectFails, At, Return
  <2>2. QED BY <1>1, <1>3, <2>1, PopOk, PopOnward
<1>11. CASE SetNames \/ SetCharset
  <2>1. PICK q \in SetUp, place \in {"charset", "options"} : Call(Execute(q), place)
    BY <1>11 DEF SetNames, SetCharset, SetUp
  <2>2. stack # <<>> /\ UNCHANGED <<db, pending, used, resent>>
    BY <1>11 DEF SetNames, SetCharset, At
  <2>3. PICK g : g = Execute(q) OBVIOUS
  <2>4. g \in Frame /\ g.q \in SetUp /\ place \in Places /\ place \notin Unsent
    BY <2>1, <2>3 DEF Execute, Frame, Places, Statements, Unsent
  <2>5. StackOk' /\ SameCall BY <1>1, <2>1, <2>2, <2>3, <2>4, CallOk
  <2>6. Onward BY <1>1, <2>1, <2>2, <2>3, <2>4, CallOnward
  <2>7. QED BY <1>2, <2>2, <2>5, <2>6
<1>12. CASE SetOptions
  <2>1. /\ stack # <<>> /\ UNCHANGED <<db, pending, used, resent>>
        /\ stack' = stack \/ stack' = Tail(stack)
    BY <1>12 DEF SetOptions, At, Return
  <2>2. stack' = stack => StackOk' /\ SameCall /\ Onward
    BY <1>1, <2>1 DEF StackOk, Nested, SameCall, UserQ, Onward, UserAt
  <2>3. StackOk' /\ SameCall /\ Onward BY <1>1, <2>1, <2>2, PopOk, PopOnward
  <2>4. QED BY <1>2, <2>1, <2>3
<1>13. QED
  BY <1>4, <1>5, <1>6, <1>7, <1>8, <1>9, <1>10, <1>11, <1>12, SucceedsCounts DEF Step

LEMMA UserCallCounts ==
  ASSUME LInv, LInv', CountFits, NEW q \in Writes \cup TxnControl, UserCalls(q)
  PROVE  CountFits'
<1>1. /\ stack' = <<Execute(q)>> /\ used' = used \cup ({q} \cap Writes)
      /\ UNCHANGED <<db, pending, resent>> /\ (q \in Writes => q \notin used)
  BY DEF UserCalls, server
<1>2. PICK f : f = Execute(q) OBVIOUS
<1>3. f.q = q /\ f.at = "check" BY <1>2 DEF Execute
<1>4. Len(stack') = 1 /\ stack'[1] = f BY <1>1, <1>2
<1>5. UserQ' = q /\ UserAt' = "check" BY <1>3, <1>4 DEF UserQ, UserAt
<1>6. \A w : Times(w)' = Times(w) BY <1>1 DEF Times
<1>7. Times(UserQ)' = Times(q)' BY <1>5 DEF Times
<1>8. \A w \in Writes \ used : Times(w) = 0 BY DEF CountFits
<1>9. RepeatedOnlyIfAnswerLost' BY <1>1, <1>6 DEF CountFits, RepeatedOnlyIfAnswerLost
<1>10. \A w \in Writes \ used' : Times(w)' = 0 BY <1>1, <1>6, <1>8
<1>11. q \in Writes => Times(UserQ)' = 0 BY <1>1, <1>6, <1>7, <1>8
<1>12. QED BY <1>5, <1>9, <1>10, <1>11 DEF CountFits, Unsent

LEMMA NextCounts == LInv /\ CountFits /\ [Next]_vars => CountFits'
<1> SUFFICES ASSUME LInv, CountFits, [Next]_vars PROVE CountFits' OBVIOUS
<1>1. LInv' BY NextKeeps
<1>2. StackOk /\ Types /\ Types' BY <1>1 DEF LInv
<1>3. CASE Drop \/ UNCHANGED vars
  <2>1. stack' = stack /\ UNCHANGED <<db, used, resent>> /\ (SessionEnds \/ pending' = pending)
    BY <1>3 DEF Drop, vars, client, server, history
  <2>2. SameCall /\ Onward BY <2>1 DEF SameCall, UserQ, Onward, UserAt
  <2>3. \A w \in Writes : Times(w)' <= Times(w) BY <1>2, <2>1, TimesEnds, TimesSame
  <2>4. QED BY <1>2, <2>1, <2>2, <2>3, CountKept DEF Onward
<1>4. QED BY <1>1, <1>3, UserCallCounts, StepCounts, LostCounts DEF Next

(* However often SafeQuery finds its connection lost and however the       *)
(* reconnections nest, a write is on the server at most once if its        *)
(* answer was not lost, and never a third time.                            *)
THEOREM RepeatedAtMostOnce == Spec => []RepeatedOnlyIfAnswerLost
<1>1. Init => CountFits
  <2> SUFFICES ASSUME Init PROVE CountFits OBVIOUS
  <2>1. stack = <<>> /\ db = <<>> /\ pending = <<>> BY DEF Init
  <2>2. db \o pending = <<>> /\ Len(<<>>) = 0 BY <2>1
  <2>3. \A w : Times(w) = 0
    <3> TAKE w
    <3>1. {k \in 1 .. Len(<<>>) : <<>>[k] = w} = {} BY <2>2
    <3>2. QED BY <2>2, <3>1, FS_EmptySet DEF Times, Occurrences
  <2>4. QED BY <2>1, <2>3 DEF CountFits, RepeatedOnlyIfAnswerLost
<1>2. CountFits => RepeatedOnlyIfAnswerLost BY DEF CountFits
<1>3. QED BY <1>1, <1>2, InitLInv, NextKeeps, NextCounts, PTL DEF Spec

-----------------------------------------------------------------------------
(* The rest of TypeOK.                                                     *)
Counters ==
  /\ reconnect \in BOOLEAN /\ status \in BOOLEAN
  /\ faults \in 0 .. MaxFaults /\ begun \in 0 .. MaxTxn
  /\ resent \subseteq Writes

LEMMA NextCounters == LInv /\ Counters /\ [Next]_vars => Counters'
<1> SUFFICES ASSUME LInv, Counters, [Next]_vars PROVE Counters' OBVIOUS
<1>1. in_txn \in BOOLEAN /\ Types' BY NextKeeps DEF LInv, Types
<1> USE DEF server, history, Counters
<1>2. CASE UNCHANGED vars BY <1>2 DEF vars, client
<1>3. ASSUME NEW q \in Writes \cup TxnControl, UserCalls(q) PROVE Counters'
  BY <1>3, MySQLAssumption DEF UserCalls
<1>4. CASE Step
  <2>1. UNCHANGED <<faults, begun, resent>>
    BY <1>4 DEF Step, CheckConnection, Checked, QuerySucceeds, QueryRefused, QueryGone,
         LibraryReconnects, Rebuilt, Connects, ConnectFails, SetNames, SetCharset, SetOptions
  <2>2. reconnect' \in BOOLEAN
    BY <1>4 DEF Step, CheckConnection, Checked, QuerySucceeds, QueryRefused, QueryGone,
         LibraryReconnects, Rebuilt, Connects, ConnectFails, SetNames, SetCharset, SetOptions
  <2>3. status' \in {status, FALSE, in_txn'}
    BY <1>4 DEF Step, CheckConnection, Checked, QuerySucceeds, QueryRefused, QueryGone,
         LibraryReconnects, Rebuilt, Connects, ConnectFails, SetNames, SetCharset, SetOptions
  <2>4. status' \in BOOLEAN BY <1>1, <2>3 DEF Types
  <2>5. QED BY <2>1, <2>2, <2>4
<1>5. CASE QueryLost \/ Drop BY <1>5, MySQLAssumption DEF QueryLost, Drop
<1>6. QED BY <1>2, <1>3, <1>4, <1>5 DEF Next

(* Every variable of the driver and the server keeps its range: every      *)
(* frame on the stack is a call of the driver, and only writes that users  *)
(* made are stored, pending, told or repeated.                             *)
THEOREM DriverTypes == Spec => []TypeOK
<1>1. Init => Counters
  <2>1. 0 \in 0 .. MaxFaults /\ 0 \in 0 .. MaxTxn BY MySQLAssumption
  <2>2. QED BY <2>1 DEF Init, Counters
<1>2. LInv /\ Counters => TypeOK
  <2> SUFFICES ASSUME LInv, Counters PROVE TypeOK OBVIOUS
  <2>1. \A k \in DOMAIN stack : stack[k] \in Frame
    BY LenProperties, ElementOfSeq DEF LInv, StackOk
  <2>2. \A k \in DOMAIN stack : /\ stack[k].fn \in {"Execute", "Build"}
                               /\ stack[k].q \in Statements \cup {"none"}
                               /\ stack[k].at \in Places
    BY <2>1 DEF Frame
  <2>3. {reconnect, status, ret, crashed, in_txn, believes, broken, unsettled} \subseteq BOOLEAN
    BY DEF LInv, Types, Counters
  <2>4. {used, mine, durable, undone, resent} \subseteq SUBSET Writes
    BY DEF LInv, Types, Ledger, Counters
  <2>5. QED BY <2>2, <2>3, <2>4 DEF LInv, Types, Counters, TypeOK
<1>3. QED BY <1>1, <1>2, InitLInv, NextKeeps, NextCounters, PTL DEF Spec
=============================================================================
