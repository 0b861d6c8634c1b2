---------------------------- MODULE TCPClientProofs ----------------------------
(***************************************************************************)
(* Proofs about TCPClient for any number of descriptors, calls and failing *)
(* connects, whether or not the delegate refuses connections, and for an   *)
(* application that calls only while nothing it asked for is under way     *)
(* (Careful).  Without that the properties fail: Connect and DisConnect    *)
(* check a state that only the posted tasks change.                        *)
(***************************************************************************)
EXTENDS TCPClient, FiniteSetTheorems, TLAPS

(* A queued task, a timer, an attempt in progress and a connection exclude *)
(* each other, and there is at most one of each.                           *)
OneThing ==
  /\ tasks # <<>> => Len(tasks) = 1 /\ delayed = 0 /\ connect_state = "Invalid"
  /\ delayed # 0 => delayed = 1 /\ connect_state = "Invalid"

(* In state Invalid the client has no socket left.                         *)
InvalidIsClean == connect_state = "Invalid" => connector = NULL

(* When the delegate was told of the close, nothing is left to happen.     *)
QuietIsOver == quiet => Settled /\ handlers = {} /\ connector = NULL

(* The inductive invariant.                                                *)
IInv ==
  /\ TypeOK
  /\ OneThing
  /\ InvalidIsClean
  /\ QuietIsOver
  /\ StateMatchesSocket
  /\ NoStraySocket
  /\ NothingFindsDeleted

(* Connect and DisConnect are called when nothing is queued, so theirs is  *)
(* the only task afterwards.                                               *)
LEMMA ConnectStep == ASSUME Careful, IInv, Connect PROVE IInv'
<1> USE TCPClientAssumption DEF IInv, Connect, AppCall, Settled, Post
<1>1. TypeOK'
  <2> USE DEF TypeOK
  <2>1. CASE connect_state = "Invalid"
    <3>1. tasks' = Append(tasks, "ReConnect") /\ quiet' = FALSE BY <2>1
    <3>2. tasks' \in Seq({"ReConnect", "DoClose"})
      <4> HIDE DEF Connect
      <4>1. QED BY <3>1
    <3>3. {quiet, alive}' \subseteq BOOLEAN BY <3>1, Zenon
    <3>4. calls' \in 0 .. MaxCalls OBVIOUS
    <3>5. QED BY <3>2, <3>3, <3>4
  <2>2. CASE connect_state # "Invalid"
    <3>1. UNCHANGED <<tasks, quiet, alive>> BY <2>2
    <3>2. {quiet, alive}' \subseteq BOOLEAN BY <3>1, Zenon
    <3>3. calls' \in 0 .. MaxCalls OBVIOUS
    <3>4. QED BY <3>1, <3>2, <3>3
  <2>3. QED BY <2>1, <2>2
<1>2. OneThing' BY DEF OneThing
<1>3. InvalidIsClean' BY DEF InvalidIsClean
<1>4. QuietIsOver' BY DEF QuietIsOver
<1>5. StateMatchesSocket'
  BY DEF StateMatchesSocket, ConnectedMeansOpen, PendingIsWatched
<1>6. NoStraySocket' BY DEF NoStraySocket
<1>7. NothingFindsDeleted' BY DEF NothingFindsDeleted
<1>8. QED BY <1>1, <1>2, <1>3, <1>4, <1>5, <1>6, <1>7

LEMMA DisConnectStep == ASSUME Careful, IInv, DisConnect PROVE IInv'
<1> USE TCPClientAssumption DEF IInv, DisConnect, AppCall, Settled, Post
<1>1. TypeOK'
  <2> USE DEF TypeOK
  <2>1. CASE connect_state = "Invalid"
    <3>1. tasks' = Append(tasks, "DoClose") /\ quiet' = FALSE BY <2>1
    <3>2. tasks' \in Seq({"ReConnect", "DoClose"})
      <4> HIDE DEF DisConnect
      <4>1. QED BY <3>1
    <3>3. {quiet, alive}' \subseteq BOOLEAN BY <3>1, Zenon
    <3>4. calls' \in 0 .. MaxCalls OBVIOUS
    <3>5. QED BY <3>2, <3>3, <3>4
  <2>2. CASE connect_state # "Invalid"
    <3>1. UNCHANGED <<tasks, quiet, alive>> BY <2>2
    <3>2. {quiet, alive}' \subseteq BOOLEAN BY <3>1, Zenon
    <3>3. calls' \in 0 .. MaxCalls OBVIOUS
    <3>4. QED BY <3>1, <3>2, <3>3
  <2>3. QED BY <2>1, <2>2
<1>2. OneThing' BY DEF OneThing
<1>3. InvalidIsClean' BY DEF InvalidIsClean
<1>4. QuietIsOver' BY DEF QuietIsOver
<1>5. StateMatchesSocket'
  BY DEF StateMatchesSocket, ConnectedMeansOpen, PendingIsWatched
<1>6. NoStraySocket' BY DEF NoStraySocket
<1>7. NothingFindsDeleted' BY DEF NothingFindsDeleted
<1>8. QED BY <1>1, <1>2, <1>3, <1>4, <1>5, <1>6, <1>7

(* The queue had this task alone; whatever ReConnect finds, what it leaves *)
(* under way is one thing: a timer, an attempt, or a connection.           *)
LEMMA RunReConnectStep == ASSUME Careful, IInv, RunReConnect PROVE IInv'
<1> USE TCPClientAssumption DEF IInv, RunReConnect, ReConnect, Reaches, ReConnectFails,
        ReConnectAtOnce, ReConnectPending, OnConnecting, OnNewConnection, Accepted, Refused
<1>1. TypeOK'
  <2>1. tasks' \in Seq({"ReConnect", "DoClose"}) BY DEF TypeOK
  <2>2. calls' \in 0 .. MaxCalls /\ fails' \in 0 .. MaxFails BY DEF TypeOK
  <2>3. CASE ReConnectFails
    <3>1. {quiet, alive}' \subseteq BOOLEAN BY <2>3, Zenon DEF TypeOK
    <3>2. QED BY <2>1, <2>2, <2>3, <3>1 DEF TypeOK
  <2>4. ASSUME NEW s \in Fd, ReConnectAtOnce(s) PROVE TypeOK'
    <3>1. {quiet, alive}' \subseteq BOOLEAN BY <2>4, Zenon DEF TypeOK
    <3>2. QED BY <2>1, <2>2, <2>4, <3>1 DEF TypeOK
  <2>5. ASSUME NEW s \in Fd, ReConnectPending(s) PROVE TypeOK'
    <3>1. {quiet, alive}' \subseteq BOOLEAN BY <2>5, Zenon DEF TypeOK
    <3>2. QED BY <2>1, <2>2, <2>5, <3>1 DEF TypeOK
  <2>6. QED BY <2>3, <2>4, <2>5
<1>2. OneThing' BY DEF TypeOK, OneThing
<1>3. InvalidIsClean' BY DEF InvalidIsClean
<1>4. QuietIsOver'
  <2>1. tasks' = <<>> /\ delayed = 0 BY DEF TypeOK, OneThing
  <2>2. ~quiet BY DEF QuietIsOver, Settled
  <2>3. connect_state = "Invalid" BY DEF OneThing
  <2>4. handlers = {} BY <2>3 DEF StateMatchesSocket, ConnectedMeansOpen
  <2>5. CASE ReConnectFails BY <2>2, <2>5 DEF QuietIsOver
  <2>6. ASSUME NEW s \in Fd, ReConnectAtOnce(s) PROVE QuietIsOver'
    <3>1. CASE Accepted(s) BY <2>2, <2>6, <3>1 DEF QuietIsOver
    <3>2. CASE Refused(s) BY <2>1, <2>4, <2>6, <3>2 DEF QuietIsOver, Settled
    <3>3. QED BY <2>6, <3>1, <3>2
  <2>7. ASSUME NEW s \in Fd, ReConnectPending(s) PROVE QuietIsOver'
    BY <2>2, <2>7 DEF QuietIsOver
  <2>8. QED BY <2>5, <2>6, <2>7
<1>5. StateMatchesSocket'
  BY DEF TypeOK, OneThing, StateMatchesSocket, ConnectedMeansOpen, PendingIsWatched
<1>6. NoStraySocket' BY DEF TypeOK, OneThing, NoStraySocket, InvalidIsClean
<1>7. NothingFindsDeleted' BY DEF NothingFindsDeleted
<1>8. QED BY <1>1, <1>2, <1>3, <1>4, <1>5, <1>6, <1>7

LEMMA TimerDueStep == ASSUME Careful, IInv, TimerDue PROVE IInv'
<1> USE TCPClientAssumption DEF IInv, TimerDue, Post
<1>1. TypeOK' BY DEF TypeOK
<1>2. OneThing' BY DEF OneThing
<1>3. InvalidIsClean' BY DEF InvalidIsClean
<1>4. QuietIsOver' BY DEF QuietIsOver, Settled
<1>5. StateMatchesSocket'
  BY DEF StateMatchesSocket, ConnectedMeansOpen, PendingIsWatched
<1>6. NoStraySocket' BY DEF NoStraySocket
<1>7. NothingFindsDeleted' BY DEF NothingFindsDeleted
<1>8. QED BY <1>1, <1>2, <1>3, <1>4, <1>5, <1>6, <1>7

LEMMA RunDoCloseStep == ASSUME Careful, IInv, RunDoClose PROVE IInv'
<1> USE TCPClientAssumption DEF IInv, RunDoClose, DoCloseFromMe
<1>1. TypeOK' BY DEF TypeOK
<1>2. OneThing' BY DEF TypeOK, OneThing
<1>3. InvalidIsClean' BY DEF InvalidIsClean
<1>4. QuietIsOver' BY DEF QuietIsOver, Settled
<1>5. StateMatchesSocket'
  BY DEF OneThing, StateMatchesSocket, ConnectedMeansOpen, PendingIsWatched
<1>6. NoStraySocket' BY DEF OneThing, NoStraySocket, InvalidIsClean
<1>7. NothingFindsDeleted' BY DEF NothingFindsDeleted
<1>8. QED BY <1>1, <1>2, <1>3, <1>4, <1>5, <1>6, <1>7

LEMMA ConnectOkStep == ASSUME Careful, IInv, ConnectOk PROVE IInv'
<1> USE TCPClientAssumption DEF IInv, ConnectOk, OnNewConnection, Accepted, Refused
<1>1. TypeOK' BY DEF TypeOK
<1>2. OneThing' BY DEF OneThing
<1>3. InvalidIsClean' BY DEF InvalidIsClean
<1>4. QuietIsOver'
  BY DEF OneThing, QuietIsOver, Settled, StateMatchesSocket, ConnectedMeansOpen
<1>5. StateMatchesSocket'
  BY DEF TypeOK, StateMatchesSocket, ConnectedMeansOpen, PendingIsWatched
<1>6. NoStraySocket' BY DEF TypeOK, NoStraySocket
<1>7. NothingFindsDeleted' BY DEF NothingFindsDeleted
<1>8. QED BY <1>1, <1>2, <1>3, <1>4, <1>5, <1>6, <1>7

LEMMA ConnectErrorStep == ASSUME Careful, IInv, ConnectError PROVE IInv'
<1> USE TCPClientAssumption DEF IInv, ConnectError
<1>1. TypeOK' BY DEF TypeOK
<1>2. OneThing' BY DEF OneThing
<1>3. InvalidIsClean' BY DEF InvalidIsClean
<1>4. QuietIsOver' BY DEF QuietIsOver, Settled
<1>5. StateMatchesSocket'
  BY DEF StateMatchesSocket, ConnectedMeansOpen, PendingIsWatched
<1>6. NoStraySocket' BY DEF TypeOK, NoStraySocket
<1>7. NothingFindsDeleted' BY DEF NothingFindsDeleted
<1>8. QED BY <1>1, <1>2, <1>3, <1>4, <1>5, <1>6, <1>7

LEMMA PeerClosesStep == ASSUME Careful, IInv, NEW s \in Fd, PeerCloses(s) PROVE IInv'
<1> USE TCPClientAssumption DEF IInv, PeerCloses
<1>1. TypeOK' BY DEF TypeOK
<1>2. OneThing' BY DEF OneThing
<1>3. InvalidIsClean' BY DEF InvalidIsClean
<1>4. QuietIsOver'
  BY DEF OneThing, QuietIsOver, Settled, StateMatchesSocket, ConnectedMeansOpen
<1>5. StateMatchesSocket'
  BY DEF StateMatchesSocket, ConnectedMeansOpen, PendingIsWatched
<1>6. NoStraySocket'
  BY DEF TypeOK, NoStraySocket, StateMatchesSocket, ConnectedMeansOpen
<1>7. NothingFindsDeleted' BY DEF NothingFindsDeleted
<1>8. QED BY <1>1, <1>2, <1>3, <1>4, <1>5, <1>6, <1>7

(* The client is deleted when the delegate was told of the close: by       *)
(* QuietIsOver nothing that could find it is left.                         *)
LEMMA DeleteStep == ASSUME Careful, IInv, Delete PROVE IInv'
<1> USE TCPClientAssumption DEF IInv, Delete, DoCloseFromMe
<1>1. TypeOK' BY DEF TypeOK
<1>2. OneThing' BY DEF OneThing
<1>3. InvalidIsClean' BY DEF InvalidIsClean
<1>4. QuietIsOver' BY DEF QuietIsOver, Settled
<1>5. StateMatchesSocket'
  BY DEF StateMatchesSocket, ConnectedMeansOpen, PendingIsWatched, QuietIsOver
<1>6. NoStraySocket' BY DEF NoStraySocket, QuietIsOver
<1>7. NothingFindsDeleted' BY DEF NothingFindsDeleted, QuietIsOver, Settled
<1>8. QED BY <1>1, <1>2, <1>3, <1>4, <1>5, <1>6, <1>7


LEMMA InitIInv == Init => IInv
<1> SUFFICES ASSUME Init PROVE IInv OBVIOUS
<1>1. {quiet, alive} \subseteq BOOLEAN BY Zenon DEF Init
<1>2. TypeOK BY <1>1, TCPClientAssumption DEF Init, TypeOK
<1>3. StateMatchesSocket
  BY DEF Init, StateMatchesSocket, ConnectedMeansOpen, PendingIsWatched
<1>4. NoStraySocket BY DEF Init, NoStraySocket
<1>5. OneThing /\ InvalidIsClean /\ QuietIsOver /\ NothingFindsDeleted
  BY DEF Init, OneThing, InvalidIsClean, QuietIsOver, Settled, NothingFindsDeleted
<1>6. QED BY <1>2, <1>3, <1>4, <1>5 DEF IInv

LEMMA NextStep == ASSUME Careful, IInv, [Next]_vars PROVE IInv'
<1>1. CASE Next
  BY <1>1, ConnectStep, DisConnectStep, RunReConnectStep, TimerDueStep, RunDoCloseStep,
     ConnectOkStep, ConnectErrorStep, PeerClosesStep, DeleteStep DEF Next
<1>2. CASE UNCHANGED vars
  BY <1>2 DEF vars, IInv, TypeOK, OneThing, InvalidIsClean, QuietIsOver, Settled,
     StateMatchesSocket, ConnectedMeansOpen, PendingIsWatched, NoStraySocket,
     NothingFindsDeleted
<1>3. QED BY <1>1, <1>2

(* The inductive invariant holds in every state of every behaviour.        *)
LEMMA Invariant == ASSUME Careful PROVE Spec => []IInv
<1>1. Init => IInv BY InitIInv
<1>2. IInv /\ [Next]_vars => IInv' BY NextStep
<1>3. QED BY <1>1, <1>2, PTL DEF Spec

(* With one thing at a time under way, the attempts add up to one at most. *)
LEMMA OneThingOneAttempt == ASSUME IInv PROVE OneAttempt
<1> DEFINE R == {i \in DOMAIN tasks : tasks[i] = "ReConnect"}
           C == Cardinality(R)
<1>1. tasks \in Seq({"ReConnect", "DoClose"}) /\ delayed \in Nat BY DEF IInv, TypeOK
<1>2. CASE tasks = <<>>
  <2>1. R = {} BY <1>2
  <2>2. C = 0 BY <2>1, FS_EmptySet
  <2>3. delayed <= 1 /\ (delayed # 0 => connect_state = "Invalid")
    BY <1>1 DEF IInv, OneThing
  <2> HIDE DEF C
  <2>4. C + delayed + (IF connect_state = "Invalid" THEN 0 ELSE 1) <= 1
    BY <1>1, <2>2, <2>3
  <2>5. QED BY <2>4 DEF OneAttempt, Attempts, C
<1>3. CASE tasks # <<>>
  <2>1. Len(tasks) = 1 /\ delayed = 0 /\ connect_state = "Invalid"
    BY <1>3 DEF IInv, OneThing
  <2>2. R \subseteq {1} BY <1>1, <2>1
  <2>3. IsFiniteSet({1}) /\ Cardinality({1}) = 1 BY FS_Singleton
  <2>4. C <= 1 /\ C \in Nat BY <2>2, <2>3, FS_Subset, FS_CardinalityType
  <2> HIDE DEF C
  <2>5. C + delayed + (IF connect_state = "Invalid" THEN 0 ELSE 1) <= 1
    BY <2>1, <2>4
  <2>6. QED BY <2>5 DEF OneAttempt, Attempts, C
<1>4. QED BY <1>2, <1>3

(* A client whose application waits for what it asked for never has two    *)
(* attempts under way: Connect, the retry ReConnect posts when it fails    *)
(* and the one OnConnected posts never meet.                               *)
THEOREM OneAttemptAtATime == ASSUME Careful PROVE Spec => []OneAttempt
<1>1. IInv => OneAttempt BY OneThingOneAttempt
<1>2. QED BY <1>1, Invariant, PTL

(* connect_state_ is at every moment what the socket, the watcher and the  *)
(* IOHandler really are, whatever fails and whoever closes.                *)
THEOREM StateIsTrue == ASSUME Careful PROVE Spec => []StateMatchesSocket
<1>1. IInv => StateMatchesSocket BY DEF IInv
<1>2. QED BY <1>1, Invariant, PTL

(* Failed connects, refused connections and retries lose no socket that is *)
(* open or being connected.                                                *)
THEOREM NoSocketIsLost == ASSUME Careful PROVE Spec => []NoStraySocket
<1>1. IInv => NoStraySocket BY DEF IInv
<1>2. QED BY <1>1, Invariant, PTL

(* A client deleted after its delegate was told of the close is reached by *)
(* no task, timer, watcher or IOHandler, each of which has a plain pointer *)
(* to it.                                                                  *)
THEOREM DeletedIsUnreachable == ASSUME Careful PROVE Spec => []NothingFindsDeleted
<1>1. IInv => NothingFindsDeleted BY DEF IInv
<1>2. QED BY <1>1, Invariant, PTL
=============================================================================
