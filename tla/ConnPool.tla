------------------------------- MODULE ConnPool -------------------------------
(***************************************************************************)
(* db/conn_pool_manager.{h,cc}: CdbConnPoolManager, a pool of at most      *)
(* max_conn_count database connections shared by threads, and              *)
(* ScopedPtr_DatabaseConnection, the handle a thread borrows one with.     *)
(*                                                                         *)
(* GetFreeConnection and SetFreeConnection run under mutex_ from their     *)
(* first read of the pool to their return, so each is one action.          *)
(* Initialize and Shutdown take no lock: the program calls the first       *)
(* before any handle exists and the second (also the destructor) after     *)
(* every connection came back, as the comment on Shutdown requires.        *)
(* conn_pool_[i].conn is identified with the slot number i.                *)
(*                                                                         *)
(* The definitions named Faulty... are plausible mistakes in the code;     *)
(* each stands before the definition it would replace.                     *)
(***************************************************************************)
EXTENDS Integers, FiniteSets

CONSTANTS
  Handle,     (* the ScopedPtr_DatabaseConnection objects of all threads    *)
  MaxConn,    (* db_addr_.max_conn_count                                    *)
  MinConn,    (* db_addr_.min_conn_count                                    *)
  NULL

ASSUME ConnPoolAssumption ==
  /\ MaxConn \in Nat
  /\ MinConn \in Nat
  /\ NULL \notin Int

Slot == 0 .. MaxConn - 1

DBConnState == {"Null", "Created", "Idle", "Busy"}

VARIABLES
  conn_pool,       (* state of each slot; a vector that is empty ("Null" in *)
                   (* every slot) before Initialize and after Shutdown      *)
  conned_pointer,  (* conned_pointer_                                       *)
  opened,          (* opened[i]: conn_pool_[i].conn is connected (Open)     *)
  db_conn,         (* db_conn[h]: the handle's db_conn_                     *)
  stage            (* "raw", "ready" after Initialize, "down" afterwards    *)

poolVars == <<conn_pool, conned_pointer, opened, db_conn, stage>>

PoolInit ==
  /\ conn_pool = [i \in Slot |-> "Null"]
  /\ conned_pointer = 0
  /\ opened = {}
  /\ db_conn = [h \in Handle |-> NULL]
  /\ stage = "raw"

(***************************************************************************)
(* Initialize: every slot gets a database object; the first MinConn are    *)
(* opened, and counted by conned_pointer_ whether Open worked or not.      *)
(* "ok" is the set of slots the server accepts.                            *)
(***************************************************************************)
Eager == {i \in Slot : i < MinConn}

InitialCount == Cardinality(Eager)

Initialize(ok) ==
  /\ stage = "raw"
  /\ stage' = "ready"
  /\ opened' = ok
  /\ conn_pool' = [i \in Slot |-> IF i \in ok THEN "Idle" ELSE "Created"]
  /\ conned_pointer' = conned_pointer + InitialCount
  /\ UNCHANGED db_conn

(***************************************************************************)
(* GetFreeConnection: the first idle slot below conned_pointer_, or else   *)
(* the slot at conned_pointer_ if its Open works, or else NULL.            *)
(***************************************************************************)
FaultyIdleInclBusy == {i \in Slot : i < conned_pointer /\ conn_pool[i] # "Created"}

IdleSlots == {i \in Slot : i < conned_pointer /\ conn_pool[i] = "Idle"}

FirstIdle(i) == i \in IdleSlots /\ \A j \in IdleSlots : i <= j

CanGrow == conned_pointer < MaxConn /\ conn_pool[conned_pointer] = "Created"

GetIdle(h, i) ==
  /\ FirstIdle(i)
  /\ conn_pool' = [conn_pool EXCEPT ![i] = "Busy"]
  /\ db_conn' = [db_conn EXCEPT ![h] = i]
  /\ UNCHANGED <<conned_pointer, opened>>

GetNew(h) ==
  /\ IdleSlots = {}
  /\ CanGrow
  /\ conn_pool' = [conn_pool EXCEPT ![conned_pointer] = "Busy"]
  /\ opened' = opened \cup {conned_pointer}
  /\ db_conn' = [db_conn EXCEPT ![h] = conned_pointer]
  /\ conned_pointer' = conned_pointer + 1

(* Nothing idle, and no room to grow or Open failed: the handle stays NULL. *)
GetNothing ==
  /\ IdleSlots = {}
  /\ UNCHANGED <<conn_pool, conned_pointer, opened, db_conn>>

GetFreeConnection(h) ==
  \/ \E i \in Slot : GetIdle(h, i)
  \/ GetNew(h)
  \/ GetNothing

(***************************************************************************)
(* SetFreeConnection: the slot of the returned connection, searched below  *)
(* conned_pointer_, becomes idle whatever its state was.                   *)
(***************************************************************************)
FaultySetFreeLosesSlot(k) == UNCHANGED conn_pool

SetFreeConnection(k) ==
  conn_pool' =
    [i \in Slot |-> IF i = k /\ i < conned_pointer THEN "Idle"
                    ELSE conn_pool[i]]

(***************************************************************************)
(* ScopedPtr_DatabaseConnection.  The constructor and every operator*,     *)
(* operator-> and get() that finds db_conn_ NULL ask the pool; release(),  *)
(* also the destructor, gives the connection back and then forgets it,     *)
(* which is one step here: only the handle's own thread reads db_conn_.    *)
(***************************************************************************)
Get(h) ==
  /\ stage = "ready"
  /\ db_conn[h] = NULL
  /\ GetFreeConnection(h)
  /\ UNCHANGED stage

Release(h) ==
  /\ db_conn[h] # NULL
  /\ SetFreeConnection(db_conn[h])
  /\ db_conn' = [db_conn EXCEPT ![h] = NULL]
  /\ UNCHANGED <<conned_pointer, opened, stage>>

(***************************************************************************)
(* Shutdown: all database objects are destroyed and the vector emptied.    *)
(* conned_pointer_ keeps its value.                                        *)
(***************************************************************************)
Shutdown ==
  /\ stage = "ready"
  /\ \A h \in Handle : db_conn[h] = NULL
  /\ stage' = "down"
  /\ conn_pool' = [i \in Slot |-> "Null"]
  /\ opened' = {}
  /\ UNCHANGED <<conned_pointer, db_conn>>

PoolNext ==
  \/ \E ok \in SUBSET Eager : Initialize(ok)
  \/ \E h \in Handle : Get(h)
  \/ \E h \in Handle : Release(h)
  \/ Shutdown

PoolSpec == PoolInit /\ [][PoolNext]_poolVars

-----------------------------------------------------------------------------
(* Every variable stays in its range; in particular conned_pointer_ never  *)
(* passes the end of the vector the loops of Get/SetFreeConnection index.  *)
PoolTypeOK ==
  /\ conn_pool \in [Slot -> DBConnState]
  /\ conned_pointer \in 0 .. MaxConn
  /\ opened \in SUBSET Slot
  /\ db_conn \in [Handle -> Slot \cup {NULL}]
  /\ stage \in {"raw", "ready", "down"}

(* Two handles, in whatever threads, never share a connection.             *)
ExclusiveLease ==
  \A g, h \in Handle : g # h /\ db_conn[g] # NULL => db_conn[g] # db_conn[h]

(* A slot is Busy exactly while some handle holds it: no connection is     *)
(* lost to the pool, and none is Idle, and so handed out, while in use.    *)
BusyIffHeld ==
  \A i \in Slot :
    conn_pool[i] = "Busy" <=> \E h \in Handle : db_conn[h] = i

(* Only connected slots are handed out or offered, and the slots from      *)
(* conned_pointer_ on are all untouched: the pool grows without gaps.      *)
ConnectedIffUsable ==
  /\ \A i \in Slot : conn_pool[i] \in {"Idle", "Busy"} <=> i \in opened
  /\ \A i \in opened : i < conned_pointer

(* The states in conn_pool_ tell the truth: of who holds a connection, and *)
(* of which connections were opened, whichever Open failed before.         *)
StatesTellTruth == BusyIffHeld /\ ConnectedIffUsable

(* The pool implements exclusive leasing.                                  *)
Lease == INSTANCE ConnLease
           WITH Client <- Handle, Conn <- Slot, NoConn <- NULL, lease <- db_conn

ImplementsLease == Lease!Spec
=============================================================================
