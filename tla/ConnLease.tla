------------------------------ MODULE ConnLease ------------------------------
(***************************************************************************)
(* What the database connection pool promises its clients, with nothing    *)
(* said about slots, states or pointers: a client holds at most one        *)
(* connection, and a connection is held by at most one client, from the    *)
(* step that hands it out to the step in which that same client returns it.*)
(***************************************************************************)

CONSTANTS
  Client,   (* whoever asks for connections                                 *)
  Conn,     (* the connections that may exist                               *)
  NoConn    (* "no connection"                                              *)

VARIABLE lease   (* lease[c]: the connection client c holds, or NoConn      *)

Init == lease = [c \in Client |-> NoConn]

(* A client without a connection is handed one that nobody holds.          *)
Acquire(c, k) ==
  /\ lease[c] = NoConn
  /\ \A d \in Client : lease[d] # k
  /\ lease' = [lease EXCEPT ![c] = k]

(* A client returns the connection it holds.                               *)
Return(c) ==
  /\ lease[c] # NoConn
  /\ lease' = [lease EXCEPT ![c] = NoConn]

Next ==
  \E c \in Client : Return(c) \/ \E k \in Conn : Acquire(c, k)

Spec == Init /\ [][Next]_lease
=============================================================================
