------------------------------- MODULE MCDatabase -------------------------------
(***************************************************************************)
(* db/ for TLC: the pool, and the driver behind one of its connections.    *)
(* The pool passes the driver's object on as a pointer and they share no   *)
(* state, so a behaviour of both is any interleaving of one of each, and   *)
(* every property is about one of them.  TLC is given the behaviours in    *)
(* which only one of the two moves.                                        *)
(***************************************************************************)
EXTENDS ConnPool, MySQLDatabase

PoolMoves == PoolNext /\ Init /\ UNCHANGED vars

DriverMoves(step) == step /\ PoolInit /\ UNCHANGED poolVars

DatabaseInit == PoolInit /\ Init

DatabaseSpec ==
  /\ DatabaseInit
  /\ [][PoolMoves \/ DriverMoves(Next)]_<<poolVars, vars>>
  /\ WF_vars(DriverMoves(Step))
=============================================================================
