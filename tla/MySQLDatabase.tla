--------------------------- MODULE MySQLDatabase ---------------------------
(***************************************************************************)
(* db/mysql/mysql_database.{h,cc}: MySQLDatabase, the connection a handle  *)
(* of ConnPool lends to one user at a time.  Execute (Query and            *)
(* ExecuteInsertID differ in what they fetch only) checks the connection,  *)
(* sends the statement and, when the connection turns out to be lost,      *)
(* builds another and sends it once more.  BuildConnection itself calls    *)
(* Execute to set the character set, so the functions call each other      *)
(* recursively; the call stack is a variable and the server may fail       *)
(* between any two steps of it.                                            *)
(*                                                                         *)
(* External: the client library, which with MYSQL_OPT_RECONNECT replaces a *)
(* lost connection by itself outside a transaction, and the server, which  *)
(* rolls a transaction back when its connection ends.                      *)
(***************************************************************************)
EXTENDS Naturals, SequencesExt

CONSTANTS
  Writes,     (* the inserts and updates of the users, each made once       *)
  MaxTxn,     (* bound on the transactions begun                            *)
  MaxFaults   (* bound on the connections the server drops                  *)

TxnControl == {"begin", "commit", "rollback"}
SetUp == {"names", "charset"}       (* kSetNamesUTF8, kSetCharactesUTF8     *)
Statements == Writes \cup TxnControl \cup SetUp

(* A write is an insert or an update, none of the other statements. *)
ASSUME MySQLAssumption ==
  /\ MaxTxn \in Nat /\ MaxFaults \in Nat
  /\ Writes \cap (TxnControl \cup SetUp) = {}

(* The client. *)
VARIABLES
  my,         (* my_: "null", "live", or "dead" (the server dropped it)     *)
  reconnect,  (* MYSQL_OPT_RECONNECT is set on the connection               *)
  status,     (* SERVER_STATUS_IN_TRANS of the last answer                  *)
  stack,      (* the calls in progress, the innermost first                 *)
  ret,        (* what the call that ended last returned                     *)
  crashed     (* a library call was made on a null my_                      *)
(* The server. *)
VARIABLES
  in_txn,     (* the connection has a transaction open                      *)
  pending,    (* the writes of that transaction                             *)
  db,         (* the writes that are durable, in order                      *)
  faults      (* connections dropped so far                                 *)
(* History: what the users of the connection know.                          *)
VARIABLES
  used,       (* the writes made so far                                     *)
  begun,      (* transactions begun so far                                  *)
  believes,   (* the user was told of a "begin" and of no end since         *)
  broken,     (* the connection was replaced since that "begin"             *)
  mine,       (* the writes that succeeded since that "begin"               *)
  durable,    (* writes a user was told succeeded, outside a transaction or *)
              (* in one that was committed on the connection that began it  *)
  undone,     (* writes of a transaction rolled back on its own connection  *)
  resent,     (* writes whose answer was lost the first time                *)
  unsettled   (* a connection was lost while it was being set up            *)

client == <<my, reconnect, status, stack, ret, crashed>>
server == <<in_txn, pending, db, faults>>
history == <<used, begun, believes, broken, mine, durable, undone, resent, unsettled>>
vars == <<client, server, history>>

Init ==
  /\ my = "null" /\ reconnect = FALSE /\ status = FALSE /\ stack = <<>> /\ ret = TRUE /\ crashed = FALSE
  /\ in_txn = FALSE /\ pending = <<>> /\ db = <<>> /\ faults = 0
  /\ used = {} /\ begun = 0 /\ believes = FALSE /\ broken = FALSE /\ mine = {}
  /\ durable = {} /\ undone = {} /\ resent = {} /\ unsettled = FALSE

-----------------------------------------------------------------------------
(* The call stack.  A frame is a function, its statement, and where it is.  *)

Execute(q) == [fn |-> "Execute", q |-> q, at |-> "check"]
BuildConnection == [fn |-> "Build", q |-> "none", at |-> "connect"]

At(fn, place) == ~crashed /\ stack # <<>> /\ Head(stack).fn = fn /\ Head(stack).at = place

Goto(place) == stack' = <<[Head(stack) EXCEPT !.at = place]>> \o Tail(stack)

Call(callee, place) == stack' = <<callee, [Head(stack) EXCEPT !.at = place]>> \o Tail(stack)

Return(value) == stack' = Tail(stack) /\ ret' = value

Statement == Head(stack).q

-----------------------------------------------------------------------------
(* The server, as one connection sees it. *)

\* What the statement q makes durable; "begin" commits implicitly.
Applied(q) == CASE q \in {"begin", "commit"} -> db \o pending
                [] q \in Writes /\ ~in_txn -> Append(db, q)
                [] OTHER -> db

Apply(q) ==
  /\ db' = Applied(q)
  /\ in_txn' = CASE q = "begin" -> TRUE
                 [] q \in {"commit", "rollback"} -> FALSE
                 [] OTHER -> in_txn
  /\ pending' = CASE q \in TxnControl -> <<>>
                  [] q \in Writes /\ in_txn -> Append(pending, q)
                  [] OTHER -> pending

\* The connection ends, and its transaction with it.
SessionEnds == in_txn' = FALSE /\ pending' = <<>>

SettingUp == \E k \in 1 .. Len(stack) : stack[k].fn = "Build"

\* A connection may be dropped at any time.
Drop ==
  /\ my = "live" /\ faults < MaxFaults
  /\ my' = "dead" /\ faults' = faults + 1
  /\ SessionEnds
  /\ unsettled' = (unsettled \/ SettingUp)
  /\ UNCHANGED <<reconnect, status, stack, ret, crashed, db, used, begun, believes, broken, mine,
                 durable, undone, resent>>

-----------------------------------------------------------------------------
(* What the user is told, once the outermost call returns. *)

Told(q, ok) ==
  /\ believes' = CASE q = "begin" /\ ok -> TRUE
                   [] q \in {"commit", "rollback"} /\ ok -> FALSE
                   [] OTHER -> believes
  /\ broken' = IF q = "begin" /\ ok THEN FALSE ELSE broken
  /\ mine' = CASE q \in TxnControl /\ ok -> {}
               [] q \in Writes /\ ok /\ believes -> mine \cup {q}
               [] OTHER -> mine
  /\ durable' = CASE q \in Writes /\ ok /\ ~believes -> durable \cup {q}
                  [] q = "commit" /\ ok /\ believes /\ ~broken -> durable \cup mine
                  [] OTHER -> durable
  /\ undone' = IF q = "rollback" /\ ok /\ believes /\ ~broken THEN undone \cup mine ELSE undone

Tell(q, ok) == IF Len(stack) = 1
                 THEN Told(q, ok)
                 ELSE UNCHANGED <<believes, broken, mine, durable, undone>>

-----------------------------------------------------------------------------
(* Execute, with SafeQuery inlined. *)

\* A user's call.  A transaction is begun when none is open; a write is made once.
UserCalls(q) ==
  /\ ~crashed /\ stack = <<>>
  /\ q \in Writes => q \notin used
  /\ q = "begin" => ~believes /\ begun < MaxTxn
  /\ q \in {"commit", "rollback"} => believes
  /\ stack' = <<Execute(q)>>
  /\ used' = used \cup ({q} \cap Writes)
  /\ begun' = IF q = "begin" THEN begun + 1 ELSE begun
  /\ UNCHANGED <<my, reconnect, status, ret, crashed, server, believes, broken, mine, durable,
                 undone, resent, unsettled>>

CheckConnection ==
  /\ At("Execute", "check")
  /\ IF my # "null" THEN Goto("first") ELSE Call(BuildConnection, "checked")
  /\ UNCHANGED <<my, reconnect, status, ret, crashed, server, history>>

\* A connection that cannot be built: the call ends with -2000, NULL or 0.
Checked ==
  /\ At("Execute", "checked")
  /\ IF ret THEN Goto("first") /\ UNCHANGED ret ELSE Return(FALSE)
  /\ UNCHANGED <<my, reconnect, status, crashed, server, history>>

Sending == At("Execute", "first") \/ At("Execute", "retry")

FaultyQuerySucceeds ==
  LET first == At("Execute", "first") IN
  /\ Sending /\ my = "live"
  /\ Apply(Statement)
  /\ status' = in_txn'
  /\ Return(first)
  /\ Tell(Statement, first)
  /\ UNCHANGED <<my, reconnect, crashed, faults, used, begun, resent, unsettled>>

\* mysql_real_query succeeds.
QuerySucceeds ==
  /\ Sending /\ my = "live"
  /\ Apply(Statement)
  /\ status' = in_txn'
  /\ Return(TRUE)
  /\ Tell(Statement, TRUE)
  /\ UNCHANGED <<my, reconnect, crashed, faults, used, begun, resent, unsettled>>

\* The server refuses the statement.
QueryRefused ==
  /\ Sending /\ my = "live"
  /\ Return(FALSE)
  /\ UNCHANGED <<my, reconnect, status, crashed, server, history>>

FaultyAfterLoss == IF At("Execute", "first") THEN Goto("first") /\ UNCHANGED ret ELSE Return(FALSE)

\* An error that says the connection is lost: another one, the first time.
AfterLoss == IF At("Execute", "first")
               THEN Call(BuildConnection, "rebuilt") /\ UNCHANGED ret
               ELSE Return(FALSE)

\* The connection was dropped before the statement was sent.
QueryGone ==
  /\ Sending /\ my = "dead"
  /\ AfterLoss
  /\ status' = FALSE
  /\ UNCHANGED <<my, reconnect, crashed, server, history>>

\* The server runs the statement and the connection is lost before its answer.
QueryLost ==
  /\ Sending /\ my = "live" /\ faults < MaxFaults
  /\ my' = "dead" /\ faults' = faults + 1
  /\ db' = Applied(Statement)
  /\ SessionEnds
  /\ AfterLoss
  /\ resent' = resent \cup ({Statement} \cap Writes)
  /\ unsettled' = (unsettled \/ SettingUp)
  /\ UNCHANGED <<reconnect, status, crashed, used, begun, believes, broken, mine,
                 durable, undone>>

\* The library replaces the connection by itself and goes on to send.
LibraryReconnects ==
  /\ Sending /\ my = "dead" /\ reconnect /\ ~status
  /\ my' = "live"
  /\ broken' = (broken \/ believes)
  /\ UNCHANGED <<reconnect, status, stack, ret, crashed, server, used, begun, believes,
                 mine, durable, undone, resent, unsettled>>

FaultyRebuiltAgain ==
  /\ At("Execute", "rebuilt")
  /\ IF ret THEN Goto("first") /\ UNCHANGED ret ELSE Return(FALSE)
  /\ UNCHANGED <<my, reconnect, status, crashed, server, history>>

FaultyRebuiltIsEnough ==
  /\ At("Execute", "rebuilt")
  /\ Return(ret)
  /\ Tell(Statement, ret)
  /\ UNCHANGED <<my, reconnect, status, crashed, server, used, begun, resent, unsettled>>

\* The statement is sent once more on the connection that replaces the lost one.
Rebuilt ==
  /\ At("Execute", "rebuilt")
  /\ IF ret THEN Goto("retry") /\ UNCHANGED ret ELSE Return(FALSE)
  /\ UNCHANGED <<my, reconnect, status, crashed, server, history>>

-----------------------------------------------------------------------------
(* BuildConnection. *)

\* CloseDb, then mysql_real_connect works.  mysql_autocommit(my_, 1) after it asks for
\* what is the server's default, and its failure is only logged; the connection lost
\* under it is a Drop.
Connects ==
  /\ At("Build", "connect")
  /\ my' = "live" /\ reconnect' = FALSE /\ status' = FALSE
  /\ SessionEnds
  /\ broken' = (broken \/ believes)
  /\ Goto("names")
  /\ UNCHANGED <<ret, crashed, db, faults, used, begun, believes, mine, durable, undone, resent, unsettled>>

FaultyConnectFails ==
  /\ At("Build", "connect")
  /\ my' = "null" /\ reconnect' = FALSE /\ status' = FALSE
  /\ SessionEnds
  /\ Goto("options")
  /\ UNCHANGED <<ret, crashed, db, faults, history>>

ConnectFails ==
  /\ At("Build", "connect")
  /\ my' = "null" /\ reconnect' = FALSE /\ status' = FALSE
  /\ SessionEnds
  /\ Return(FALSE)
  /\ UNCHANGED <<crashed, db, faults, history>>

\* Execute(kSetNamesUTF8) and Execute(kSetCharactesUTF8), whatever they answer.
SetNames ==
  /\ At("Build", "names")
  /\ Call(Execute("names"), "charset")
  /\ UNCHANGED <<my, reconnect, status, ret, crashed, server, history>>

SetCharset ==
  /\ At("Build", "charset")
  /\ Call(Execute("charset"), "options")
  /\ UNCHANGED <<my, reconnect, status, ret, crashed, server, history>>

\* mysql_options(my_, ...): an inner BuildConnection may have left my_ null.
SetOptions ==
  /\ At("Build", "options")
  /\ IF my = "null" THEN crashed' = TRUE /\ UNCHANGED <<reconnect, stack, ret>>
                    ELSE reconnect' = TRUE /\ Return(TRUE) /\ UNCHANGED crashed
  /\ UNCHANGED <<my, status, server, history>>

-----------------------------------------------------------------------------
Step ==
  \/ CheckConnection \/ Checked \/ QuerySucceeds \/ QueryRefused \/ QueryGone
  \/ LibraryReconnects \/ Rebuilt
  \/ Connects \/ ConnectFails \/ SetNames \/ SetCharset \/ SetOptions

Next ==
  \/ \E q \in Writes \cup TxnControl : UserCalls(q)
  \/ Step
  \/ QueryLost
  \/ Drop

Spec == Init /\ [][Next]_vars

\* The thread that made a call goes on with it.
FairSpec == Spec /\ WF_vars(Step)

-----------------------------------------------------------------------------
Places == {"check", "checked", "first", "rebuilt", "retry", "connect", "names", "charset",
           "options"}

TypeOK ==
  /\ my \in {"null", "live", "dead"}
  /\ {reconnect, status, ret, crashed, in_txn, believes, broken, unsettled} \subseteq BOOLEAN
  /\ \A k \in DOMAIN stack : /\ stack[k].fn \in {"Execute", "Build"}
                             /\ stack[k].q \in Statements \cup {"none"}
                             /\ stack[k].at \in Places
  /\ pending \in Seq(Writes) /\ db \in Seq(Writes)
  /\ faults \in 0 .. MaxFaults /\ begun \in 0 .. MaxTxn
  /\ {used, mine, durable, undone, resent} \subseteq SUBSET Writes

Stored == ToSet(db)

(***************************************************************************)
(* What the user was told is true as long as the connection was not        *)
(* replaced in the middle of a transaction: a write that succeeded is in   *)
(* the database, at once or when its transaction was committed, and one of *)
(* a transaction that was rolled back is not.                              *)
(***************************************************************************)
ToldIsTrue ==
  /\ durable \subseteq Stored
  /\ undone \cap Stored = {}

(***************************************************************************)
(* SafeQuery's second attempt repeats a write only when the answer to the  *)
(* first was lost, and never a third time.                                 *)
(***************************************************************************)
Occurrences(s, w) == Cardinality({k \in 1 .. Len(s) : s[k] = w})

Times(w) == Occurrences(db \o pending, w)

RepeatedOnlyIfAnswerLost ==
  \A w \in Writes : Times(w) <= (IF w \in resent THEN 2 ELSE 1)

(***************************************************************************)
(* A user who was told that no transaction is open leaves none behind for  *)
(* the next user of the pooled connection, whatever calls failed.          *)
(***************************************************************************)
NoTransactionLeftOpen == stack = <<>> /\ ~believes => ~in_txn

(***************************************************************************)
(* my_ is null in a library call only after the server dropped a           *)
(* connection while BuildConnection was setting it up.                     *)
(***************************************************************************)
NullOnlyIfLostInSetUp == crashed => unsettled

\* Every call comes to an end, however the reconnections nest.
CallsReturn == (stack # <<>>) ~> (stack = <<>> \/ crashed)
=============================================================================
